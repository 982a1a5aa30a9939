---------------------------- MODULE Research_proofs ----------------------------
(* Proofs about Research, for any pipelines, callers and bounds.             *)
EXTENDS Research, SequenceTheorems, TLAPS

(* Sessions of a caller that has moved its pipeline out of WAITING, FAILED   *)
(* or BLOCKED.                                                               *)
Claimed == {"running", "reattempt", "rerun"}
Holding == Claimed \cup Executing

(* Sessions between the start of an attempt and the verdict of its gate.     *)
Untold == {"build", "jsonl", "manifest", "evidence", "audit", "verify"}

(* A pipeline is READY while one caller holds it, and RUNNING while that     *)
(* caller executes it.                                                       *)
Ownership ==
  /\ \A c \in Callers : at[c] \in Claimed => run[Key(c)] = "READY"
  /\ \A c \in Callers : at[c] \in Executing => run[Key(c)] = "RUNNING"
  /\ \A c, d \in Callers :
       c # d /\ at[c] \in Holding /\ at[d] \in Holding => Key(c) # Key(d)

(* What a caller remembers is still there.                                   *)
Memory ==
  \A c \in Callers :
    /\ at[c] \in {"jsonl", "manifest"} => job[c].made # 0
    /\ at[c] \in {"again", "reattempt"} => job[c].n < MaxAttempts
    /\ at[c] \notin {"idle", "source"} => job[c].n <= Len(Mine(c))

(* No attempt has a verdict before its gate.                                 *)
Verdicts ==
  /\ \A k \in Keys, g \in Stage : \A n \in 1 .. Len(stages[k][g]) :
       stages[k][g][n].status = "READY" => stages[k][g][n].gate = "none"
  /\ \A c \in Callers : at[c] \in Untold =>
       Mine(c)[job[c].n].status = "RUNNING" /\ Mine(c)[job[c].n].gate = "none"

IInv == TypeOK /\ Ownership /\ Memory /\ Verdicts

(* No other caller holds pipeline k.                                         *)
Alone(c, k) == \A d \in Callers : d # c /\ at[d] \in Holding => Key(d) # k

(* How a step may change the attempts: it may add some, and change those of  *)
(* the pipeline that only c holds, but takes back neither an end nor a       *)
(* verdict.                                                                  *)
Keeps(a, b) ==
  /\ a.status # "READY" => b.status # "READY"
  /\ a.status \in {"PASS", "FAILED", "BLOCKED"} => b.status = a.status
  /\ a.gate # "none" => b.gate = a.gate

StagesStep(c, k) ==
  /\ stages' \in [Keys -> [Stage -> Seq(Attempt)]]
  /\ \A q \in Keys, g \in Stage :
       /\ Len(stages[q][g]) <= Len(stages'[q][g])
       /\ Len(stages'[q][g]) <= MaxAttempts
       /\ \A n \in 1 .. Len(stages'[q][g]) :
            stages'[q][g][n].status = "READY" => stages'[q][g][n].gate = "none"
       /\ \A n \in 1 .. Len(stages[q][g]) :
            /\ Keeps(stages[q][g][n], stages'[q][g][n])
            /\ stages'[q][g][n] # stages[q][g][n] => q = k /\ Alone(c, k)

(* Files are added, and published, but never withdrawn.                      *)
FilesStep ==
  /\ artifacts' \subseteq Artifact
  /\ \A a \in artifacts : \E b \in artifacts' :
       /\ b.key = a.key /\ b.n = a.n /\ b.kind = a.kind
       /\ a.published => b.published

KeepsHistory ==
  \A k \in Keys : /\ StageEvents(k) \subseteq StageEvents(k)'
                  /\ ArtifactEvents(k) \subseteq ArtifactEvents(k)'

LEMMA Constants ==
  /\ Stage = {"DATA_SOURCE", "DATASET_BUILD", "DATASET_AUDIT", "ARTIFACT_VERIFY"}
  /\ NoJob \in Job /\ NewAttempt \in Attempt
  BY ResearchAssumption DEF Stage, Order, NoJob, Job, NewAttempt, Attempt, Status

LEMMA LegalSteps ==
  ASSUME NEW from \in Status \cup {"NONE"}, NEW to \in Legal(from)
  PROVE  /\ to \in Status /\ (to = "READY" => from \in {"WAITING", "FAILED", "BLOCKED"})
         /\ to = "RUNNING" => from = "READY"
         /\ to \in {"PASS", "FAILED"} => from = "RUNNING"
         /\ to = "BLOCKED" => from \in {"WAITING", "READY", "RUNNING"}
  BY DEF Legal, Status

LEMMA Initially == Init => IInv
  <1> SUFFICES ASSUME Init PROVE IInv
    OBVIOUS
  <1>1. TypeOK
    BY Constants, ResearchAssumption DEF Init, TypeOK, Status, Sessions
  <1>2. Ownership /\ Memory /\ Verdicts
    BY DEF Init, Ownership, Memory, Verdicts, Claimed, Holding, Executing, InStage, Untold
  <1> QED
    BY <1>1, <1>2 DEF IInv

(* --------------------------- attempts and files -------------------------- *)

LEMMA StagesKept ==
  ASSUME IInv, NEW c, NEW k, UNCHANGED stages
  PROVE  StagesStep(c, k)
  BY DEF IInv, TypeOK, Verdicts, StagesStep, Keeps

LEMMA FilesKept ==
  ASSUME IInv, UNCHANGED artifacts
  PROVE  FilesStep
  BY DEF IInv, TypeOK, FilesStep

LEMMA HolderIsAlone ==
  ASSUME IInv, NEW c \in Callers, at[c] \in Holding
  PROVE  Alone(c, Key(c))
  BY DEF IInv, Ownership, Alone

LEMMA NobodyHolds ==
  ASSUME IInv, NEW c \in Callers, NEW k \in Keys, run[k] \notin {"READY", "RUNNING"}
  PROVE  Alone(c, k)
  BY DEF IInv, Ownership, Alone, Holding

LEMMA Remembered ==
  ASSUME IInv, NEW c \in Callers
  PROVE  /\ Key(c) \in Keys /\ job[c].stage \in Stage /\ job[c].n \in 1 .. MaxAttempts
         /\ job[c] \in Job /\ MaxAttempts \in Nat \ {0}
         /\ Mine(c) \in Seq(Attempt) /\ Len(Mine(c)) <= MaxAttempts
         /\ at[c] \notin {"idle", "source"} =>
              job[c].n \in 1 .. Len(Mine(c)) /\ Mine(c)[job[c].n] \in Attempt
  <1>1. /\ Key(c) \in Keys /\ job[c].stage \in Stage /\ job[c].n \in 1 .. MaxAttempts
        /\ job[c] \in Job /\ MaxAttempts \in Nat \ {0}
    BY ResearchAssumption DEF IInv, TypeOK, Job, Key
  <1>2. Mine(c) \in Seq(Attempt) /\ Len(Mine(c)) <= MaxAttempts
    BY <1>1 DEF IInv, TypeOK, Mine
  <1>3. ASSUME at[c] \notin {"idle", "source"}
        PROVE  job[c].n \in 1 .. Len(Mine(c))
    BY <1>1, <1>2, <1>3 DEF IInv, Memory
  <1> QED
    BY <1>1, <1>2, <1>3

(* One attempt is replaced by one that keeps what it tells.                  *)
LEMMA AttemptChanges ==
  ASSUME IInv, NEW c \in Callers, at[c] \in Executing, NEW a \in Attempt,
         stages' = [stages EXCEPT ![Key(c)][job[c].stage][job[c].n] = a],
         Keeps(Mine(c)[job[c].n], a), a.status = "READY" => a.gate = "none"
  PROVE  /\ StagesStep(c, Key(c))
         /\ job[c].n \in 1 .. Len(Mine(c))
         /\ \A q \in Keys, g \in Stage : Len(stages'[q][g]) = Len(stages[q][g])
         /\ stages'[Key(c)][job[c].stage][job[c].n] = a
         /\ \A q \in Keys : q # Key(c) => stages'[q] = stages[q]
         /\ \A g \in Stage : g # job[c].stage => stages'[Key(c)][g] = stages[Key(c)][g]
         /\ \A n \in 1 .. Len(Mine(c)) :
              n # job[c].n => stages'[Key(c)][job[c].stage][n] = Mine(c)[n]
  <1> DEFINE k == Key(c)
             g == job[c].stage
             n == job[c].n
  <1>1. k \in Keys /\ g \in Stage /\ n \in 1 .. Len(stages[k][g])
    BY Remembered DEF Mine, Executing, InStage
  <1>2. stages[k][g] \in Seq(Attempt) /\ Len(stages[k][g]) <= MaxAttempts
    BY <1>1 DEF IInv, TypeOK
  <1> DEFINE new == [stages[k][g] EXCEPT ![n] = a]
  <1>3. /\ new \in Seq(Attempt) /\ Len(new) = Len(stages[k][g]) /\ new[n] = a
        /\ \A m \in 1 .. Len(new) : m # n => new[m] = stages[k][g][m]
    BY <1>1, <1>2
  <1>4. /\ stages' = [stages EXCEPT ![k] = [stages[k] EXCEPT ![g] = new]]
        /\ stages[k] \in [Stage -> Seq(Attempt)]
        /\ stages \in [Keys -> [Stage -> Seq(Attempt)]]
    BY <1>1 DEF IInv, TypeOK
  <1> HIDE DEF new
  <1>5. /\ stages' \in [Keys -> [Stage -> Seq(Attempt)]] /\ stages'[k][g] = new
        /\ \A q \in Keys, h \in Stage :
             q # k \/ h # g => stages'[q][h] = stages[q][h]
        /\ \A q \in Keys : q # k => stages'[q] = stages[q]
    BY <1>1, <1>3, <1>4
  <1>6. Alone(c, k)
    BY HolderIsAlone DEF Holding
  <1>7. Keeps(stages[k][g][n], a)
    BY DEF Mine
  <1>8. \A q \in Keys, h \in Stage :
          /\ Len(stages[q][h]) = Len(stages'[q][h])
          /\ Len(stages[q][h]) <= MaxAttempts
          /\ \A m \in 1 .. Len(stages[q][h]) :
               /\ stages'[q][h][m] # stages[q][h][m] => q = k /\ h = g /\ m = n
               /\ stages[q][h][m].status = "READY" => stages[q][h][m].gate = "none"
    BY <1>1, <1>2, <1>3, <1>5 DEF IInv, TypeOK, Verdicts
  <1>9. StagesStep(c, k)
    <2>1. ASSUME NEW q \in Keys, NEW h \in Stage, NEW m \in 1 .. Len(stages[q][h])
          PROVE  /\ Keeps(stages[q][h][m], stages'[q][h][m])
                 /\ stages'[q][h][m] # stages[q][h][m] => q = k /\ Alone(c, k)
                 /\ stages'[q][h][m].status = "READY" => stages'[q][h][m].gate = "none"
      <3>1. CASE q = k /\ h = g /\ m = n
        BY <1>3, <1>5, <1>6, <1>7, <3>1
      <3>2. CASE ~(q = k /\ h = g /\ m = n)
        <4>1. stages'[q][h][m] = stages[q][h][m]
          BY <1>8, <3>2
        <4>2. stages[q][h][m].status = "READY" => stages[q][h][m].gate = "none"
          BY <1>8
        <4> QED
          BY <4>1, <4>2 DEF Keeps
      <3> QED
        BY <3>1, <3>2
    <2>2. ASSUME NEW q \in Keys, NEW h \in Stage
          PROVE  /\ Len(stages[q][h]) <= Len(stages'[q][h])
                 /\ Len(stages'[q][h]) <= MaxAttempts
                 /\ 1 .. Len(stages'[q][h]) = 1 .. Len(stages[q][h])
      <3>1. Len(stages[q][h]) = Len(stages'[q][h]) /\ Len(stages[q][h]) <= MaxAttempts
        BY <1>8
      <3>2. Len(stages[q][h]) \in Nat
        BY DEF IInv, TypeOK
      <3> QED
        BY <3>1, <3>2
    <2>3. stages' \in [Keys -> [Stage -> Seq(Attempt)]]
      BY <1>5
    <2>4. ASSUME NEW q \in Keys, NEW h \in Stage
          PROVE  /\ Len(stages[q][h]) <= Len(stages'[q][h])
                 /\ Len(stages'[q][h]) <= MaxAttempts
                 /\ \A m \in 1 .. Len(stages'[q][h]) :
                      stages'[q][h][m].status = "READY" => stages'[q][h][m].gate = "none"
                 /\ \A m \in 1 .. Len(stages[q][h]) :
                      /\ Keeps(stages[q][h][m], stages'[q][h][m])
                      /\ stages'[q][h][m] # stages[q][h][m] => q = k /\ Alone(c, k)
      BY <2>1, <2>2
    <2> QED
      BY <2>3, <2>4, Zenon DEF StagesStep
  <1>10. n \in 1 .. Len(Mine(c)) /\ stages'[k][g][n] = a
    BY <1>1, <1>3, <1>5 DEF Mine
  <1>11. \A h \in Stage : h # g => stages'[k][h] = stages[k][h]
    BY <1>1, <1>5
  <1>12. \A m \in 1 .. Len(Mine(c)) : m # n => stages'[k][g][m] = Mine(c)[m]
    BY <1>3, <1>5 DEF Mine
  <1>13. \A q \in Keys, h \in Stage : Len(stages'[q][h]) = Len(stages[q][h])
    BY <1>8
  <1> QED
    BY <1>5, <1>9, <1>10, <1>11, <1>12, <1>13, Zenon

(* transition_stage: towards an end, and never out of one.                   *)
LEMMA SetStageStep ==
  ASSUME IInv, NEW c \in Callers, at[c] \in Executing,
         NEW target \in {"RUNNING", "PASS", "FAILED", "BLOCKED"}, SetStage(c, target)
  PROVE  /\ StagesStep(c, Key(c)) /\ UNCHANGED <<run, artifacts>>
         /\ job[c].n \in 1 .. Len(Mine(c))
         /\ \A q \in Keys, g \in Stage : Len(stages'[q][g]) = Len(stages[q][g])
         /\ LET new == stages'[Key(c)][job[c].stage][job[c].n]
            IN  new.status = target /\ new.gate = Mine(c)[job[c].n].gate
  <1> DEFINE old == Mine(c)[job[c].n]
             new == [old EXCEPT !.status = target]
  <1>1. /\ Key(c) \in Keys /\ job[c].stage \in Stage /\ job[c].n \in 1 .. Len(Mine(c))
        /\ old \in Attempt
    BY Remembered DEF Executing, InStage
  <1>2. new \in Attempt /\ new.status = target /\ new.gate = old.gate
    BY <1>1 DEF Attempt, Status
  <1>3. stages' = [stages EXCEPT ![Key(c)][job[c].stage][job[c].n] = new]
    BY <1>1 DEF SetStage, Mine, IInv, TypeOK
  <1>4. old.status \in Status /\ target \in Legal(old.status)
    BY <1>1 DEF SetStage, Attempt
  <1>5. Keeps(old, new) /\ UNCHANGED <<run, artifacts>> /\ target # "READY"
    BY <1>2, <1>4, LegalSteps DEF Keeps, SetStage
  <1> HIDE DEF new
  <1>6. /\ StagesStep(c, Key(c))
        /\ \A q \in Keys, g \in Stage : Len(stages'[q][g]) = Len(stages[q][g])
        /\ stages'[Key(c)][job[c].stage][job[c].n] = new
    BY <1>2, <1>3, <1>5, AttemptChanges
  <1> QED
    BY <1>1, <1>2, <1>5, <1>6

(* update_stage_evidence, where no verdict was given.                        *)
LEMMA EvidenceStep ==
  ASSUME IInv, NEW c \in Callers, at[c] \in {"evidence", "audit"},
         NEW gate \in {"PASS", "FAILED"}, NEW content \in 0 .. MaxData,
         Evidence(c, gate, content)
  PROVE  /\ StagesStep(c, Key(c)) /\ UNCHANGED <<run, artifacts>>
         /\ job[c].n \in 1 .. Len(Mine(c))
         /\ \A q \in Keys, g \in Stage : Len(stages'[q][g]) = Len(stages[q][g])
  <1> DEFINE old == Mine(c)[job[c].n]
             new == [old EXCEPT !.gate = gate, !.content = content]
  <1>1. /\ Key(c) \in Keys /\ job[c].stage \in Stage /\ job[c].n \in 1 .. Len(Mine(c))
        /\ old \in Attempt /\ at[c] \in Executing
    BY Remembered DEF Executing, InStage
  <1>2. old.status = "RUNNING" /\ old.gate = "none"
    BY DEF IInv, Verdicts, Untold
  <1>3. new \in Attempt /\ new.status = "RUNNING" /\ new.gate = gate
    BY <1>1, <1>2 DEF Attempt
  <1>4. stages' = [stages EXCEPT ![Key(c)][job[c].stage][job[c].n] = new]
    BY <1>1 DEF Evidence, Mine, IInv, TypeOK
  <1>5. Keeps(old, new)
    BY <1>2, <1>3 DEF Keeps
  <1> QED
    BY <1>1, <1>3, <1>4, <1>5, AttemptChanges DEF Evidence

(* The attempts of one stage get one more, or stay.                          *)
LEMMA AttemptsGrow ==
  ASSUME IInv, NEW c \in Callers, NEW k \in Keys, NEW g \in Stage,
         NEW s \in {stages[k][g], Append(stages[k][g], NewAttempt)},
         Len(s) <= MaxAttempts, stages' = [stages EXCEPT ![k][g] = s]
  PROVE  StagesStep(c, k) /\ stages'[k][g] = s
  <1>1. stages[k][g] \in Seq(Attempt) /\ stages \in [Keys -> [Stage -> Seq(Attempt)]]
    BY DEF IInv, TypeOK
  <1>2. /\ s \in Seq(Attempt) /\ Len(stages[k][g]) <= Len(s)
        /\ \A n \in 1 .. Len(stages[k][g]) : s[n] = stages[k][g][n]
        /\ \A n \in 1 .. Len(s) : n \in 1 .. Len(stages[k][g]) \/ s[n] = NewAttempt
    <2> DEFINE old == stages[k][g]
    <2>1. old \in Seq(Attempt) /\ NewAttempt \in Attempt
      BY <1>1, Constants
    <2>2. CASE s = old
      BY <2>1, <2>2
    <2>3. CASE s = Append(old, NewAttempt)
      <3> HIDE DEF old
      <3>1. /\ Append(old, NewAttempt) \in Seq(Attempt)
            /\ Len(Append(old, NewAttempt)) = Len(old) + 1
            /\ \A n \in 1 .. Len(old) : Append(old, NewAttempt)[n] = old[n]
            /\ Append(old, NewAttempt)[Len(old) + 1] = NewAttempt
        BY <2>1
      <3>2. Len(old) \in Nat
        BY <2>1
      <3> QED
        BY <2>3, <3>1, <3>2 DEF old
    <2> QED
      BY <2>2, <2>3
  <1>3. /\ stages' \in [Keys -> [Stage -> Seq(Attempt)]] /\ stages'[k][g] = s
        /\ \A q \in Keys, h \in Stage :
             q # k \/ h # g => stages'[q][h] = stages[q][h]
    BY <1>1, <1>2
  <1>4. ASSUME NEW q \in Keys, NEW h \in Stage
        PROVE  /\ Len(stages[q][h]) <= Len(stages'[q][h])
               /\ Len(stages'[q][h]) <= MaxAttempts
               /\ \A n \in 1 .. Len(stages'[q][h]) :
                    stages'[q][h][n].status = "READY" => stages'[q][h][n].gate = "none"
               /\ \A n \in 1 .. Len(stages[q][h]) : stages'[q][h][n] = stages[q][h][n]
    <2>1. CASE q = k /\ h = g
      <3>1. \A n \in 1 .. Len(stages[k][g]) :
              stages[k][g][n].status = "READY" => stages[k][g][n].gate = "none"
        BY DEF IInv, Verdicts
      <3>2. NewAttempt.gate = "none" /\ stages'[q][h] = s
        BY <1>3, <2>1 DEF NewAttempt
      <3>3. \A n \in 1 .. Len(s) : s[n].status = "READY" => s[n].gate = "none"
        BY <1>2, <3>1, <3>2
      <3> QED
        BY <1>2, <2>1, <3>2, <3>3
    <2>2. CASE ~(q = k /\ h = g)
      <3>1. stages[q][h] \in Seq(Attempt) /\ Len(stages[q][h]) <= MaxAttempts
        BY DEF IInv, TypeOK
      <3>2. \A n \in 1 .. Len(stages[q][h]) :
              stages[q][h][n].status = "READY" => stages[q][h][n].gate = "none"
        BY DEF IInv, Verdicts
      <3>3. stages'[q][h] = stages[q][h] /\ Len(stages[q][h]) \in Nat
        BY <1>3, <2>2, <3>1
      <3> QED
        BY <3>1, <3>2, <3>3
    <2> QED
      BY <2>1, <2>2
  <1> QED
    BY <1>3, <1>4 DEF StagesStep, Keeps

(* ------------------------------- one step -------------------------------- *)

(* What is true of session s with memory j.                                  *)
Fits(c, k, s, j) ==
  /\ s \in Sessions /\ j \in Job
  /\ s \in Holding => j.key = k /\ Alone(c, k)
  /\ s \in Claimed => run'[k] = "READY"
  /\ s \in Executing => run'[k] = "RUNNING"
  /\ s \in {"jsonl", "manifest"} => j.made # 0
  /\ s \in {"again", "reattempt"} => j.n < MaxAttempts
  /\ s \notin {"idle", "source"} => j.n <= Len(stages'[j.key][j.stage])
  /\ s \in Untold => /\ stages'[j.key][j.stage][j.n].status = "RUNNING"
                     /\ stages'[j.key][j.stage][j.n].gate = "none"

RunStep(c, k) ==
  /\ run' \in [Keys -> Status \cup {"NONE"}]
  /\ \A q \in Keys : run'[q] # run[q] => q = k /\ Alone(c, k)

LEMMA CallerStep ==
  ASSUME IInv, NEW c \in Callers, NEW k \in Keys, NEW s, NEW j,
         at' = [at EXCEPT ![c] = s], job' = [job EXCEPT ![c] = j],
         data' \in 1 .. MaxData, trouble' \in 0 .. MaxTrouble,
         StagesStep(c, k), FilesStep, RunStep(c, k), Fits(c, k, s, j)
  PROVE  IInv' /\ KeepsHistory
  <1>1. /\ at \in [Callers -> Sessions] /\ job \in [Callers -> Job]
        /\ at' \in [Callers -> Sessions] /\ job' \in [Callers -> Job]
        /\ at'[c] = s /\ job'[c] = j
        /\ \A d \in Callers : d # c => at'[d] = at[d] /\ job'[d] = job[d]
    BY DEF IInv, TypeOK, Fits
  <1>2. TypeOK'
    BY <1>1 DEF TypeOK, StagesStep, FilesStep, RunStep
  <1>3. Ownership'
    <2>1. ASSUME NEW d \in Callers, d # c, at'[d] \in Holding
          PROVE  run'[job[d].key] = run[job[d].key] /\ job[d].key \in Keys
      BY <1>1, <2>1, Remembered DEF RunStep, Alone, Key
    <2>2. ASSUME NEW d \in Callers
          PROVE  /\ at'[d] \in Claimed => run'[job'[d].key] = "READY"
                 /\ at'[d] \in Executing => run'[job'[d].key] = "RUNNING"
      BY <1>1, <2>1 DEF IInv, Ownership, Key, Fits, Holding
    <2>3. ASSUME NEW d \in Callers, NEW e \in Callers, d # e,
                 at'[d] \in Holding, at'[e] \in Holding
          PROVE  job'[d].key # job'[e].key
      BY <1>1, <2>3 DEF IInv, Ownership, Key, Fits, Alone
    <2> QED
      BY <2>2, <2>3 DEF Ownership, Key
  <1>4. Memory'
    <2>1. ASSUME NEW d \in Callers
          PROVE  /\ at'[d] \in {"jsonl", "manifest"} => job'[d].made # 0
                 /\ at'[d] \in {"again", "reattempt"} => job'[d].n < MaxAttempts
                 /\ at'[d] \notin {"idle", "source"} =>
                      job'[d].n <= Len(stages'[job'[d].key][job'[d].stage])
      <3>1. CASE d = c
        BY <1>1, <3>1 DEF Fits
      <3>2. CASE d # c
        <4>1. Len(stages[Key(d)][job[d].stage]) <= Len(stages'[Key(d)][job[d].stage])
          BY Remembered DEF StagesStep
        <4>2. /\ Mine(d) \in Seq(Attempt) /\ job[d].n \in Nat
              /\ stages'[Key(d)][job[d].stage] \in Seq(Attempt)
          BY Remembered DEF StagesStep
        <4>3. /\ at'[d] = at[d] /\ job'[d] = job[d]
          BY <1>1, <3>2
        <4>4. /\ at[d] \in {"jsonl", "manifest"} => job[d].made # 0
              /\ at[d] \in {"again", "reattempt"} => job[d].n < MaxAttempts
              /\ at[d] \notin {"idle", "source"} =>
                   job[d].n <= Len(stages[job[d].key][job[d].stage])
          BY DEF IInv, Memory, Mine, Key
        <4>5. PICK old \in Seq(Attempt), new \in Seq(Attempt), n \in Nat :
                 /\ old = stages[job[d].key][job[d].stage] /\ n = job[d].n
                 /\ new = stages'[job[d].key][job[d].stage]
          BY <4>2 DEF Mine, Key
        <4>6. at[d] \notin {"idle", "source"} => n <= Len(old)
          BY <4>4, <4>5
        <4>7. Len(old) <= Len(new)
          BY <4>1, <4>5 DEF Key
        <4>8. Len(old) \in Nat /\ Len(new) \in Nat
          OBVIOUS
        <4>9. at[d] \notin {"idle", "source"} => n <= Len(new)
          BY <4>6, <4>7, <4>8
        <4> QED
          BY <4>3, <4>4, <4>5, <4>9
      <3> QED
        BY <3>1, <3>2
    <2> QED
      BY <2>1 DEF Memory, Mine, Key
  <1>5. Verdicts'
    <2>1. ASSUME NEW d \in Callers, at'[d] \in Untold
          PROVE  /\ stages'[job'[d].key][job'[d].stage][job'[d].n].status = "RUNNING"
                 /\ stages'[job'[d].key][job'[d].stage][job'[d].n].gate = "none"
      <3>1. CASE d = c
        BY <1>1, <2>1, <3>1 DEF Fits
      <3>2. CASE d # c
        <4>1. /\ at[d] \in Holding /\ job[d].n \in 1 .. Len(Mine(d))
              /\ Key(d) \in Keys /\ job[d].stage \in Stage
          BY <1>1, <2>1, <3>2, Remembered DEF Untold, Holding, Executing, InStage
        <4>2. stages'[Key(d)][job[d].stage][job[d].n] = Mine(d)[job[d].n]
          BY <3>2, <4>1 DEF StagesStep, Alone, Mine
        <4> QED
          BY <1>1, <2>1, <3>2, <4>2 DEF IInv, Verdicts, Key
      <3> QED
        BY <3>1, <3>2
    <2>2. \A q \in Keys, g \in Stage : \A n \in 1 .. Len(stages'[q][g]) :
            stages'[q][g][n].status = "READY" => stages'[q][g][n].gate = "none"
      BY DEF StagesStep
    <2> QED
      BY <2>1, <2>2 DEF Verdicts, Mine, Key
  <1>6. KeepsHistory
    <2>1. ASSUME NEW q \in Keys, NEW e \in StageEvents(q)
          PROVE  e \in StageEvents(q)'
      <3>1. /\ e \in EventTypes \X Stage \X (1 .. MaxAttempts)
            /\ e[3] \in 1 .. Len(stages[q][e[2]])
            /\ Tells(e[1], e[3], stages[q][e[2]][e[3]])
        <4>1. e[2] \in Stage /\ stages[q][e[2]] \in Seq(Attempt) /\ MaxAttempts \in Nat
          BY ResearchAssumption DEF StageEvents, IInv, TypeOK
        <4> QED
          BY <4>1 DEF StageEvents
      <3>2. /\ e[3] <= Len(stages'[q][e[2]])
            /\ Keeps(stages[q][e[2]][e[3]], stages'[q][e[2]][e[3]])
        <4>1. e[2] \in Stage /\ stages'[q][e[2]] \in Seq(Attempt) /\ stages[q][e[2]] \in Seq(Attempt)
          BY <3>1 DEF StagesStep, IInv, TypeOK
        <4> QED
          BY <3>1, <4>1 DEF StagesStep
      <3>3. Tells(e[1], e[3], stages'[q][e[2]][e[3]])
        BY <3>1, <3>2 DEF Tells, Keeps, EventTypes
      <3> QED
        BY <3>1, <3>2, <3>3 DEF StageEvents
    <2>2. ASSUME NEW q \in Keys, NEW e \in ArtifactEvents(q)
          PROVE  e \in ArtifactEvents(q)'
      BY <2>2 DEF ArtifactEvents, FilesStep
    <2> QED
      BY <2>1, <2>2 DEF KeepsHistory
  <1> QED
    BY <1>2, <1>3, <1>4, <1>5, <1>6 DEF IInv

LEMMA RunKept ==
  ASSUME IInv, NEW c, NEW k, UNCHANGED run
  PROVE  RunStep(c, k)
  BY DEF IInv, TypeOK, RunStep

LEMMA RunMoves ==
  ASSUME IInv, NEW c \in Callers, NEW k \in Keys, Alone(c, k),
         NEW target \in Status, run' = [run EXCEPT ![k] = target]
  PROVE  RunStep(c, k) /\ run'[k] = target
  BY DEF IInv, TypeOK, RunStep

(* A caller that stores nothing, and goes on with what it holds.             *)
LEMMA QuietStep ==
  ASSUME IInv, NEW c \in Callers, UNCHANGED store, NEW s \in Sessions, NEW j \in Job,
         at' = [at EXCEPT ![c] = s], job' = [job EXCEPT ![c] = j],
         data' \in 1 .. MaxData, trouble' \in 0 .. MaxTrouble,
         \/ s = "idle"
         \/ /\ at[c] \in Executing /\ s \in Executing \ Untold
            /\ j.key = job[c].key /\ j.stage = job[c].stage /\ j.n = job[c].n
  PROVE  IInv' /\ KeepsHistory
  <1>1. StagesStep(c, Key(c)) /\ FilesStep /\ RunStep(c, Key(c)) /\ Key(c) \in Keys
    BY StagesKept, FilesKept, RunKept, Remembered DEF store
  <1>2. Fits(c, Key(c), s, j)
    <2>1. CASE s = "idle"
      BY <2>1 DEF Fits, Holding, Claimed, Executing, InStage, Untold
    <2>2. CASE s # "idle"
      <3>1. Alone(c, Key(c)) /\ run'[Key(c)] = "RUNNING" /\ j.key = Key(c)
        BY <2>2, HolderIsAlone DEF Holding, IInv, Ownership, Key, store
      <3>2. j.n <= Len(stages'[j.key][j.stage])
        BY <2>2, Remembered DEF Executing, InStage, Mine, Key, store
      <3> QED
        BY <2>2, <3>1, <3>2 DEF Fits, Claimed, Executing, InStage, Untold
    <2> QED
      BY <2>1, <2>2
  <1> QED
    BY <1>1, <1>2, CallerStep

LEMMA Same ==
  ASSUME IInv, NEW c \in Callers
  PROVE  job = [job EXCEPT ![c] = job[c]]
  BY DEF IInv, TypeOK

(* The sessions that only move on.                                           *)
LEMMA MovesOn ==
  ASSUME IInv, NEW c \in Callers, NEW s \in Executing \ Untold,
         at[c] \in Executing, at' = [at EXCEPT ![c] = s],
         UNCHANGED <<data, job, store>>, trouble' \in 0 .. MaxTrouble
  PROVE  IInv' /\ KeepsHistory
  <1>1. job' = [job EXCEPT ![c] = job[c]] /\ job[c] \in Job
    BY Same, Remembered
  <1>2. data' \in 1 .. MaxData /\ s \in Sessions
    BY DEF IInv, TypeOK, Sessions
  <1> QED
    BY <1>1, <1>2, QuietStep

LEMMA Gives ==
  ASSUME IInv, NEW c \in Callers, Return(c), UNCHANGED store
  PROVE  IInv' /\ KeepsHistory
  BY Constants, QuietStep DEF Return, IInv, TypeOK, Sessions

LEMMA RunPipelineStep ==
  ASSUME IInv, NEW c \in Callers, NEW k \in Keys, RunPipeline(c, k)
  PROVE  IInv' /\ KeepsHistory
  <1> DEFINE j == [NoJob EXCEPT !.key = k]
  <1>1. j \in Job
    BY Constants DEF Job
  <1>2. Alone(c, k)
    BY NobodyHolds DEF RunPipeline
  <1>3. StagesStep(c, k) /\ FilesStep /\ RunStep(c, k)
    BY <1>2, StagesKept, FilesKept, RunMoves DEF RunPipeline, Status
  <1>4. Fits(c, k, "source", j)
    BY <1>1 DEF Fits, Sessions, Holding, Claimed, Executing, InStage, Untold
  <1> QED
    BY <1>3, <1>4, CallerStep DEF RunPipeline, Enter, IInv, TypeOK

(* _ensure_stage, before the pipeline is claimed and between two stages.     *)
LEMMA EnsureStep ==
  ASSUME IInv, NEW c \in Callers, NEW g \in Stage, NEW s \in {"ready", "start"},
         s = "start" => at[c] \in Executing, EnsureStage(c, job[c], g, s)
  PROVE  IInv' /\ KeepsHistory
  <1> DEFINE k == Key(c)
             new == Ensured(k, g)
             j == [job[c] EXCEPT !.stage = g, !.n = Len(new),
                                 !.fresh = new[Len(new)].status = "READY"]
  <1>1. /\ k \in Keys /\ job[c] \in Job /\ MaxAttempts \in Nat \ {0}
        /\ stages[k][g] \in Seq(Attempt) /\ Len(stages[k][g]) <= MaxAttempts
    BY Remembered DEF IInv, TypeOK
  <1>2. /\ new \in {stages[k][g], Append(stages[k][g], NewAttempt)}
        /\ Len(new) \in 1 .. MaxAttempts
    BY <1>1 DEF Ensured
  <1>3. stages' = [stages EXCEPT ![k][g] = new] /\ UNCHANGED <<run, artifacts>>
    BY DEF EnsureStage, Key
  <1>4. StagesStep(c, k) /\ stages'[k][g] = new
    <2> HIDE DEF new
    <2>1. Len(new) <= MaxAttempts
      BY <1>1, <1>2
    <2> QED
      BY <1>1, <1>2, <1>3, <2>1, AttemptsGrow
  <1>5. FilesStep /\ RunStep(c, k)
    BY <1>3, FilesKept, RunKept
  <1>6. j \in Job /\ j.key = k /\ j.stage = g /\ j.n = Len(new)
    BY <1>1, <1>2 DEF Job, Key
  <1>7. Fits(c, k, s, j)
    <2>1. s = "start" => Alone(c, k) /\ run'[k] = "RUNNING"
      BY <1>3, HolderIsAlone DEF Holding, IInv, Ownership
    <2> HIDE DEF j, new
    <2>2. j.n <= Len(stages'[j.key][j.stage])
      BY <1>2, <1>4, <1>6
    <2> QED
      BY <1>6, <2>1, <2>2 DEF Fits, Sessions, Holding, Claimed, Executing, InStage, Untold
  <1>8. at' = [at EXCEPT ![c] = s] /\ job' = [job EXCEPT ![c] = j] /\ UNCHANGED <<data, trouble>>
    BY DEF EnsureStage, Enter, Key
  <1> HIDE DEF j, new
  <1> QED
    BY <1>1, <1>4, <1>5, <1>7, <1>8, CallerStep DEF IInv, TypeOK

(* A claim succeeds, or the call ends there.                                 *)
LEMMA ClaimStep ==
  ASSUME IInv, NEW c \in Callers,
         \/ Claim(c, "ready", "READY", "running")
         \/ Claim(c, "again", "READY", "reattempt")
         \/ Claim(c, "running", "RUNNING", "start")
  PROVE  IInv' /\ KeepsHistory
  <1>1. PICK target \in {"READY", "RUNNING"}, next \in {"running", "reattempt", "start"} :
          /\ Claim(c, at[c], target, next)
          /\ target = "RUNNING" <=> next = "start"
          /\ target = "RUNNING" => at[c] = "running"
          /\ next = "reattempt" => at[c] = "again"
          /\ at[c] \in {"ready", "again", "running"}
    BY DEF Claim
  <1>2. CASE target \in Legal(run[Key(c)])
    <2>1. /\ run' = [run EXCEPT ![Key(c)] = target] /\ UNCHANGED <<stages, artifacts>>
          /\ Goto(c, next)
      BY <1>1, <1>2 DEF Claim, SetRun
    <2>2. Key(c) \in Keys /\ job[c] \in Job /\ run[Key(c)] \in Status \cup {"NONE"}
      BY Remembered DEF IInv, TypeOK
    <2>3. Alone(c, Key(c))
      <3>1. CASE target = "READY"
        BY <1>2, <2>2, <3>1, LegalSteps, NobodyHolds
      <3>2. CASE target = "RUNNING"
        BY <1>1, <3>2, HolderIsAlone DEF Holding, Claimed
      <3> QED
        BY <3>1, <3>2
    <2>4. /\ StagesStep(c, Key(c)) /\ FilesStep
          /\ RunStep(c, Key(c)) /\ run'[Key(c)] = target
      BY <2>1, <2>2, <2>3, StagesKept, FilesKept, RunMoves DEF Status
    <2>5. Fits(c, Key(c), next, job[c])
      <3>1. job[c].n <= Len(stages'[job[c].key][job[c].stage])
        BY <1>1, <2>1, Remembered DEF Mine, Key
      <3>2. next = "reattempt" => job[c].n < MaxAttempts
        BY <1>1 DEF IInv, Memory
      <3> QED
        BY <1>1, <2>2, <2>3, <2>4, <3>1, <3>2
        DEF Fits, Sessions, Holding, Claimed, Executing, InStage, Untold, Key
    <2> QED
      BY <2>1, <2>2, <2>4, <2>5, Same, CallerStep DEF Goto, IInv, TypeOK
  <1>3. CASE target \notin Legal(run[Key(c)])
    BY <1>1, <1>3, Gives DEF Claim
  <1> QED
    BY <1>2, <1>3

(* An executing caller goes on with the same attempt.                        *)
LEMMA WorkStep ==
  ASSUME IInv, NEW c \in Callers, at[c] \in Executing, NEW s \in Executing, NEW j \in Job,
         j.key = job[c].key /\ j.stage = job[c].stage /\ j.n = job[c].n,
         s \in {"jsonl", "manifest"} => j.made # 0,
         s \in Untold => LET a == stages'[Key(c)][job[c].stage][job[c].n]
                         IN  a.status = "RUNNING" /\ a.gate = "none",
         at' = [at EXCEPT ![c] = s], job' = [job EXCEPT ![c] = j],
         data' = data, trouble' \in 0 .. MaxTrouble,
         StagesStep(c, Key(c)), FilesStep, UNCHANGED run
  PROVE  IInv' /\ KeepsHistory
  <1>1. Key(c) \in Keys /\ RunStep(c, Key(c)) /\ data' \in 1 .. MaxData
    BY Remembered, RunKept DEF IInv, TypeOK
  <1>2. Alone(c, Key(c)) /\ run'[Key(c)] = "RUNNING" /\ s \in Sessions
    BY HolderIsAlone DEF Holding, IInv, Ownership, Sessions
  <1>3. j.n <= Len(stages'[j.key][j.stage])
    <2>1. /\ job[c].n \in 1 .. Len(Mine(c)) /\ Mine(c) \in Seq(Attempt)
          /\ job[c].stage \in Stage /\ Key(c) \in Keys
      BY Remembered DEF Executing, InStage
    <2>2. Len(Mine(c)) <= Len(stages'[Key(c)][job[c].stage])
      BY <2>1 DEF StagesStep, Mine
    <2>3. stages'[Key(c)][job[c].stage] \in Seq(Attempt)
      BY <2>1 DEF StagesStep
    <2> QED
      BY <2>1, <2>2, <2>3 DEF Key
  <1>4. Fits(c, Key(c), s, j)
    BY <1>2, <1>3 DEF Fits, Key, Claimed, Executing, InStage
  <1> QED
    BY <1>1, <1>4, CallerStep

LEMMA StillUntold ==
  ASSUME IInv, NEW c \in Callers, at[c] \in Untold, UNCHANGED stages
  PROVE  /\ at[c] \in Executing
         /\ stages'[Key(c)][job[c].stage][job[c].n].status = "RUNNING"
         /\ stages'[Key(c)][job[c].stage][job[c].n].gate = "none"
  BY DEF IInv, Verdicts, Untold, Executing, InStage, Mine

LEMMA StartStageStep ==
  ASSUME IInv, NEW c \in Callers, StartStage(c)
  PROVE  IInv' /\ KeepsHistory
  <1>1. at[c] = "start" /\ at[c] \in Executing /\ at[c] \notin {"idle", "source"}
    BY DEF StartStage, Executing, InStage
  <1>2. CASE job[c].fresh /\ Mine(c)[job[c].n].status = "READY"
    <2>1. SetStage(c, "RUNNING") /\ Goto(c, FirstWork[job[c].stage])
      BY <1>2 DEF StartStage
    <2>2. Mine(c)[job[c].n].gate = "none"
      BY <1>1, <1>2, Remembered DEF IInv, Verdicts, Mine
    <2>3. FirstWork[job[c].stage] \in Untold \ {"jsonl", "manifest"}
      BY Constants, Remembered DEF FirstWork, Untold
    <2>4. /\ StagesStep(c, Key(c)) /\ UNCHANGED <<run, artifacts>>
          /\ stages'[Key(c)][job[c].stage][job[c].n].status = "RUNNING"
          /\ stages'[Key(c)][job[c].stage][job[c].n].gate = "none"
      BY <1>1, <2>1, <2>2, SetStageStep
    <2>5. FirstWork[job[c].stage] \in Executing /\ FilesStep /\ trouble' \in 0 .. MaxTrouble
      BY <2>1, <2>3, <2>4, FilesKept DEF Untold, Executing, InStage, Goto, IInv, TypeOK
    <2> QED
      BY <1>1, <2>1, <2>3, <2>4, <2>5, Same, Remembered, WorkStep DEF Goto
  <1>3. CASE ~(job[c].fresh /\ Mine(c)[job[c].n].status = "READY")
    BY <1>1, <1>3, MovesOn DEF StartStage, Goto, Executing, InStage, Untold, IInv, TypeOK
  <1> QED
    BY <1>2, <1>3

LEMMA BuildRowsStep ==
  ASSUME IInv, NEW c \in Callers, BuildRows(c)
  PROVE  IInv' /\ KeepsHistory
  <1> DEFINE j == [job[c] EXCEPT !.made = data]
  <1>1. /\ job[c] \in Job /\ data \in 1 .. MaxData /\ MaxData \in Nat
        /\ trouble \in 0 .. MaxTrouble
    BY Remembered, ResearchAssumption DEF IInv, TypeOK
  <1>2. /\ j \in Job /\ j.key = job[c].key /\ j.stage = job[c].stage /\ j.n = job[c].n
        /\ j.made # 0
    BY <1>1 DEF Job
  <1>3. StagesStep(c, Key(c)) /\ FilesStep /\ UNCHANGED <<stages, run, data, trouble>>
    BY StagesKept, FilesKept DEF BuildRows, store, Enter
  <1>4. at[c] \in Untold /\ at' = [at EXCEPT ![c] = "jsonl"] /\ job' = [job EXCEPT ![c] = j]
    BY DEF BuildRows, Enter, Untold
  <1>5. "jsonl" \in Executing
    BY DEF Executing, InStage
  <1> HIDE DEF j
  <1> QED
    BY <1>1, <1>2, <1>3, <1>4, <1>5, StillUntold, WorkStep

LEMMA RegisterStep ==
  ASSUME IInv, NEW c \in Callers, NEW kind \in Kinds, NEW next \in {"manifest", "evidence"},
         Register(c, kind, next)
  PROVE  IInv' /\ KeepsHistory
  <1>1. /\ at[c] = kind /\ at[c] \in Untold /\ at[c] \in Executing /\ job[c].made # 0
        /\ next \in Executing /\ Key(c) \in Keys /\ job[c] \in Job
        /\ trouble \in 0 .. MaxTrouble
    BY Remembered DEF Register, RegisterWithoutComparing, Kinds, Untold, Executing, InStage,
                      IInv, Memory, TypeOK
  <1>2. CASE RegisterWithoutComparing(c, kind, next)
    <2> DEFINE file == [key |-> Key(c), n |-> job[c].n, kind |-> kind,
                        content |-> job[c].made, published |-> FALSE]
    <2>1. file \in Artifact
      BY <1>1 DEF Job, Artifact
    <2>2. artifacts' = artifacts \cup {file} /\ UNCHANGED <<run, stages>> /\ Goto(c, next)
      BY <1>2 DEF RegisterWithoutComparing
    <2>3. FilesStep
      BY <2>1, <2>2 DEF FilesStep, IInv, TypeOK
    <2>4. StagesStep(c, Key(c))
      BY <2>2, StagesKept
    <2>5. at' = [at EXCEPT ![c] = next] /\ job' = [job EXCEPT ![c] = job[c]]
          /\ UNCHANGED <<data, trouble>>
      BY <2>2, Same DEF Goto
    <2> QED
      BY <1>1, <2>2, <2>3, <2>4, <2>5, StillUntold, WorkStep
  <1>3. CASE Goto(c, "fail_stage") /\ UNCHANGED store
    BY <1>1, <1>3, MovesOn DEF Goto, Executing, InStage, Untold
  <1> QED
    BY <1>2, <1>3 DEF Register

(* The gates: a verdict, where there was none.                               *)
LEMMA GateStep ==
  ASSUME IInv, NEW c \in Callers,
         GatePasses(c) \/ AuditFiles(c) \/ AuditFindsDamage(c)
  PROVE  IInv' /\ KeepsHistory
  <1>1. PICK gate \in {"PASS", "FAILED"}, content \in 0 .. MaxData : Evidence(c, gate, content)
    BY Remembered, ResearchAssumption DEF GatePasses, AuditFiles, AuditFindsDamage, Job
  <1>2. at[c] \in {"evidence", "audit"} /\ at[c] \in Executing
    BY DEF GatePasses, AuditFiles, AuditFindsDamage, Executing, InStage
  <1>3. PICK s \in Executing \ Untold : at' = [at EXCEPT ![c] = s]
    BY DEF GatePasses, AuditFiles, AuditFindsDamage, Goto, Executing, InStage, Untold
  <1>4. /\ UNCHANGED <<data, job>> /\ trouble' \in 0 .. MaxTrouble
    BY ResearchAssumption DEF GatePasses, AuditFiles, AuditFindsDamage, Goto, IInv, TypeOK
  <1>5. StagesStep(c, Key(c)) /\ UNCHANGED <<run, artifacts>>
    BY <1>1, <1>2, EvidenceStep
  <1>6. job' = [job EXCEPT ![c] = job[c]] /\ job[c] \in Job /\ FilesStep
    BY <1>4, <1>5, Same, Remembered, FilesKept
  <1> QED
    BY <1>2, <1>3, <1>4, <1>5, <1>6, WorkStep DEF Untold

LEMMA PublishStep ==
  ASSUME IInv, NEW c \in Callers, Publish(c)
  PROVE  IInv' /\ KeepsHistory
  <1> DEFINE mine == Made(Key(c), job[c].build)
  <1>1. artifacts' = (artifacts \ mine) \cup {[a EXCEPT !.published = TRUE] : a \in mine}
    BY DEF Publish, PublishedFiles
  <1>2. artifacts \subseteq Artifact /\ mine \subseteq artifacts
    BY DEF IInv, TypeOK, Made
  <1> HIDE DEF mine
  <1>3. ASSUME NEW a \in mine
        PROVE  /\ [a EXCEPT !.published = TRUE] \in Artifact
               /\ [a EXCEPT !.published = TRUE].key = a.key
               /\ [a EXCEPT !.published = TRUE].n = a.n
               /\ [a EXCEPT !.published = TRUE].kind = a.kind
               /\ [a EXCEPT !.published = TRUE].published
    BY <1>2 DEF Artifact
  <1>4. ASSUME NEW a \in artifacts
        PROVE  \E b \in artifacts' : /\ b.key = a.key /\ b.n = a.n /\ b.kind = a.kind
                                     /\ a.published => b.published
    <2>1. CASE a \in mine
      <3>1. [a EXCEPT !.published = TRUE] \in artifacts'
        BY <1>1, <2>1
      <3> QED
        BY <1>3, <2>1, <3>1
    <2>2. CASE a \notin mine
      BY <1>1, <2>2
    <2> QED
      BY <2>1, <2>2
  <1>5. artifacts' \subseteq Artifact
    BY <1>1, <1>2, <1>3
  <1>6. FilesStep
    BY <1>4, <1>5 DEF FilesStep
  <1>7. at[c] \in Executing /\ "pass" \in Executing \ Untold
    BY DEF Publish, Executing, InStage, Untold
  <1>8. /\ at' = [at EXCEPT ![c] = "pass"] /\ UNCHANGED <<run, stages, data>>
        /\ job' = [job EXCEPT ![c] = job[c]] /\ job[c] \in Job /\ trouble' \in 0 .. MaxTrouble
    BY Same, Remembered DEF Publish, Goto, IInv, TypeOK
  <1>9. StagesStep(c, Key(c))
    BY <1>8, StagesKept
  <1> QED
    BY <1>6, <1>7, <1>8, <1>9, WorkStep DEF Untold

LEMMA VerifyStep ==
  ASSUME IInv, NEW c \in Callers, VerifyArtifacts(c)
  PROVE  IInv' /\ KeepsHistory
  <1>1. /\ at[c] \in Untold /\ at[c] \in Executing /\ UNCHANGED store
        /\ Goto(c, "evidence") \/ Goto(c, "fail_stage")
    BY DEF VerifyArtifacts, Untold, Executing, InStage
  <1>2. CASE Goto(c, "evidence")
    <2>1. /\ StagesStep(c, Key(c)) /\ FilesStep /\ UNCHANGED <<run, stages, data>>
          /\ job' = [job EXCEPT ![c] = job[c]] /\ job[c] \in Job /\ trouble' \in 0 .. MaxTrouble
      BY <1>1, <1>2, StagesKept, FilesKept, Same, Remembered DEF store, Goto, IInv, TypeOK
    <2>2. "evidence" \in Executing
      BY DEF Executing, InStage
    <2> QED
      BY <1>1, <1>2, <2>1, <2>2, StillUntold, WorkStep DEF Goto
  <1>3. CASE Goto(c, "fail_stage")
    BY <1>1, <1>3, MovesOn DEF Goto, Executing, InStage, Untold, IInv, TypeOK
  <1> QED
    BY <1>1, <1>2, <1>3

(* An attempt ends, and the caller goes on.                                  *)
LEMMA EndStep ==
  ASSUME IInv, NEW c \in Callers, at[c] \in Executing,
         NEW target \in {"PASS", "FAILED", "BLOCKED"},
         SetStage(c, target) \/ UNCHANGED store,
         NEW s \in Executing \ Untold, NEW j \in Job,
         j.key = job[c].key /\ j.stage = job[c].stage /\ j.n = job[c].n, Enter(c, s, j)
  PROVE  IInv' /\ KeepsHistory
  <1>1. StagesStep(c, Key(c)) /\ UNCHANGED <<run, artifacts>>
    <2>1. CASE SetStage(c, target)
      BY <2>1, SetStageStep
    <2>2. CASE UNCHANGED store
      BY <2>2, StagesKept DEF store
    <2> QED
      BY <2>1, <2>2
  <1>2. FilesStep /\ trouble' \in 0 .. MaxTrouble
    BY <1>1, FilesKept DEF Enter, IInv, TypeOK
  <1> QED
    BY <1>1, <1>2, WorkStep DEF Enter, Untold

LEMMA PassStageStep ==
  ASSUME IInv, NEW c \in Callers, PassStage(c)
  PROVE  IInv' /\ KeepsHistory
  <1> DEFINE j == IF job[c].stage = "DATASET_BUILD"
                  THEN [job[c] EXCEPT !.build = job[c].n, !.made = 0] ELSE job[c]
  <1>1. /\ j \in Job /\ j.key = job[c].key /\ j.stage = job[c].stage /\ j.n = job[c].n
    <2>1. /\ job[c] \in Job /\ job[c].n \in 0 .. MaxAttempts /\ 0 \in 0 .. MaxData
      BY Remembered, ResearchAssumption
    <2>2. [job[c] EXCEPT !.build = job[c].n, !.made = 0] \in Job
      BY <2>1 DEF Job
    <2> QED
      BY <2>1, <2>2 DEF Job
  <1>2. at[c] \in Executing /\ SetStage(c, "PASS")
    BY DEF PassStage, Executing, InStage
  <1>3. PICK s \in Executing \ Untold : Enter(c, s, j)
    BY DEF PassStage, Executing, InStage, Untold
  <1> HIDE DEF j
  <1> QED
    BY <1>1, <1>2, <1>3, EndStep

LEMMA FailStageStep ==
  ASSUME IInv, NEW c \in Callers,
         \/ FailStage(c, "fail_stage", "FAILED")
         \/ FailStage(c, "block_stage", "BLOCKED")
         \/ AuditFails(c)
  PROVE  IInv' /\ KeepsHistory
  <1>1. /\ at[c] \in Executing
        /\ \E target \in {"FAILED", "BLOCKED"} : SetStage(c, target) \/ UNCHANGED store
        /\ Goto(c, "fail_run") \/ Goto(c, "block_run")
    BY DEF FailStage, AuditFails, Executing, InStage
  <1>2. PICK s \in Executing \ Untold : Goto(c, s)
    BY <1>1 DEF Executing, InStage, Untold
  <1>3. Enter(c, s, job[c]) /\ job[c] \in Job
    BY <1>2, Same, Remembered DEF Goto, Enter
  <1> QED
    BY <1>1, <1>2, <1>3, EndStep

LEMMA NextStageStep ==
  ASSUME IInv, NEW c \in Callers, NextStage(c)
  PROVE  IInv' /\ KeepsHistory
  <1>1. PICK i \in 1 .. 3 : at[c] = "ensure" /\ EnsureStage(c, job[c], Order[i + 1], "start")
    BY DEF NextStage
  <1>2. Order[i + 1] \in Stage
    BY DEF Stage, Order
  <1>3. at[c] \in Executing
    BY <1>1 DEF Executing
  <1> QED
    BY <1>1, <1>2, <1>3, EnsureStep

(* The pipeline ends, or is left as it is, and so does the call.             *)
LEMMA RunEndStep ==
  ASSUME IInv, NEW c \in Callers, at[c] \in Executing, NEW target \in Status,
         SetRun(Key(c), target) \/ UNCHANGED store, Return(c)
  PROVE  IInv' /\ KeepsHistory
  <1>1. CASE SetRun(Key(c), target)
    <2>1. Alone(c, Key(c)) /\ Key(c) \in Keys
      BY HolderIsAlone, Remembered DEF Holding
    <2>2. StagesStep(c, Key(c)) /\ FilesStep /\ RunStep(c, Key(c))
      BY <1>1, <2>1, StagesKept, FilesKept, RunMoves DEF SetRun
    <2>3. Fits(c, Key(c), "idle", NoJob)
      BY Constants DEF Fits, Sessions, Holding, Claimed, Executing, InStage, Untold
    <2> QED
      BY <2>1, <2>2, <2>3, CallerStep DEF Return, IInv, TypeOK
  <1>2. CASE UNCHANGED store
    BY <1>2, Gives
  <1> QED
    BY <1>1, <1>2

LEMMA FinishStep ==
  ASSUME IInv, NEW c \in Callers,
         \/ FailRun(c, "fail_run", "FAILED") \/ FailRun(c, "block_run", "BLOCKED")
         \/ Finish(c)
  PROVE  IInv' /\ KeepsHistory
  <1>1. at[c] \in Executing /\ Return(c)
    BY DEF FailRun, Finish, Executing
  <1>2. \E target \in Status : SetRun(Key(c), target) \/ UNCHANGED store
    BY DEF FailRun, Finish, Status
  <1> QED
    BY <1>1, <1>2, RunEndStep

LEMMA RetryStep ==
  ASSUME IInv, NEW c \in Callers, NEW k \in Keys, Retry(c, k)
  PROVE  IInv' /\ KeepsHistory
  <1>1. PICK f \in Failures(k) :
          /\ f[2] < MaxAttempts
          /\ Enter(c, "again", [NoJob EXCEPT !.key = k, !.stage = f[1], !.n = f[2]])
    BY DEF Retry
  <1> DEFINE j == [NoJob EXCEPT !.key = k, !.stage = f[1], !.n = f[2]]
  <1>2. f[1] \in Stage /\ f[2] \in 1 .. MaxAttempts /\ f[2] <= Len(stages[k][f[1]])
    BY DEF Failures
  <1>3. j \in Job /\ j.key = k /\ j.stage = f[1] /\ j.n = f[2]
    BY <1>2, Constants DEF Job
  <1>4. UNCHANGED store
    BY DEF Retry
  <1>5. StagesStep(c, k) /\ FilesStep /\ RunStep(c, k)
    BY <1>4, StagesKept, FilesKept, RunKept DEF store
  <1> HIDE DEF j
  <1>6. Fits(c, k, "again", j)
    BY <1>1, <1>2, <1>3, <1>4 DEF Fits, store, Sessions, Holding, Claimed, Executing, InStage, Untold
  <1>7. at' = [at EXCEPT ![c] = "again"] /\ job' = [job EXCEPT ![c] = j] /\ UNCHANGED <<data, trouble>>
    BY <1>1 DEF Enter, j
  <1> QED
    BY <1>5, <1>6, <1>7, CallerStep DEF IInv, TypeOK

LEMMA ReattemptStep ==
  ASSUME IInv, NEW c \in Callers, Reattempt(c)
  PROVE  IInv' /\ KeepsHistory
  <1>1. CASE Len(Mine(c)) = job[c].n
    <2> DEFINE k == Key(c)
               g == job[c].stage
               new == Append(Mine(c), NewAttempt)
               j == [job[c] EXCEPT !.n = @ + 1, !.fresh = TRUE]
    <2>1. /\ stages' = [stages EXCEPT ![k][g] = Append(@, NewAttempt)]
          /\ Enter(c, "rerun", j) /\ UNCHANGED <<run, artifacts>> /\ at[c] = "reattempt"
      BY <1>1 DEF Reattempt
    <2>2. /\ k \in Keys /\ g \in Stage /\ job[c] \in Job /\ job[c].n \in 1 .. MaxAttempts
          /\ Mine(c) \in Seq(Attempt) /\ job[c].n < MaxAttempts /\ MaxAttempts \in Nat
      BY <2>1, Remembered DEF IInv, Memory
    <2>3. Len(new) = job[c].n + 1 /\ Len(new) <= MaxAttempts
      BY <1>1, <2>2, Constants
    <2>4. j \in Job /\ j.key = k /\ j.stage = g /\ j.n = Len(new)
      <3>1. job[c].n + 1 \in 1 .. MaxAttempts
        BY <2>2
      <3> QED
        BY <2>2, <2>3, <3>1 DEF Job, Key
    <2>5. stages' = [stages EXCEPT ![k][g] = new]
      BY <2>1, <2>2 DEF IInv, TypeOK, Mine
    <2> HIDE DEF j
    <2>6. StagesStep(c, k) /\ stages'[k][g] = new
      BY <2>2, <2>3, <2>5, AttemptsGrow DEF Mine
    <2>7. Alone(c, k) /\ run'[k] = "READY"
      BY <2>1, HolderIsAlone DEF Holding, Claimed, IInv, Ownership
    <2>8. Fits(c, k, "rerun", j)
      <3>1. j.n <= Len(stages'[j.key][j.stage])
        BY <2>3, <2>4, <2>6, <2>2
      <3> HIDE DEF new
      <3> QED
        BY <2>4, <2>7, <3>1 DEF Fits, Sessions, Holding, Claimed, Executing, InStage, Untold
    <2> QED
      BY <2>1, <2>2, <2>6, <2>8, RunKept, FilesKept, CallerStep DEF Enter, IInv, TypeOK
  <1>2. CASE Len(Mine(c)) # job[c].n
    BY <1>2, Gives DEF Reattempt
  <1> QED
    BY <1>1, <1>2

LEMMA RerunStep ==
  ASSUME IInv, NEW c \in Callers, Rerun(c)
  PROVE  IInv' /\ KeepsHistory
  <1>1. /\ at[c] = "rerun" /\ Key(c) \in Keys /\ job[c] \in Job /\ Alone(c, Key(c))
        /\ SetRun(Key(c), "RUNNING") /\ job[c].n \in 1 .. Len(Mine(c))
    BY Remembered, HolderIsAlone DEF Rerun, Holding, Claimed
  <1>2. /\ StagesStep(c, Key(c)) /\ FilesStep /\ RunStep(c, Key(c))
        /\ run'[Key(c)] = "RUNNING" /\ UNCHANGED stages
    BY <1>1, StagesKept, FilesKept, RunMoves DEF SetRun, Status
  <1>3. CASE Resumable(Key(c), job[c].stage)
    <2> DEFINE b == IF job[c].stage = "DATASET_BUILD" THEN 0
                    ELSE Len(stages[Key(c)]["DATASET_BUILD"])
               j == [job[c] EXCEPT !.build = b]
    <2>1. b \in 0 .. MaxAttempts
      BY <1>1, Constants, ResearchAssumption DEF IInv, TypeOK
    <2>2. j \in Job /\ j.key = Key(c) /\ j.stage = job[c].stage /\ j.n = job[c].n
      <3> HIDE DEF b
      <3> QED
        BY <1>1, <2>1 DEF Job, Key
    <2>3. Enter(c, "start", j)
      BY <1>3 DEF Rerun
    <2> HIDE DEF j
    <2>4. j.n <= Len(stages'[j.key][j.stage])
      BY <1>1, <1>2, <2>2 DEF Mine
    <2>5. Fits(c, Key(c), "start", j)
      BY <1>1, <1>2, <2>2, <2>4 DEF Fits, Sessions, Holding, Claimed, Executing, InStage, Untold
    <2> QED
      BY <1>1, <1>2, <2>3, <2>5, CallerStep DEF Enter, IInv, TypeOK
  <1>4. CASE ~Resumable(Key(c), job[c].stage)
    <2>1. Return(c)
      BY <1>4 DEF Rerun
    <2>2. Fits(c, Key(c), "idle", NoJob)
      BY Constants DEF Fits, Sessions, Holding, Claimed, Executing, InStage, Untold
    <2> QED
      BY <1>1, <1>2, <2>1, <2>2, CallerStep DEF Return, IInv, TypeOK
  <1> QED
    BY <1>3, <1>4

LEMMA TroubleStep ==
  ASSUME IInv, NEW c \in Callers, StageRaises(c) \/ BuilderRefuses(c) \/ Dies(c)
  PROVE  IInv' /\ KeepsHistory
  <1>1. trouble' \in 0 .. MaxTrouble
    BY ResearchAssumption DEF StageRaises, BuilderRefuses, Dies, IInv, TypeOK
  <1>2. CASE StageRaises(c) \/ BuilderRefuses(c)
    <2>1. /\ at[c] \in Executing /\ UNCHANGED <<data, job, store>>
          /\ \E s \in {"fail_stage", "block_stage"} : at' = [at EXCEPT ![c] = s]
      BY <1>2 DEF StageRaises, BuilderRefuses, Executing, InStage
    <2>2. {"fail_stage", "block_stage"} \subseteq Executing \ Untold
      BY DEF Executing, InStage, Untold
    <2> QED
      BY <1>1, <2>1, <2>2, MovesOn
  <1>3. CASE Dies(c)
    BY <1>1, <1>3, Constants, QuietStep DEF Dies, IInv, TypeOK, Sessions
  <1> QED
    BY <1>2, <1>3

LEMMA OtherStep ==
  ASSUME IInv, NewRows \/ UNCHANGED vars
  PROVE  IInv' /\ KeepsHistory
  <1>1. data' \in 1 .. MaxData /\ UNCHANGED <<run, stages, artifacts, at, job, trouble>>
    BY ResearchAssumption DEF NewRows, vars, store, IInv, TypeOK
  <1>2. TypeOK' /\ Ownership' /\ Memory' /\ Verdicts'
    BY <1>1 DEF IInv, TypeOK, Ownership, Memory, Verdicts, Mine, Key
  <1>3. KeepsHistory
    BY <1>1 DEF KeepsHistory, StageEvents, ArtifactEvents
  <1> QED
    BY <1>2, <1>3 DEF IInv

(* ------------------------------- theorems -------------------------------- *)

LEMMA Step ==
  ASSUME IInv, [Next]_vars
  PROVE  IInv' /\ KeepsHistory
  <1>1. ASSUME NEW c \in Callers, Work(c)
        PROVE  IInv' /\ KeepsHistory
    <2>1. CASE SourceStage(c)
      BY <2>1, Constants, EnsureStep DEF SourceStage
    <2>2. CASE Ready(c) \/ Running(c) \/ Again(c)
      BY <2>2, ClaimStep DEF Ready, Running, Again
    <2>3. CASE StartStage(c) \/ BuildRows(c)
      BY <2>3, StartStageStep, BuildRowsStep
    <2>4. CASE Register(c, "jsonl", "manifest") \/ Register(c, "manifest", "evidence")
      BY <2>4, RegisterStep DEF Kinds
    <2>5. CASE GatePasses(c) \/ AuditFiles(c)
      BY <2>5, GateStep
    <2>6. CASE Publish(c) \/ VerifyArtifacts(c)
      BY <2>6, PublishStep, VerifyStep
    <2>7. CASE PassStage(c) \/ NextStage(c)
      BY <2>7, PassStageStep, NextStageStep
    <2>8. CASE \/ AuditFails(c) \/ FailStage(c, "fail_stage", "FAILED")
               \/ FailStage(c, "block_stage", "BLOCKED")
      BY <2>8, FailStageStep
    <2>9. CASE \/ FailRun(c, "fail_run", "FAILED") \/ FailRun(c, "block_run", "BLOCKED")
               \/ Finish(c)
      BY <2>9, FinishStep
    <2>10. CASE Reattempt(c) \/ Rerun(c)
      BY <2>10, ReattemptStep, RerunStep
    <2> QED
      BY <1>1, <2>1, <2>2, <2>3, <2>4, <2>5, <2>6, <2>7, <2>8, <2>9, <2>10 DEF Work
  <1>2. ASSUME NEW c \in Callers, NEW k \in Keys, RunPipeline(c, k) \/ Retry(c, k)
        PROVE  IInv' /\ KeepsHistory
    BY <1>2, RunPipelineStep, RetryStep
  <1>3. ASSUME NEW c \in Callers,
               AuditFindsDamage(c) \/ StageRaises(c) \/ BuilderRefuses(c) \/ Dies(c)
        PROVE  IInv' /\ KeepsHistory
    BY <1>3, GateStep, TroubleStep
  <1>4. CASE NewRows \/ UNCHANGED vars
    BY <1>4, OtherStep
  <1> QED
    BY <1>1, <1>2, <1>3, <1>4 DEF Next

THEOREM Invariance == Spec => []IInv
  <1>1. IInv /\ [Next]_vars => IInv'
    BY Step
  <1> QED
    BY Initially, <1>1, PTL DEF Spec

(* The statuses, attempts, artifacts and the memory of the callers keep      *)
(* their types and bounds.                                                   *)
THEOREM TypeCorrect == Spec => []TypeOK
  <1>1. IInv => TypeOK
    BY DEF IInv
  <1> QED
    BY <1>1, Invariance, PTL

(* However many callers run and retry the pipelines, fail and die, no two of *)
(* them ever execute the same one (transition_pipeline).                     *)
THEOREM OneExecutorHolds == Spec => []OneExecutor
  <1>1. IInv => OneExecutor
    BY DEF IInv, Ownership, OneExecutor, Holding
  <1> QED
    BY <1>1, Invariance, PTL

(* Nothing that the roadmap told of an attempt or of a file is taken back.   *)
THEOREM HistoryIsKeptHolds == Spec => HistoryIsKept
  <1>1. IInv /\ [Next]_vars => [KeepsHistory]_vars
    BY Step
  <1>2. Spec => [][KeepsHistory]_vars
    BY <1>1, Invariance, PTL DEF Spec
  <1> QED
    BY <1>2 DEF KeepsHistory, HistoryIsKept

(* ------------------- records, files and the roadmap ---------------------- *)

(* Sessions that work on an attempt of theirs.                               *)
Working == InStage \ {"start"}

Builds(k) == stages[k]["DATASET_BUILD"]

(* Files of the given kinds, and no others, hold the content of build n.     *)
Holds(k, n, kinds, content) ==
  /\ {a.kind : a \in Made(k, n)} = kinds
  /\ \A a \in Made(k, n) : a.content = content

(* A stage is attempted again only when it failed, and the next stage only   *)
(* when it passed.                                                           *)
StagesInOrder(k) ==
  /\ \A g \in Stage : \A n \in 1 .. Len(stages[k][g]) :
       n # Len(stages[k][g]) => stages[k][g][n].status \in {"FAILED", "BLOCKED"}
  /\ \A i \in 1 .. 3 : stages[k][Order[i + 1]] # <<>> => Passed(k, Order[i])
  /\ run[k] = "PASS" => Passed(k, "ARTIFACT_VERIFY")

AuditPassed(k) ==
  \E n \in DOMAIN stages[k]["DATASET_AUDIT"] :
    stages[k]["DATASET_AUDIT"][n].gate = "PASS"

(* Files come from builds under way or over, a passed build has its two, and *)
(* a passed audit has published them.                                        *)
FilesInOrder(k) ==
  /\ \A a \in artifacts : a.key = k =>
       /\ a.n <= Len(Builds(k)) /\ Builds(k)[a.n].status # "READY"
       /\ a.published => Builds(k)[a.n].status = "PASS" /\ AuditPassed(k)
  /\ \A n \in 1 .. Len(Builds(k)) : Builds(k)[n].status = "PASS" =>
       /\ Builds(k)[n].gate = "PASS"
       /\ Holds(k, n, Kinds, Builds(k)[n].content)
  /\ Passed(k, "DATASET_AUDIT") =>
       \A a \in Made(k, Len(Builds(k))) : a.published

(* What a caller at work has made so far, at session s with memory j.        *)
Task(s, j) ==
  LET k == j.key
      mine == stages[k][j.stage][j.n]
  IN /\ s \in {"ready", "running"} => j.stage = "DATA_SOURCE"
     /\ s \in Working => mine.status = "RUNNING"
     /\ s \in {"build", "jsonl", "manifest"} => j.stage = "DATASET_BUILD"
     /\ s \in {"audit", "audit_fails", "publish"} => j.stage = "DATASET_AUDIT"
     /\ s = "verify" => j.stage = "ARTIFACT_VERIFY"
     /\ s = "evidence" => j.stage # "DATASET_AUDIT"
     /\ s \in {"build", "jsonl"} => Made(k, j.n) = {}
     /\ s = "manifest" => Holds(k, j.n, {"jsonl"}, j.made)
     /\ s \in {"evidence", "pass"} /\ j.stage = "DATASET_BUILD" =>
          Holds(k, j.n, Kinds, j.made)
     /\ s \in {"publish", "pass"} => mine.gate = "PASS"
     /\ s = "pass" /\ j.stage = "DATASET_BUILD" => mine.content = j.made
     /\ s = "pass" /\ j.stage = "DATASET_AUDIT" =>
          \A a \in Made(k, Len(Builds(k))) : a.published
     /\ s \in {"ensure", "finish"} => Passed(k, j.stage)
     /\ s = "finish" => j.stage = "ARTIFACT_VERIFY"
     /\ \/ s \in InStage /\ j.stage \in {"DATASET_AUDIT", "ARTIFACT_VERIFY"}
        \/ s = "ensure" /\ j.stage \in {"DATASET_BUILD", "DATASET_AUDIT"}
        => Passed(k, "DATASET_BUILD") /\ j.build = Len(Builds(k))
     /\ s \in {"again", "reattempt"} => mine.status \in {"FAILED", "BLOCKED"}

RInv ==
  /\ \A k \in Keys : StagesInOrder(k) /\ FilesInOrder(k)
  /\ \A c \in Callers : Task(at[c], job[c])

LEMMA Rows ==
  ASSUME IInv, NEW k \in Keys, NEW g \in Stage
  PROVE  /\ stages[k][g] \in Seq(Attempt) /\ Len(stages[k][g]) \in 0 .. MaxAttempts
         /\ MaxAttempts \in Nat
         /\ stages[k][g] # <<>> <=> Len(stages[k][g]) >= 1
         /\ \A n \in 1 .. Len(stages[k][g]) : stages[k][g][n] \in Attempt
  <1>1. stages[k][g] \in Seq(Attempt) /\ Len(stages[k][g]) <= MaxAttempts /\ MaxAttempts \in Nat
    BY ResearchAssumption DEF IInv, TypeOK
  <1>2. Len(stages[k][g]) \in 0 .. MaxAttempts
    BY <1>1
  <1> QED
    BY <1>1, <1>2, EmptySeq

LEMMA RowsNext ==
  ASSUME NEW c, NEW q, StagesStep(c, q), NEW k \in Keys, NEW g \in Stage
  PROVE  stages'[k][g] \in Seq(Attempt)
  BY DEF StagesStep

LEMMA InOrder ==
  ASSUME NEW k, StagesInOrder(k)
  PROVE  /\ stages[k]["DATASET_BUILD"] # <<>> => Passed(k, "DATA_SOURCE")
         /\ stages[k]["DATASET_AUDIT"] # <<>> => Passed(k, "DATASET_BUILD")
         /\ stages[k]["ARTIFACT_VERIFY"] # <<>> => Passed(k, "DATASET_AUDIT")
  BY DEF StagesInOrder, Order

(* An attempt that is not over is the latest of its stage.                   *)
LEMMA OpenIsLatest ==
  ASSUME IInv, NEW k \in Keys, NEW g \in Stage, StagesInOrder(k),
         NEW n \in 1 .. Len(stages[k][g]),
         stages[k][g][n].status \in {"WAITING", "READY", "RUNNING"}
  PROVE  n = Len(stages[k][g]) /\ ~Passed(k, g) /\ Latest(k, g) = stages[k][g][n]
  BY Rows DEF StagesInOrder, Passed, Latest

(* What the step of c may change of the rows: those of pipeline k, which     *)
(* nobody else holds.                                                        *)
Only(c, k) ==
  /\ \A q \in Keys : q # k => stages'[q] = stages[q] /\ run'[q] = run[q]
  /\ {a \in artifacts' : a.key # k} = {a \in artifacts : a.key # k}
  /\ Alone(c, k)

Others(c) == \A d \in Callers : d # c => at'[d] = at[d] /\ job'[d] = job[d]

LEMMA TaskKept ==
  ASSUME NEW d, NEW s, NEW j, s = at[d], j = job[d], at'[d] = at[d], job'[d] = job[d],
         stages'[j.key] = stages[j.key], \A n : Made(j.key, n)' = Made(j.key, n),
         Task(at[d], job[d])
  PROVE  Task(at[d], job[d])'
  <1> DEFINE k == j.key
  <1>1. /\ Builds(k)' = Builds(k)
        /\ \A g : Passed(k, g)' <=> Passed(k, g)
        /\ \A n, kinds, content : Holds(k, n, kinds, content)' <=> Holds(k, n, kinds, content)
    BY DEF Builds, Passed, Latest, Holds
  <1> QED
    BY <1>1, ZenonT(60) DEF Task

LEMMA RecordsStep ==
  ASSUME IInv, RInv, NEW c \in Callers, NEW k \in Keys, StagesStep(c, k), Only(c, k),
         Others(c), StagesInOrder(k)', FilesInOrder(k)', Task(at[c], job[c])'
  PROVE  RInv'
  <1>1. ASSUME NEW q \in Keys, q # k
        PROVE  /\ stages'[q] = stages[q] /\ run'[q] = run[q]
               /\ \A n : Made(q, n)' = Made(q, n)
    BY <1>1 DEF Only, Made
  <1>2. ASSUME NEW q \in Keys, q # k
        PROVE  StagesInOrder(q)' /\ FilesInOrder(q)'
    <2>1. StagesInOrder(q)'
      <3>1. \A g : Passed(q, g)' <=> Passed(q, g)
        BY <1>1, <1>2 DEF Passed, Latest
      <3>2. StagesInOrder(q)
        BY DEF RInv
      <3> QED
        BY <1>1, <1>2, <3>1, <3>2 DEF StagesInOrder
    <2>2. \A a \in artifacts' : a.key = q => a \in artifacts
      BY <1>2 DEF Only
    <2>3. FilesInOrder(q)'
      BY <1>1, <1>2, <2>2, SMTT(30) DEF RInv, FilesInOrder, Builds, Passed, Latest, Holds, AuditPassed
    <2> QED
      BY <2>1, <2>3
  <1>3. ASSUME NEW d \in Callers, d # c
        PROVE  Task(at[d], job[d])'
    <2>1. /\ at'[d] = at[d] /\ job'[d] = job[d] /\ job[d].key \in Keys
          /\ Task(at[d], job[d])
      BY <1>3, Remembered DEF Others, RInv, Key
    <2>2. CASE job[d].key # k
      BY <1>1, <2>1, <2>2, TaskKept
    <2>3. CASE job[d].key = k
      <3>1. at[d] \notin Holding
        BY <1>3, <2>3 DEF Only, Alone, Key
      <3>2. at[d] = "again" => stages'[k][job[d].stage][job[d].n].status \in {"FAILED", "BLOCKED"}
        <4> SUFFICES ASSUME at[d] = "again"
                     PROVE  stages'[k][job[d].stage][job[d].n].status \in {"FAILED", "BLOCKED"}
          OBVIOUS
        <4>1. /\ job[d].stage \in Stage /\ job[d].n \in 1 .. Len(stages[k][job[d].stage])
          BY <2>3, Remembered DEF Mine, Key
        <4>2. Keeps(stages[k][job[d].stage][job[d].n], stages'[k][job[d].stage][job[d].n])
          BY <4>1 DEF StagesStep
        <4> QED
          BY <2>1, <2>3, <4>2 DEF Keeps, Task
      <3> QED
        BY <2>1, <2>3, <3>1, <3>2 DEF Task, Working, Holding, Claimed, Executing, InStage
    <2> QED
      BY <2>2, <2>3
  <1> QED
    BY <1>2, <1>3 DEF RInv

(* A step that leaves the attempts and the files alone.                      *)
LEMMA QuietRecords ==
  ASSUME IInv, RInv, NEW c \in Callers, UNCHANGED <<stages, artifacts>>, Others(c),
         \A k \in Keys :
           run'[k] = "PASS" => run[k] = "PASS" \/ Passed(k, "ARTIFACT_VERIFY"),
         Task(at[c], job[c])'
  PROVE  RInv'
  <1>1. ASSUME NEW k \in Keys
        PROVE  StagesInOrder(k)' /\ FilesInOrder(k)'
    <2>1. StagesInOrder(k)'
      BY DEF RInv, StagesInOrder, Passed, Latest
    <2>2. FilesInOrder(k)'
      BY DEF RInv, FilesInOrder, Builds, Passed, Latest, Holds, Made, AuditPassed
    <2> QED
      BY <2>1, <2>2
  <1>2. ASSUME NEW d \in Callers, d # c
        PROVE  Task(at[d], job[d])'
    BY <1>2, TaskKept DEF Others, RInv, Made
  <1> QED
    BY <1>1, <1>2 DEF RInv

(* Sessions that nothing is expected of.                                     *)
Silent == {"idle", "source", "fail_stage", "block_stage", "fail_run", "block_run", "rerun"}

LEMMA SilentTask ==
  ASSUME NEW c, at'[c] \in Silent
  PROVE  Task(at[c], job[c])'
  BY DEF Task, Silent, Working, InStage

LEMMA Moved ==
  ASSUME IInv, NEW c \in Callers, NEW s, NEW j,
         at' = [at EXCEPT ![c] = s], job' = [job EXCEPT ![c] = j]
  PROVE  at'[c] = s /\ job'[c] = j /\ Others(c)
  BY DEF IInv, TypeOK, Others

(* Attempt n of stage g of pipeline k becomes a.                              *)
Becomes(k, g, n, a) == stages' = [stages EXCEPT ![k][g][n] = a]

(* No step takes back an audit that passed.                                  *)
LEMMA AuditKept ==
  ASSUME IInv, NEW c, NEW k \in Keys, StagesStep(c, k)
  PROVE  AuditPassed(k) => AuditPassed(k)'
  <1>1. PICK r, s : r = stages[k]["DATASET_AUDIT"] /\ s = stages'[k]["DATASET_AUDIT"]
    OBVIOUS
  <1>2. r \in Seq(Attempt) /\ s \in Seq(Attempt)
    BY <1>1, Constants DEF IInv, TypeOK, StagesStep
  <1>3. /\ Len(r) <= Len(s)
        /\ \A m \in 1 .. Len(r) : Keeps(r[m], s[m])
    BY <1>1, Constants DEF StagesStep
  <1>4. DOMAIN r = 1 .. Len(r) /\ DOMAIN s = 1 .. Len(s) /\ Len(r) \in Nat /\ Len(s) \in Nat
    BY <1>2
  <1>5. ASSUME NEW m \in DOMAIN r, r[m].gate = "PASS"
        PROVE  m \in DOMAIN s /\ s[m].gate = "PASS"
    BY <1>3, <1>4, <1>5 DEF Keeps
  <1> QED
    BY <1>1, <1>5, Zenon DEF AuditPassed

(* An open attempt of the caller becomes a: the files are there when a build *)
(* passes, and published when an audit does.                                 *)
Rewrites(c, k, g, n, a) ==
  /\ at[c] \in Executing
  /\ k = Key(c) /\ g = job[c].stage /\ n = job[c].n
  /\ Becomes(k, g, n, a) /\ UNCHANGED <<run, artifacts>>
  /\ stages[k][g][n].status \in {"WAITING", "READY", "RUNNING"}
  /\ a.status # "READY" /\ Keeps(stages[k][g][n], a)
  /\ a.status = "PASS" /\ g = "DATASET_BUILD" =>
       a.gate = "PASS" /\ Holds(k, n, Kinds, a.content)
  /\ a.status = "PASS" /\ g = "DATASET_AUDIT" =>
       \A f \in Made(k, Len(Builds(k))) : f.published

Rewritten(c, k, g, n, a) ==
  /\ StagesStep(c, k) /\ Only(c, k)
  /\ StagesInOrder(k)' /\ FilesInOrder(k)'
  /\ stages'[k][g][n] = a
  /\ Len(Builds(k))' = Len(Builds(k))
  /\ Passed(k, "DATASET_BUILD") => Passed(k, "DATASET_BUILD")'
  /\ a.status = "PASS" => Passed(k, g)'

LEMMA AttemptRecords ==
  ASSUME IInv, RInv, NEW c \in Callers, NEW a \in Attempt, NEW k, NEW g, NEW n,
         Rewrites(c, k, g, n, a)
  PROVE  Rewritten(c, k, g, n, a)
  <1> SUFFICES ASSUME at[c] \in Executing,
                      k = Key(c) /\ g = job[c].stage /\ n = job[c].n,
                      Becomes(k, g, n, a) /\ UNCHANGED <<run, artifacts>>,
                      stages[k][g][n].status \in {"WAITING", "READY", "RUNNING"},
                      a.status # "READY" /\ Keeps(stages[k][g][n], a)
               PROVE  /\ StagesStep(c, k) /\ Only(c, k)
                      /\ StagesInOrder(k)' /\ FilesInOrder(k)'
                      /\ stages'[k][g][n] = a
                      /\ Len(Builds(k))' = Len(Builds(k))
                      /\ Passed(k, "DATASET_BUILD") => Passed(k, "DATASET_BUILD")'
                      /\ a.status = "PASS" => Passed(k, g)'
    BY Zenon DEF Rewrites, Rewritten
  <1>0. /\ a.status = "PASS" /\ g = "DATASET_BUILD" =>
             a.gate = "PASS" /\ Holds(k, n, Kinds, a.content)
        /\ a.status = "PASS" /\ g = "DATASET_AUDIT" =>
             \A f \in Made(k, Len(Builds(k))) : f.published
    BY Zenon DEF Rewrites
  <1> DEFINE old == stages[k][g]
             new == stages'[k][g]
  <1>1. /\ k \in Keys /\ g \in Stage /\ n \in 1 .. Len(old) /\ StagesInOrder(k) /\ FilesInOrder(k)
        /\ Mine(c) = old /\ run[k] = "RUNNING"
    BY Remembered DEF Mine, Executing, InStage, RInv, IInv, Ownership
  <1>2. /\ StagesStep(c, k) /\ new[n] = a
        /\ \A h \in Stage : Len(stages'[k][h]) = Len(stages[k][h])
        /\ \A q \in Keys : q # k => stages'[q] = stages[q]
        /\ \A h \in Stage : h # g => stages'[k][h] = stages[k][h]
        /\ \A m \in 1 .. Len(old) : m # n => new[m] = old[m]
    <2>1. /\ stages' = [stages EXCEPT ![Key(c)][job[c].stage][job[c].n] = a]
          /\ Keeps(Mine(c)[job[c].n], a)
      BY <1>1 DEF Becomes
    <2>2. /\ StagesStep(c, Key(c))
          /\ \A q \in Keys, h \in Stage : Len(stages'[q][h]) = Len(stages[q][h])
          /\ stages'[Key(c)][job[c].stage][job[c].n] = a
          /\ \A q \in Keys : q # Key(c) => stages'[q] = stages[q]
          /\ \A h \in Stage : h # job[c].stage => stages'[Key(c)][h] = stages[Key(c)][h]
          /\ \A m \in 1 .. Len(Mine(c)) :
               m # job[c].n => stages'[Key(c)][job[c].stage][m] = Mine(c)[m]
      BY <2>1, AttemptChanges
    <2> QED
      BY <1>1, <2>2
  <1>3. n = Len(old) /\ n = Len(new) /\ ~Passed(k, g) /\ new # <<>> /\ old # <<>>
    <2>1. n = Len(old) /\ ~Passed(k, g)
      BY <1>1, OpenIsLatest
    <2>2. n >= 1 /\ Len(new) = n
      <3>1. Len(new) = Len(old)
        BY <1>1, <1>2, Zenon
      <3>2. Len(old) \in Nat
        BY <1>1, Rows
      <3> QED
        BY <1>1, <2>1, <3>1, <3>2
    <2>3. new \in Seq(Attempt)
      BY <1>1, <1>2, RowsNext
    <2> QED
      BY <1>1, <2>1, <2>2, <2>3, Rows, EmptySeq
  <1>4. Only(c, k)
    BY <1>1, <1>2, HolderIsAlone DEF Only, Holding
  <1>5. /\ Passed(k, g)' <=> a.status = "PASS"
        /\ \A h \in Stage : h # g => (Passed(k, h)' <=> Passed(k, h))
        /\ \A h \in Stage : stages'[k][h] = <<>> <=> stages[k][h] = <<>>
    BY <1>1, <1>2, <1>3 DEF Passed, Latest
  <1>6. StagesInOrder(k)'
    <2>1. ASSUME NEW h \in Stage, NEW m \in 1 .. Len(stages'[k][h]), m # Len(stages'[k][h])
          PROVE  stages'[k][h][m].status \in {"FAILED", "BLOCKED"}
      <3>1. m \in 1 .. Len(stages[k][h]) /\ m # Len(stages[k][h])
        BY <1>2, <2>1
      <3>2. stages[k][h][m].status \in {"FAILED", "BLOCKED"}
        BY <1>1, <3>1 DEF StagesInOrder
      <3>3. h = g => m # n
        BY <1>3, <3>1
      <3>4. stages'[k][h][m] = stages[k][h][m]
        BY <1>2, <3>1, <3>3
      <3> QED
        BY <3>2, <3>4
    <2>2. ASSUME NEW i \in 1 .. 3, stages'[k][Order[i + 1]] # <<>>
          PROVE  Passed(k, Order[i])'
      <3>1. Order[i] \in Stage /\ Order[i + 1] \in Stage
        BY DEF Stage, Order
      <3>2. Passed(k, Order[i])
        BY <1>1, <1>5, <2>2, <3>1 DEF StagesInOrder
      <3> QED
        BY <1>3, <1>5, <3>1, <3>2
    <2> QED
      BY <1>1, <2>1, <2>2 DEF StagesInOrder
  <1>7. "DATASET_BUILD" \in Stage /\ "DATASET_AUDIT" \in Stage
    BY Constants
  <1>8. /\ Len(Builds(k))' = Len(Builds(k))
        /\ \A m \in 1 .. Len(Builds(k)) :
             ~(g = "DATASET_BUILD" /\ m = n) => Builds(k)'[m] = Builds(k)[m]
        /\ g = "DATASET_BUILD" => Builds(k)'[n] = a
    <2>1. CASE g = "DATASET_BUILD"
      BY <1>2, <1>7, <2>1 DEF Builds
    <2>2. CASE g # "DATASET_BUILD"
      <3>1. Builds(k)' = Builds(k)
        BY <1>2, <1>7, <2>2 DEF Builds
      <3> QED
        BY <2>2, <3>1
    <2> QED
      BY <2>1, <2>2
  <1>9. FilesInOrder(k)'
    <2>1. AuditPassed(k) => AuditPassed(k)'
      BY <1>1, <1>2, AuditKept
    <2>2. \A m : Made(k, m)' = Made(k, m)
      BY DEF Made
    <2>3. ASSUME NEW f \in artifacts, f.key = k
          PROVE  /\ f.n <= Len(Builds(k)') /\ Builds(k)'[f.n].status # "READY"
                 /\ f.published => Builds(k)'[f.n].status = "PASS" /\ AuditPassed(k)'
      <3>1. /\ f.n <= Len(Builds(k)) /\ Builds(k)[f.n].status # "READY"
            /\ f.published => Builds(k)[f.n].status = "PASS" /\ AuditPassed(k)
        BY <1>1, <2>3 DEF FilesInOrder
      <3>2. f.n \in 1 .. Len(Builds(k))
        BY <1>1, <1>7, <3>1, Rows DEF IInv, TypeOK, Artifact, Builds
      <3>3. CASE g = "DATASET_BUILD" /\ f.n = n
        BY <1>1, <1>2, <1>8, <2>1, <3>1, <3>3 DEF Builds
      <3>4. CASE ~(g = "DATASET_BUILD" /\ f.n = n)
        <4>1. Builds(k)'[f.n] = Builds(k)[f.n]
          BY <1>8, <3>2, <3>4
        <4> QED
          BY <1>8, <2>1, <3>1, <4>1
      <3> QED
        BY <3>3, <3>4
    <2>4. ASSUME NEW m \in 1 .. Len(Builds(k)'), Builds(k)'[m].status = "PASS"
          PROVE  /\ Builds(k)'[m].gate = "PASS"
                 /\ Holds(k, m, Kinds, Builds(k)'[m].content)
      <3>1. CASE g = "DATASET_BUILD" /\ m = n
        BY <1>0, <1>2, <2>4, <3>1 DEF Builds
      <3>2. CASE ~(g = "DATASET_BUILD" /\ m = n)
        <4>1. Builds(k)'[m] = Builds(k)[m] /\ m \in 1 .. Len(Builds(k))
          BY <1>8, <2>4, <3>2
        <4> QED
          BY <1>1, <2>4, <4>1 DEF FilesInOrder
      <3> QED
        BY <3>1, <3>2
    <2>5. Passed(k, "DATASET_AUDIT")' => \A f \in Made(k, Len(Builds(k))) : f.published
      BY <1>0, <1>1, <1>5, <1>7 DEF FilesInOrder
    <2>6. \A m, x : Holds(k, m, Kinds, x)' <=> Holds(k, m, Kinds, x)
      BY <2>2 DEF Holds
    <2> QED
      BY <1>8, <2>2, <2>3, <2>4, <2>5, <2>6 DEF FilesInOrder
  <1>10. Passed(k, "DATASET_BUILD") => Passed(k, "DATASET_BUILD")'
    BY <1>3, <1>5, <1>7
  <1> QED
    BY <1>2, <1>4, <1>5, <1>6, <1>8, <1>9, <1>10

(* A stage gets a new attempt: its first, once the one before it has passed, *)
(* or one after a failure.                                                   *)
LEMMA NewAttemptRecords ==
  ASSUME IInv, RInv, NEW c \in Callers, NEW k \in Keys, NEW g \in Stage, Alone(c, k),
         stages' = [stages EXCEPT ![k][g] = Append(stages[k][g], NewAttempt)],
         Len(stages[k][g]) < MaxAttempts,
         stages[k][g] = <<>> \/ Latest(k, g).status \in {"FAILED", "BLOCKED"},
         \A i \in 1 .. 3 : g = Order[i + 1] => Passed(k, Order[i]),
         UNCHANGED <<run, artifacts>>
  PROVE  /\ StagesStep(c, k) /\ Only(c, k)
         /\ StagesInOrder(k)' /\ FilesInOrder(k)'
         /\ \A h \in Stage : Passed(k, h) => Passed(k, h)' /\ stages'[k][h] = stages[k][h]
  <1> DEFINE old == stages[k][g]
             new == Append(old, NewAttempt)
  <1>1. /\ old \in Seq(Attempt) /\ Len(old) \in Nat /\ MaxAttempts \in Nat
        /\ NewAttempt \in Attempt /\ StagesInOrder(k) /\ FilesInOrder(k)
    BY Rows, Constants DEF RInv
  <1>2. /\ new \in Seq(Attempt) /\ Len(new) = Len(old) + 1 /\ new # <<>>
        /\ \A m \in 1 .. Len(old) : new[m] = old[m]
        /\ new[Len(new)] = NewAttempt
    BY <1>1, AppendProperties
  <1>3. StagesStep(c, k) /\ stages'[k][g] = new
    <2>1. Len(new) <= MaxAttempts
      BY <1>1, <1>2
    <2> QED
      BY <2>1, AttemptsGrow
  <1> HIDE DEF new
  <1>4. /\ \A q \in Keys : q # k => stages'[q] = stages[q]
        /\ \A h \in Stage : h # g => stages'[k][h] = stages[k][h]
    BY DEF IInv, TypeOK
  <1>5. Only(c, k)
    BY <1>4 DEF Only
  <1>6. ~Passed(k, g) /\ ~Passed(k, g)' /\ \A h \in Stage : h # g => (Passed(k, h)' <=> Passed(k, h))
    <2>1. NewAttempt.status # "PASS"
      BY DEF NewAttempt
    <2> QED
      BY <1>2, <1>3, <1>4, <2>1 DEF Passed, Latest
  <1>7. StagesInOrder(k)'
    <2>1. ASSUME NEW h \in Stage, NEW m \in 1 .. Len(stages'[k][h]), m # Len(stages'[k][h])
          PROVE  stages'[k][h][m].status \in {"FAILED", "BLOCKED"}
      <3>1. CASE h # g
        BY <1>1, <1>4, <2>1, <3>1 DEF StagesInOrder
      <3>2. CASE h = g
        <4>1. m \in 1 .. Len(old) /\ stages'[k][h][m] = old[m]
          BY <1>1, <1>2, <1>3, <2>1, <3>2
        <4>2. m # Len(old) => old[m].status \in {"FAILED", "BLOCKED"}
          BY <1>1, <4>1 DEF StagesInOrder
        <4>3. old # <<>>
          BY <1>1, <4>1, EmptySeq
        <4> QED
          BY <4>1, <4>2, <4>3 DEF Latest
      <3> QED
        BY <3>1, <3>2
    <2>2. ASSUME NEW i \in 1 .. 3, stages'[k][Order[i + 1]] # <<>>
          PROVE  Passed(k, Order[i])'
      <3>1. Order[i] \in Stage /\ Order[i + 1] \in Stage
        BY DEF Stage, Order
      <3>2. Passed(k, Order[i])
        BY <1>1, <1>4, <2>2, <3>1 DEF StagesInOrder
      <3> QED
        BY <1>6, <3>1, <3>2
    <2>3. run[k] = "PASS" => Passed(k, "ARTIFACT_VERIFY")'
      BY <1>1, <1>6, Constants DEF StagesInOrder
    <2> QED
      BY <2>1, <2>2, <2>3 DEF StagesInOrder
  <1>8. /\ "DATASET_BUILD" \in Stage /\ "DATASET_AUDIT" \in Stage
        /\ Builds(k)' \in Seq(Attempt) /\ Builds(k) \in Seq(Attempt)
        /\ Len(Builds(k)) <= Len(Builds(k)')
        /\ \A m \in 1 .. Len(Builds(k)) : Builds(k)'[m] = Builds(k)[m]
        /\ \A m \in 1 .. Len(Builds(k)') :
             m \in 1 .. Len(Builds(k)) \/ Builds(k)'[m] = NewAttempt
    <2>1. "DATASET_BUILD" \in Stage /\ "DATASET_AUDIT" \in Stage
      BY Constants
    <2>2. CASE g = "DATASET_BUILD"
      BY <1>1, <1>2, <1>3, <2>1, <2>2 DEF Builds
    <2>3. CASE g # "DATASET_BUILD"
      BY <1>1, <1>4, <2>1, <2>3, Rows DEF Builds
    <2> QED
      BY <2>1, <2>2, <2>3
  <1>9. FilesInOrder(k)'
    <2>1. AuditPassed(k) => AuditPassed(k)'
      <3>1. CASE g = "DATASET_AUDIT"
        <4>1. DOMAIN old = 1 .. Len(old) /\ DOMAIN new = 1 .. Len(new)
          BY <1>1, <1>2
        <4> QED
          BY <1>1, <1>2, <1>3, <3>1, <4>1 DEF AuditPassed
      <3>2. CASE g # "DATASET_AUDIT"
        BY <1>4, <1>8, <3>2 DEF AuditPassed
      <3> QED
        BY <3>1, <3>2
    <2>2. \A m : Made(k, m)' = Made(k, m)
      BY DEF Made
    <2>3. ASSUME NEW f \in artifacts, f.key = k
          PROVE  /\ f.n <= Len(Builds(k)') /\ Builds(k)'[f.n].status # "READY"
                 /\ f.published => Builds(k)'[f.n].status = "PASS" /\ AuditPassed(k)'
      <3>1. /\ f.n <= Len(Builds(k)) /\ Builds(k)[f.n].status # "READY"
            /\ f.published => Builds(k)[f.n].status = "PASS" /\ AuditPassed(k)
        BY <1>1, <2>3 DEF FilesInOrder
      <3>2. f.n \in 1 .. Len(Builds(k)) /\ Len(Builds(k)) \in Nat /\ Len(Builds(k)') \in Nat
        <4>1. f.n \in 1 .. MaxAttempts
          BY DEF IInv, TypeOK, Artifact
        <4>2. Len(Builds(k)) \in Nat /\ Len(Builds(k)') \in Nat
          BY <1>8
        <4> QED
          BY <3>1, <4>1, <4>2
      <3> QED
        BY <1>8, <2>1, <3>1, <3>2
    <2>4. ASSUME NEW m \in 1 .. Len(Builds(k)'), Builds(k)'[m].status = "PASS"
          PROVE  /\ Builds(k)'[m].gate = "PASS"
                 /\ Holds(k, m, Kinds, Builds(k)'[m].content)
      <3>1. NewAttempt.status # "PASS"
        BY DEF NewAttempt
      <3>2. m \in 1 .. Len(Builds(k)) /\ Builds(k)'[m] = Builds(k)[m]
        BY <1>8, <2>4, <3>1
      <3> QED
        BY <1>1, <2>4, <3>2 DEF FilesInOrder
    <2>5. Passed(k, "DATASET_AUDIT")' => \A f \in Made(k, Len(Builds(k)')) : f.published
      <3> SUFFICES ASSUME Passed(k, "DATASET_AUDIT")'
                   PROVE  \A f \in Made(k, Len(Builds(k)')) : f.published
        OBVIOUS
      <3>1. Passed(k, "DATASET_AUDIT")
        BY <1>6, <1>8
      <3>2. Passed(k, "DATASET_BUILD")
        BY <1>1, <3>1, InOrder DEF Passed
      <3>3. Builds(k)' = Builds(k)
        BY <1>4, <1>6, <1>8, <3>2 DEF Builds
      <3> QED
        BY <1>1, <3>1, <3>3 DEF FilesInOrder
    <2>6. \A m, x : Holds(k, m, Kinds, x)' <=> Holds(k, m, Kinds, x)
      BY <2>2 DEF Holds
    <2> QED
      BY <2>2, <2>3, <2>4, <2>5, <2>6 DEF FilesInOrder
  <1> QED
    BY <1>3, <1>4, <1>5, <1>6, <1>7, <1>9

(* Nobody holds a pipeline without attempts.                                 *)
LEMMA NoAttemptsNobody ==
  ASSUME IInv, RInv, NEW c \in Callers, NEW k \in Keys, stages[k]["DATA_SOURCE"] = <<>>
  PROVE  Alone(c, k)
  <1> SUFFICES ASSUME NEW d \in Callers, at[d] \in Holding, Key(d) = k
               PROVE  FALSE
    BY DEF Alone
  <1>1. job[d].n \in 1 .. Len(Mine(d)) /\ job[d].stage \in Stage
    BY Remembered DEF Holding, Claimed, Executing, InStage
  <1>2. stages[k][job[d].stage] # <<>>
    BY <1>1, EmptySeq DEF Mine
  <1> QED
    BY <1>1, <1>2, InOrder, Constants DEF RInv, Passed

(* A caller that gives up, or returns, leaves records as they are.           *)
LEMMA SilentRecords ==
  ASSUME IInv, RInv, NEW c \in Callers, NEW s \in Silent, NEW j,
         at' = [at EXCEPT ![c] = s], job' = [job EXCEPT ![c] = j],
         UNCHANGED <<stages, artifacts>>,
         \A k \in Keys : run'[k] = "PASS" => run[k] = "PASS" \/ Passed(k, "ARTIFACT_VERIFY")
  PROVE  RInv'
  <1>1. at'[c] = s /\ Others(c)
    BY Moved
  <1> QED
    BY <1>1, SilentTask, QuietRecords

LEMMA SilentGoto ==
  ASSUME IInv, RInv, NEW c \in Callers, UNCHANGED store, NEW s \in Silent,
         at' = [at EXCEPT ![c] = s], UNCHANGED job
  PROVE  RInv'
  <1>1. job' = [job EXCEPT ![c] = job[c]]
    BY Same
  <1> QED
    BY <1>1, SilentRecords DEF store

LEMMA SilentReturn ==
  ASSUME IInv, RInv, NEW c \in Callers, UNCHANGED store, Return(c)
  PROVE  RInv'
  BY SilentRecords DEF store, Return, Silent

LEMMA TroubleRecords ==
  ASSUME IInv, RInv, NEW c \in Callers, StageRaises(c) \/ BuilderRefuses(c) \/ Dies(c)
  PROVE  RInv'
  <1>1. CASE StageRaises(c) \/ BuilderRefuses(c)
    BY <1>1, SilentGoto DEF StageRaises, BuilderRefuses, Silent, store
  <1>2. CASE Dies(c)
    BY <1>2, SilentRecords DEF Dies, Silent, store
  <1> QED
    BY <1>1, <1>2

LEMMA RunPipelineRecords ==
  ASSUME IInv, RInv, NEW c \in Callers, NEW k \in Keys, RunPipeline(c, k)
  PROVE  RInv'
  <1>1. \A q \in Keys : run'[q] = "PASS" => run[q] = "PASS"
    BY DEF RunPipeline, IInv, TypeOK
  <1> QED
    BY <1>1, SilentRecords DEF RunPipeline, Enter, Silent

LEMMA RetryRecords ==
  ASSUME IInv, RInv, NEW c \in Callers, NEW k \in Keys, Retry(c, k)
  PROVE  RInv'
  <1>1. PICK f \in Failures(k) :
          Enter(c, "again", [NoJob EXCEPT !.key = k, !.stage = f[1], !.n = f[2]])
    BY DEF Retry
  <1>2. PICK j : j = [NoJob EXCEPT !.key = k, !.stage = f[1], !.n = f[2]]
    OBVIOUS
  <1>3. /\ j.key = k /\ j.stage = f[1] /\ j.n = f[2]
        /\ stages[k][f[1]][f[2]].status \in {"FAILED", "BLOCKED"}
    BY <1>2, Constants DEF Job, Failures
  <1>4. at'[c] = "again" /\ job'[c] = j /\ Others(c) /\ UNCHANGED store
    <2>1. at' = [at EXCEPT ![c] = "again"] /\ job' = [job EXCEPT ![c] = j]
      BY <1>1, <1>2 DEF Enter
    <2> QED
      BY <2>1, Moved DEF Retry
  <1>5. Task(at[c], job[c])'
    BY <1>3, <1>4 DEF Task, Working, InStage, store
  <1> QED
    BY <1>4, <1>5, QuietRecords DEF store

LEMMA ClaimRecords ==
  ASSUME IInv, RInv, NEW c \in Callers,
         \/ Claim(c, "ready", "READY", "running")
         \/ Claim(c, "again", "READY", "reattempt")
         \/ Claim(c, "running", "RUNNING", "start")
  PROVE  RInv'
  <1>1. PICK target \in {"READY", "RUNNING"}, next \in {"running", "reattempt", "start"} :
          /\ Claim(c, at[c], target, next)
          /\ next = "reattempt" => at[c] = "again"
          /\ next # "reattempt" => at[c] \in {"ready", "running"}
    BY DEF Claim
  <1>2. CASE target \in Legal(run[Key(c)])
    <2>1. /\ run' = [run EXCEPT ![Key(c)] = target] /\ UNCHANGED <<stages, artifacts>>
          /\ Goto(c, next)
      BY <1>1, <1>2 DEF Claim, SetRun
    <2>2. \A q \in Keys : run'[q] = "PASS" => run[q] = "PASS"
      BY <2>1 DEF IInv, TypeOK
    <2>3. PICK j : j = job[c]
      OBVIOUS
    <2>4. at'[c] = next /\ job'[c] = j /\ Others(c) /\ Task(at[c], j)
      BY <2>1, <2>3, Moved, Same DEF Goto, RInv
    <2>5. Task(at[c], job[c])'
      BY <1>1, <2>1, <2>4 DEF Task, Working, InStage
    <2> QED
      BY <2>1, <2>2, <2>4, <2>5, QuietRecords
  <1>3. CASE target \notin Legal(run[Key(c)])
    BY <1>1, <1>3, SilentReturn DEF Claim
  <1> QED
    BY <1>2, <1>3

LEMMA EnsureRecords ==
  ASSUME IInv, RInv, NEW c \in Callers, NEW g \in Stage, NEW s \in {"ready", "start"},
         EnsureStage(c, job[c], g, s), s = "ready" => g = "DATA_SOURCE",
         s = "start" => /\ at[c] = "ensure"
                        /\ \E i \in 1 .. 3 : job[c].stage = Order[i] /\ g = Order[i + 1]
  PROVE  RInv'
  <1>1. PICK k \in Keys : k = Key(c)
    BY Remembered
  <1>2. PICK j : j = [job[c] EXCEPT
                !.stage = g, !.n = Len(Ensured(k, g)),
                !.fresh = Ensured(k, g)[Len(Ensured(k, g))].status = "READY"]
    OBVIOUS
  <1>3. /\ stages' = [stages EXCEPT ![k][g] = Ensured(k, g)] /\ UNCHANGED <<run, artifacts>>
        /\ at' = [at EXCEPT ![c] = s] /\ job' = [job EXCEPT ![c] = j]
    BY <1>1, <1>2 DEF EnsureStage, Enter, Key
  <1>4. at'[c] = s /\ job'[c] = j /\ Others(c)
    BY <1>3, Moved
  <1>5. j.key = k /\ j.stage = g /\ j.build = job[c].build
    BY <1>1, <1>2, Remembered DEF Job, Key
  <1>6. Task(at[c], job[c])
    BY DEF RInv
  <1>6a. at[c] = "ensure" =>
           /\ Passed(k, job[c].stage)
           /\ job[c].stage \in {"DATASET_BUILD", "DATASET_AUDIT"} =>
                Passed(k, "DATASET_BUILD") /\ job[c].build = Len(Builds(k))
    BY <1>1, <1>6 DEF Task, Key
  <1>7. s = "start" => \A i \in 1 .. 3 : g = Order[i + 1] => Passed(k, Order[i])
    BY <1>6a DEF Order
  <1>8. s = "start" /\ g \in {"DATASET_AUDIT", "ARTIFACT_VERIFY"} =>
          Passed(k, "DATASET_BUILD") /\ j.build = Len(Builds(k))
    BY <1>5, <1>6a DEF Order
  <1>9. CASE stages[k][g] # <<>>
    <2>1. UNCHANGED stages
      BY <1>3, <1>9 DEF Ensured, IInv, TypeOK
    <2>2. Task(at[c], job[c])'
      BY <1>4, <1>5, <1>8, <2>1 DEF Task, Working, InStage, Passed, Latest, Builds
    <2> QED
      BY <1>3, <1>4, <2>1, <2>2, QuietRecords
  <1>10. CASE stages[k][g] = <<>>
    <2>1. /\ stages' = [stages EXCEPT ![k][g] = Append(stages[k][g], NewAttempt)]
          /\ Len(stages[k][g]) < MaxAttempts
      BY <1>3, <1>10, ResearchAssumption DEF Ensured
    <2>2. Alone(c, k)
      BY <1>1, <1>10, NoAttemptsNobody, HolderIsAlone DEF Holding, Executing
    <2>3. \A i \in 1 .. 3 : g = Order[i + 1] => Passed(k, Order[i])
      BY <1>7 DEF Order
    <2>4. /\ StagesStep(c, k) /\ Only(c, k)
          /\ StagesInOrder(k)' /\ FilesInOrder(k)'
          /\ \A h \in Stage : Passed(k, h) => Passed(k, h)' /\ stages'[k][h] = stages[k][h]
      BY <1>3, <1>10, <2>1, <2>2, <2>3, NewAttemptRecords
    <2>5. Task(at[c], job[c])'
      BY <1>4, <1>5, <1>8, <2>4, Constants DEF Task, Working, InStage, Builds
    <2> QED
      BY <1>4, <2>4, <2>5, RecordsStep
  <1> QED
    BY <1>9, <1>10

LEMMA ReattemptRecords ==
  ASSUME IInv, RInv, NEW c \in Callers, Reattempt(c)
  PROVE  RInv'
  <1>1. PICK k \in Keys, g \in Stage : k = Key(c) /\ g = job[c].stage
    BY Remembered
  <1>2. CASE Len(Mine(c)) = job[c].n
    <2>1. /\ stages' = [stages EXCEPT ![k][g] = Append(stages[k][g], NewAttempt)]
          /\ UNCHANGED <<run, artifacts>> /\ at[c] = "reattempt"
          /\ Enter(c, "rerun", [job[c] EXCEPT !.n = @ + 1, !.fresh = TRUE])
      BY <1>1, <1>2 DEF Reattempt, IInv, TypeOK
    <2>2. /\ Len(stages[k][g]) < MaxAttempts /\ Alone(c, k)
          /\ Latest(k, g).status \in {"FAILED", "BLOCKED"}
      BY <1>1, <1>2, <2>1, HolderIsAlone
      DEF IInv, Memory, Mine, Holding, Claimed, RInv, Task, Latest, Key
    <2>3. \A i \in 1 .. 3 : g = Order[i + 1] => Passed(k, Order[i])
      <3>1. stages[k][g] # <<>>
        BY <1>1, <2>1, Remembered, Rows DEF Mine
      <3> QED
        BY <3>1 DEF RInv, StagesInOrder
    <2>4. /\ StagesStep(c, k) /\ Only(c, k) /\ StagesInOrder(k)' /\ FilesInOrder(k)'
      BY <2>1, <2>2, <2>3, NewAttemptRecords
    <2>5. at'[c] = "rerun" /\ Others(c)
      BY <2>1, Moved DEF Enter
    <2> QED
      BY <2>4, <2>5, SilentTask, RecordsStep DEF Silent
  <1>3. CASE Len(Mine(c)) # job[c].n
    BY <1>3, SilentReturn DEF Reattempt
  <1> QED
    BY <1>2, <1>3

LEMMA RerunRecords ==
  ASSUME IInv, RInv, NEW c \in Callers, Rerun(c)
  PROVE  RInv'
  <1>1. PICK k \in Keys, g \in Stage : k = Key(c) /\ g = job[c].stage
    BY Remembered
  <1>2. UNCHANGED <<stages, artifacts>> /\ \A q \in Keys : run'[q] = "PASS" => run[q] = "PASS"
    BY DEF Rerun, SetRun, IInv, TypeOK
  <1>3. CASE Resumable(k, g)
    <2>1. PICK j : j = [job[c] EXCEPT !.build =
                   IF g = "DATASET_BUILD" THEN 0 ELSE Len(Builds(k))]
      OBVIOUS
    <2>2. j.key = k /\ j.stage = g /\ j.build = IF g = "DATASET_BUILD" THEN 0 ELSE Len(Builds(k))
      BY <1>1, <2>1, Remembered DEF Job, Key
    <2>3. at' = [at EXCEPT ![c] = "start"] /\ job' = [job EXCEPT ![c] = j]
      BY <1>1, <1>3, <2>1 DEF Rerun, Enter, Builds
    <2>4. at'[c] = "start" /\ job'[c] = j /\ Others(c)
      BY <2>3, Moved
    <2>5. Task(at[c], job[c])'
      BY <1>2, <1>3, <2>2, <2>4 DEF Task, Working, InStage, Resumable, Builds, Passed, Latest
    <2> QED
      BY <1>2, <2>4, <2>5, QuietRecords
  <1>4. CASE ~Resumable(k, g)
    BY <1>1, <1>2, <1>4, SilentRecords DEF Rerun, Return, Silent
  <1> QED
    BY <1>3, <1>4

(* transition_stage, as the attempt that results.                            *)
LEMMA SetStageForm ==
  ASSUME IInv, NEW c \in Callers, at[c] \in Executing,
         NEW target \in {"RUNNING", "PASS", "FAILED", "BLOCKED"}, SetStage(c, target),
         NEW k, NEW g, NEW n, k = Key(c), g = job[c].stage, n = job[c].n
  PROVE  \E a \in Attempt :
           /\ Becomes(k, g, n, a) /\ UNCHANGED <<run, artifacts>>
           /\ a.status = target /\ a.gate = stages[k][g][n].gate
           /\ a.content = stages[k][g][n].content
           /\ stages[k][g][n].status \in {"WAITING", "READY", "RUNNING"}
           /\ Keeps(stages[k][g][n], a)
  <1> DEFINE old == stages[k][g][n]
             a == [old EXCEPT !.status = target]
  <1>1. old \in Attempt /\ old = Mine(c)[n]
    BY Remembered DEF Mine, Executing, InStage
  <1>2. a \in Attempt /\ a.status = target /\ a.gate = old.gate /\ a.content = old.content
    BY <1>1 DEF Attempt, Status
  <1>3. Becomes(k, g, n, a) /\ UNCHANGED <<run, artifacts>>
    BY <1>1, Remembered DEF Becomes, SetStage, IInv, TypeOK
  <1>4. old.status \in Status /\ target \in Legal(old.status)
    BY <1>1 DEF SetStage, Attempt
  <1>5. old.status \in {"WAITING", "READY", "RUNNING"}
    BY <1>4, LegalSteps
  <1>6. Keeps(old, a)
    BY <1>2, <1>5 DEF Keeps
  <1> HIDE DEF a, old
  <1> QED
    BY <1>2, <1>3, <1>5, <1>6 DEF old

(* update_stage_evidence, likewise.                                          *)
LEMMA EvidenceForm ==
  ASSUME IInv, NEW c \in Callers, at[c] \in {"evidence", "audit"},
         NEW gate \in {"PASS", "FAILED"}, NEW content \in 0 .. MaxData,
         Evidence(c, gate, content),
         NEW k, NEW g, NEW n, k = Key(c), g = job[c].stage, n = job[c].n
  PROVE  \E a \in Attempt :
           /\ Becomes(k, g, n, a) /\ UNCHANGED <<run, artifacts>>
           /\ a.status = "RUNNING" /\ a.gate = gate /\ a.content = content
           /\ stages[k][g][n].status = "RUNNING" /\ Keeps(stages[k][g][n], a)
  <1> DEFINE old == stages[k][g][n]
             a == [old EXCEPT !.gate = gate, !.content = content]
  <1>1. old \in Attempt /\ old = Mine(c)[n] /\ old.status = "RUNNING" /\ old.gate = "none"
    BY Remembered DEF Mine, IInv, Verdicts, Untold
  <1>2. a \in Attempt /\ a.status = "RUNNING" /\ a.gate = gate /\ a.content = content
    BY <1>1 DEF Attempt
  <1>3. Becomes(k, g, n, a) /\ UNCHANGED <<run, artifacts>>
    BY <1>1, Remembered DEF Becomes, Evidence, IInv, TypeOK
  <1>4. Keeps(old, a)
    BY <1>1, <1>2 DEF Keeps
  <1> HIDE DEF a, old
  <1> QED
    BY <1>1, <1>2, <1>3, <1>4 DEF old

LEMMA StartRecords ==
  ASSUME IInv, RInv, NEW c \in Callers, StartStage(c)
  PROVE  RInv'
  <1>1. at[c] = "start" /\ at[c] \in Executing
    BY DEF StartStage, Executing, InStage
  <1>2. CASE job[c].fresh /\ Mine(c)[job[c].n].status = "READY"
    <2>1. PICK k \in Keys, g \in Stage, n \in 1 .. MaxAttempts, j \in Job :
            k = Key(c) /\ g = job[c].stage /\ n = job[c].n /\ j = job[c]
      BY Remembered
    <2>2. SetStage(c, "RUNNING") /\ Goto(c, FirstWork[g])
      BY <1>2, <2>1 DEF StartStage
    <2>3. PICK a \in Attempt :
            /\ Becomes(k, g, n, a) /\ UNCHANGED <<run, artifacts>>
            /\ a.status = "RUNNING" /\ a.gate = stages[k][g][n].gate
            /\ a.content = stages[k][g][n].content
            /\ stages[k][g][n].status \in {"WAITING", "READY", "RUNNING"}
            /\ Keeps(stages[k][g][n], a)
      BY <1>1, <2>1, <2>2, SetStageForm
    <2>4. /\ StagesStep(c, k) /\ Only(c, k) /\ StagesInOrder(k)' /\ FilesInOrder(k)'
          /\ stages'[k][g][n] = a /\ Len(Builds(k))' = Len(Builds(k))
          /\ Passed(k, "DATASET_BUILD") => Passed(k, "DATASET_BUILD")'
      <3>1. Rewrites(c, k, g, n, a)
        BY <1>1, <2>1, <2>3 DEF Rewrites
      <3> QED
        BY <3>1, AttemptRecords DEF Rewritten
    <2>5. at'[c] = FirstWork[g] /\ job'[c] = j /\ Others(c)
      BY <2>1, <2>2, Moved, Same DEF Goto
    <2>6. g = "DATASET_BUILD" => Made(k, n) = {}
      BY <1>2, <2>1 DEF RInv, FilesInOrder, Made, Mine, Builds
    <2>7. g \in {"DATASET_AUDIT", "ARTIFACT_VERIFY"} =>
            Passed(k, "DATASET_BUILD") /\ j.build = Len(Builds(k))
      BY <1>1, <2>1 DEF RInv, Task, InStage, Key
    <2>8. Made(k, n)' = Made(k, n) /\ j.key = k /\ j.stage = g /\ j.n = n
      BY <2>1, <2>3 DEF Made, Key
    <2>9. Task(at[c], job[c])'
      <3>1. CASE g = "DATA_SOURCE"
        BY <2>3, <2>4, <2>5, <2>8, <3>1 DEF FirstWork, Task, Working, InStage
      <3>2. CASE g = "DATASET_BUILD"
        BY <2>3, <2>4, <2>5, <2>6, <2>8, <3>2 DEF FirstWork, Task, Working, InStage
      <3>3. CASE g \in {"DATASET_AUDIT", "ARTIFACT_VERIFY"}
        BY <2>3, <2>4, <2>5, <2>7, <2>8, <3>3 DEF FirstWork, Task, Working, InStage
      <3> QED
        BY <3>1, <3>2, <3>3, Constants
    <2> QED
      BY <2>4, <2>5, <2>9, RecordsStep
  <1>3. CASE ~(job[c].fresh /\ Mine(c)[job[c].n].status = "READY")
    <2>1. Goto(c, "fail_stage") /\ UNCHANGED store
      BY <1>3 DEF StartStage
    <2> QED
      BY <2>1, SilentGoto DEF Silent, Goto
  <1> QED
    BY <1>2, <1>3

LEMMA BuildRowsRecords ==
  ASSUME IInv, RInv, NEW c \in Callers, BuildRows(c)
  PROVE  RInv'
  <1>1. PICK j : j = [job[c] EXCEPT !.made = data]
    OBVIOUS
  <1>2. j.key = job[c].key /\ j.stage = job[c].stage /\ j.n = job[c].n /\ j.build = job[c].build
    BY <1>1, Remembered DEF Job
  <1>3. at' = [at EXCEPT ![c] = "jsonl"] /\ job' = [job EXCEPT ![c] = j]
        /\ UNCHANGED store /\ at[c] = "build"
    BY <1>1 DEF BuildRows, Enter
  <1>4. at'[c] = "jsonl" /\ job'[c] = j /\ Others(c)
    BY <1>3, Moved
  <1>5. Task(at[c], job[c])
    BY DEF RInv
  <1>6. /\ j.stage = "DATASET_BUILD" /\ Made(j.key, j.n) = {}
        /\ stages[j.key][j.stage][j.n].status = "RUNNING"
    BY <1>2, <1>3, <1>5 DEF Task, Working, InStage
  <1>7. Made(j.key, j.n)' = {} /\ stages'[j.key][j.stage][j.n].status = "RUNNING"
    BY <1>3, <1>6 DEF Made, store
  <1>8. Task("jsonl", j)'
    BY <1>6, <1>7 DEF Task, InStage
  <1>9. Task(at[c], job[c])'
    BY <1>4, <1>8
  <1> QED
    BY <1>3, <1>4, <1>9, QuietRecords DEF store

LEMMA VerifyRecords ==
  ASSUME IInv, RInv, NEW c \in Callers, VerifyArtifacts(c)
  PROVE  RInv'
  <1>1. at[c] = "verify" /\ UNCHANGED store /\ (Goto(c, "evidence") \/ Goto(c, "fail_stage"))
    BY DEF VerifyArtifacts
  <1>2. CASE Goto(c, "evidence")
    <2>1. PICK j : j = job[c]
      OBVIOUS
    <2>2. at'[c] = "evidence" /\ job'[c] = j /\ Others(c) /\ Task(at[c], j)
      BY <1>2, <2>1, Moved, Same DEF Goto, RInv
    <2>3. Task(at[c], job[c])'
      BY <1>1, <2>2 DEF Task, Working, InStage, store, Passed, Latest, Builds
    <2> QED
      BY <1>1, <2>2, <2>3, QuietRecords DEF store
  <1>3. CASE Goto(c, "fail_stage")
    BY <1>1, <1>3, SilentGoto DEF Silent, Goto
  <1> QED
    BY <1>1, <1>2, <1>3

LEMMA GateRecords ==
  ASSUME IInv, RInv, NEW c \in Callers,
         GatePasses(c) \/ AuditFiles(c) \/ AuditFindsDamage(c)
  PROVE  RInv'
  <1>1. PICK k \in Keys, g \in Stage, n \in 1 .. MaxAttempts, j \in Job :
          k = Key(c) /\ g = job[c].stage /\ n = job[c].n /\ j = job[c]
    BY Remembered
  <1>2. PICK gate \in {"PASS", "FAILED"}, content \in 0 .. MaxData,
             s \in {"pass", "publish", "audit_fails"} :
          /\ Evidence(c, gate, content) /\ at' = [at EXCEPT ![c] = s] /\ UNCHANGED job
          /\ s = "pass" => at[c] = "evidence" /\ gate = "PASS" /\ content = j.made
          /\ s # "pass" => at[c] = "audit"
          /\ s = "publish" => gate = "PASS"
    <2>1. 0 \in 0 .. MaxData /\ job[c].made \in 0 .. MaxData
      BY Remembered, ResearchAssumption DEF Job
    <2> QED
      BY <1>1, <2>1 DEF GatePasses, AuditFiles, AuditFindsDamage, Goto
  <1>3. at[c] \in {"evidence", "audit"} /\ at[c] \in Executing
    BY <1>2 DEF Executing, InStage
  <1>4. PICK a \in Attempt :
          /\ Becomes(k, g, n, a) /\ UNCHANGED <<run, artifacts>>
          /\ a.status = "RUNNING" /\ a.gate = gate /\ a.content = content
          /\ stages[k][g][n].status = "RUNNING" /\ Keeps(stages[k][g][n], a)
    BY <1>1, <1>2, <1>3, EvidenceForm
  <1>5. /\ StagesStep(c, k) /\ Only(c, k) /\ StagesInOrder(k)' /\ FilesInOrder(k)'
        /\ stages'[k][g][n] = a /\ Len(Builds(k))' = Len(Builds(k))
        /\ Passed(k, "DATASET_BUILD") => Passed(k, "DATASET_BUILD")'
    <2>1. Rewrites(c, k, g, n, a)
      BY <1>1, <1>3, <1>4 DEF Rewrites
    <2> QED
      BY <2>1, AttemptRecords DEF Rewritten
  <1>6. at'[c] = s /\ job'[c] = j /\ Others(c) /\ Task(at[c], j)
    BY <1>1, <1>2, Moved, Same DEF RInv
  <1>7. \A m, kinds, x : Holds(k, m, kinds, x)' <=> Holds(k, m, kinds, x)
    BY <1>4 DEF Holds, Made
  <1>8. j.key = k /\ j.stage = g /\ j.n = n
    BY <1>1 DEF Key
  <1>9. Task(at[c], job[c])'
    BY <1>2, <1>4, <1>5, <1>6, <1>7, <1>8 DEF Task, Working, InStage
  <1> QED
    BY <1>5, <1>6, <1>9, RecordsStep

LEMMA RegisterRecords ==
  ASSUME IInv, RInv, NEW c \in Callers,
         Register(c, "jsonl", "manifest") \/ Register(c, "manifest", "evidence")
  PROVE  RInv'
  <1>1. PICK kind \in Kinds, next \in {"manifest", "evidence"} :
          Register(c, kind, next) /\ (kind = "jsonl" <=> next = "manifest")
    BY DEF Kinds
  <1>2. CASE RegisterWithoutComparing(c, kind, next)
    <2>1. PICK k \in Keys, n \in 1 .. MaxAttempts, j \in Job :
            k = Key(c) /\ n = job[c].n /\ j = job[c]
      BY Remembered
    <2>2. PICK file : file = [key |-> k, n |-> n, kind |-> kind,
                              content |-> j.made, published |-> FALSE]
      OBVIOUS
    <2>3. /\ at[c] = kind /\ at[c] \in {"jsonl", "manifest"}
          /\ artifacts' = artifacts \cup {file} /\ UNCHANGED <<run, stages>>
          /\ Goto(c, next)
      BY <1>2, <2>1, <2>2 DEF RegisterWithoutComparing, Kinds
    <2>4. /\ file.key = k /\ file.n = n /\ file.kind = kind /\ file.content = j.made
          /\ ~file.published
      BY <2>2
    <2>5. at[c] \in Executing /\ at[c] \in Working
      BY <2>3 DEF Executing, Working, InStage
    <2>6. at'[c] = next /\ job'[c] = j /\ Others(c) /\ Task(at[c], j) /\ j.key = k /\ j.n = n
      BY <2>1, <2>3, Moved, Same DEF Goto, RInv, Key
    <2>7. /\ j.stage = "DATASET_BUILD" /\ Builds(k)[n].status = "RUNNING"
          /\ n \in 1 .. Len(Builds(k)) /\ StagesInOrder(k) /\ FilesInOrder(k)
      BY <2>1, <2>3, <2>5, <2>6, Remembered DEF Task, Builds, RInv, Mine
    <2>8. /\ Made(k, n)' = Made(k, n) \cup {file}
          /\ \A m : m # n => Made(k, m)' = Made(k, m)
      BY <2>3, <2>4 DEF Made
    <2>9. Only(c, k) /\ StagesStep(c, k)
      BY <2>1, <2>3, <2>4, <2>5, HolderIsAlone, StagesKept DEF Only, Holding
    <2>10. /\ n = Len(Builds(k)) /\ ~Passed(k, "DATASET_BUILD") /\ ~Passed(k, "DATASET_AUDIT")
      <3>1. n = Len(Builds(k)) /\ ~Passed(k, "DATASET_BUILD")
        BY <2>7, OpenIsLatest, Constants DEF Builds
      <3> QED
        BY <2>7, <3>1, InOrder DEF Passed
    <2>11. StagesInOrder(k)'
      BY <2>3, <2>7 DEF StagesInOrder, Passed, Latest
    <2>12. FilesInOrder(k)'
      <3>1. Builds(k)' = Builds(k) /\ AuditPassed(k)' = AuditPassed(k) /\ ~Passed(k, "DATASET_AUDIT")'
        BY <2>3, <2>10 DEF Builds, AuditPassed, Passed, Latest
      <3>2. ASSUME NEW f \in artifacts', f.key = k
            PROVE  /\ f.n <= Len(Builds(k)) /\ Builds(k)[f.n].status # "READY"
                   /\ f.published => Builds(k)[f.n].status = "PASS" /\ AuditPassed(k)
        <4>1. CASE f = file
          BY <2>4, <2>7, <2>10, <4>1
        <4>2. CASE f # file
          BY <2>3, <2>7, <3>2, <4>2 DEF FilesInOrder
        <4> QED
          BY <4>1, <4>2
      <3>3. ASSUME NEW m \in 1 .. Len(Builds(k)), Builds(k)[m].status = "PASS"
            PROVE  Builds(k)[m].gate = "PASS" /\ Holds(k, m, Kinds, Builds(k)[m].content)'
        <4>1. m # n /\ Builds(k)[m].gate = "PASS" /\ Holds(k, m, Kinds, Builds(k)[m].content)
          BY <2>7, <3>3 DEF FilesInOrder
        <4>2. PICK x : x = Builds(k)[m].content
          OBVIOUS
        <4>3. Holds(k, m, Kinds, x)'
          BY <2>8, <4>1, <4>2 DEF Holds
        <4> QED
          BY <3>1, <4>1, <4>2, <4>3
      <3> QED
        BY <3>1, <3>2, <3>3 DEF FilesInOrder
    <2>13. /\ kind = "jsonl" => Holds(k, n, {"jsonl"}, j.made)'
           /\ kind = "manifest" => Holds(k, n, Kinds, j.made)'
      <3>1. /\ kind = "jsonl" => Made(k, n) = {}
            /\ kind = "manifest" => Holds(k, n, {"jsonl"}, j.made)
        BY <2>3, <2>6 DEF Task
      <3> QED
        BY <2>4, <2>8, <3>1 DEF Holds, Kinds
    <2>14. Task(at[c], job[c])'
      BY <1>1, <2>3, <2>6, <2>7, <2>13 DEF Task, Working, InStage, Builds
    <2> QED
      BY <2>6, <2>9, <2>11, <2>12, <2>14, RecordsStep
  <1>3. CASE Goto(c, "fail_stage") /\ UNCHANGED store
    BY <1>3, SilentGoto DEF Silent, Goto
  <1> QED
    BY <1>1, <1>2, <1>3 DEF Register

LEMMA PublishRecords ==
  ASSUME IInv, RInv, NEW c \in Callers, Publish(c)
  PROVE  RInv'
  <1>1. PICK k \in Keys, g \in Stage, n \in 1 .. MaxAttempts, j \in Job, b \in 0 .. MaxAttempts :
          k = Key(c) /\ g = job[c].stage /\ n = job[c].n /\ j = job[c] /\ b = job[c].build
    BY Remembered DEF Job
  <1>2. PICK mine : mine = Made(k, b)
    OBVIOUS
  <1>3. /\ at[c] = "publish" /\ UNCHANGED <<run, stages>>
        /\ artifacts' = (artifacts \ mine) \cup {[a EXCEPT !.published = TRUE] : a \in mine}
        /\ at'[c] = "pass" /\ job'[c] = j /\ Others(c)
    BY <1>1, <1>2, Moved, Same DEF Publish, PublishedFiles, Goto
  <1>4. at[c] \in Executing /\ at[c] \in Working /\ at[c] \in InStage
    BY <1>3 DEF Executing, Working, InStage
  <1>5. /\ Task(at[c], j) /\ StagesInOrder(k) /\ FilesInOrder(k)
        /\ j.key = k /\ j.stage = g /\ j.n = n /\ j.build = b
    BY <1>1 DEF RInv, Key
  <1>6. /\ g = "DATASET_AUDIT" /\ stages[k][g][n].gate = "PASS" /\ stages[k][g][n].status = "RUNNING"
        /\ Passed(k, "DATASET_BUILD") /\ b = Len(Builds(k))
    BY <1>3, <1>4, <1>5 DEF Task
  <1>7. AuditPassed(k)
    <2>1. n \in 1 .. Len(stages[k][g]) /\ stages[k][g] \in Seq(Attempt)
      BY <1>1, <1>3, Remembered, Rows DEF Mine
    <2> QED
      BY <1>6, <2>1 DEF AuditPassed
  <1>8. artifacts \subseteq Artifact /\ mine \subseteq artifacts
    BY <1>2 DEF IInv, TypeOK, Made
  <1>9. ASSUME NEW a \in mine
        PROVE  /\ [a EXCEPT !.published = TRUE].key = k /\ [a EXCEPT !.published = TRUE].n = b
               /\ [a EXCEPT !.published = TRUE].kind = a.kind
               /\ [a EXCEPT !.published = TRUE].content = a.content
               /\ [a EXCEPT !.published = TRUE].published
    BY <1>2, <1>8 DEF Artifact, Made
  <1>10. PICK pub : pub = [a \in mine |-> [a EXCEPT !.published = TRUE]]
    OBVIOUS
  <1>11. /\ artifacts' = (artifacts \ mine) \cup {pub[a] : a \in mine}
         /\ \A a \in mine : /\ pub[a].key = k /\ pub[a].n = b /\ pub[a].published
                            /\ pub[a].kind = a.kind /\ pub[a].content = a.content
         /\ \A f \in mine : f \in artifacts /\ f.key = k /\ f.n = b
    BY <1>2, <1>3, <1>9, <1>10 DEF Made
  <1>12. \A f \in Made(k, b)' :
           /\ f.published
           /\ \E a \in mine : f.kind = a.kind /\ f.content = a.content
    BY <1>2, <1>11 DEF Made
  <1>13. \A m : m # b => Made(k, m)' = Made(k, m)
    BY <1>11 DEF Made
  <1>14. {a.kind : a \in Made(k, b)'} = {a.kind : a \in mine}
    <2>1. \A a \in mine : pub[a] \in Made(k, b)' /\ pub[a].kind = a.kind
      BY <1>11 DEF Made
    <2> QED
      BY <1>12, <2>1
  <1>15. Only(c, k) /\ StagesStep(c, k)
    <2>1. {a \in artifacts' : a.key # k} = {a \in artifacts : a.key # k}
      BY <1>11
    <2> QED
      BY <1>1, <1>3, <1>4, <2>1, HolderIsAlone, StagesKept DEF Only, Holding
  <1>16. /\ StagesInOrder(k)' /\ Builds(k)' = Builds(k) /\ AuditPassed(k)'
         /\ Passed(k, "DATASET_BUILD")'
    BY <1>3, <1>5, <1>6, <1>7 DEF StagesInOrder, Passed, Latest, Builds, AuditPassed
  <1>17. FilesInOrder(k)'
    <2>1. b \in 1 .. Len(Builds(k)) /\ Builds(k)[b].status = "PASS"
      BY <1>6, Rows, Constants DEF Passed, Latest, Builds
    <2>2. ASSUME NEW f \in artifacts', f.key = k
          PROVE  /\ f.n <= Len(Builds(k)) /\ Builds(k)[f.n].status # "READY"
                 /\ f.published => Builds(k)[f.n].status = "PASS" /\ AuditPassed(k)
      <3>1. CASE f \in artifacts
        BY <1>5, <2>2, <3>1 DEF FilesInOrder
      <3>2. CASE f \notin artifacts
        <4>1. f.n = b
          BY <1>11, <3>2
        <4> QED
          BY <1>6, <1>7, <2>1, <4>1
      <3> QED
        BY <3>1, <3>2
    <2>3. ASSUME NEW m \in 1 .. Len(Builds(k)), Builds(k)[m].status = "PASS"
          PROVE  Builds(k)[m].gate = "PASS" /\ Holds(k, m, Kinds, Builds(k)[m].content)'
      <3>1. PICK x : x = Builds(k)[m].content
        OBVIOUS
      <3>2. Builds(k)[m].gate = "PASS" /\ Holds(k, m, Kinds, x)
        BY <1>5, <2>3, <3>1 DEF FilesInOrder
      <3>3. Holds(k, m, Kinds, x)'
        <4>1. CASE m = b
          BY <1>2, <1>12, <1>14, <3>2, <4>1 DEF Holds
        <4>2. CASE m # b
          BY <1>13, <3>2, <4>2 DEF Holds
        <4> QED
          BY <4>1, <4>2
      <3> QED
        BY <1>16, <3>1, <3>2, <3>3
    <2> QED
      BY <1>6, <1>7, <1>12, <1>16, <2>2, <2>3 DEF FilesInOrder
  <1>18. Task(at[c], job[c])'
    <2>1. stages'[k][g][n].gate = "PASS" /\ stages'[k][g][n].status = "RUNNING"
      BY <1>3, <1>6
    <2> QED
      BY <1>3, <1>5, <1>6, <1>12, <1>16, <2>1 DEF Task, Working, InStage
  <1> QED
    BY <1>3, <1>15, <1>16, <1>17, <1>18, RecordsStep

LEMMA PassStageRecords ==
  ASSUME IInv, RInv, NEW c \in Callers, PassStage(c)
  PROVE  RInv'
  <1>1. PICK k \in Keys, g \in Stage, n \in 1 .. MaxAttempts :
          k = Key(c) /\ g = job[c].stage /\ n = job[c].n
    BY Remembered
  <1>2. PICK s, j : /\ s = IF g = "ARTIFACT_VERIFY" THEN "finish" ELSE "ensure"
                    /\ j = IF g = "DATASET_BUILD"
                           THEN [job[c] EXCEPT !.build = job[c].n, !.made = 0] ELSE job[c]
    OBVIOUS
  <1>3. /\ at[c] = "pass" /\ at[c] \in Executing /\ at[c] \in Working /\ at[c] \in InStage
        /\ SetStage(c, "PASS") /\ at' = [at EXCEPT ![c] = s] /\ job' = [job EXCEPT ![c] = j]
    BY <1>1, <1>2 DEF PassStage, Enter, Executing, Working, InStage
  <1>4. /\ j.key = k /\ j.stage = g /\ j.n = n
        /\ j.build = IF g = "DATASET_BUILD" THEN n ELSE job[c].build
    BY <1>1, <1>2, Remembered DEF Job, Key
  <1>5. at'[c] = s /\ job'[c] = j /\ Others(c)
    BY <1>3, Moved
  <1>6. PICK a \in Attempt :
          /\ Becomes(k, g, n, a) /\ UNCHANGED <<run, artifacts>>
          /\ a.status = "PASS" /\ a.gate = stages[k][g][n].gate
          /\ a.content = stages[k][g][n].content
          /\ stages[k][g][n].status \in {"WAITING", "READY", "RUNNING"}
          /\ Keeps(stages[k][g][n], a)
    BY <1>1, <1>3, SetStageForm
  <1>7. Task(at[c], job[c])
    BY DEF RInv
  <1>8. /\ g = "DATASET_BUILD" => a.gate = "PASS" /\ Holds(k, n, Kinds, a.content)
        /\ g = "DATASET_AUDIT" => \A f \in Made(k, Len(Builds(k))) : f.published
        /\ g \in {"DATASET_AUDIT", "ARTIFACT_VERIFY"} =>
             Passed(k, "DATASET_BUILD") /\ job[c].build = Len(Builds(k))
    BY <1>1, <1>3, <1>6, <1>7 DEF Task, Key
  <1>9. /\ StagesStep(c, k) /\ Only(c, k) /\ StagesInOrder(k)' /\ FilesInOrder(k)'
        /\ Len(Builds(k))' = Len(Builds(k)) /\ Passed(k, g)'
        /\ Passed(k, "DATASET_BUILD") => Passed(k, "DATASET_BUILD")'
    <2>1. Rewrites(c, k, g, n, a)
      BY <1>1, <1>3, <1>6, <1>8 DEF Rewrites
    <2> QED
      BY <1>6, <2>1, AttemptRecords DEF Rewritten
  <1>10. g = "DATASET_BUILD" => n = Len(Builds(k))
    <2>1. n \in 1 .. Len(stages[k][g]) /\ StagesInOrder(k)
      BY <1>1, <1>3, Remembered DEF RInv, Mine
    <2>2. n = Len(stages[k][g])
      BY <1>6, <2>1, OpenIsLatest
    <2> QED
      BY <2>2 DEF Builds
  <1>11. Task(at[c], job[c])'
    <2>1. CASE g = "ARTIFACT_VERIFY"
      BY <1>2, <1>4, <1>5, <1>8, <1>9, <2>1 DEF Task, Working, InStage
    <2>2. CASE g # "ARTIFACT_VERIFY"
      <3>1. s = "ensure"
        BY <1>2, <2>2
      <3>2. g \in {"DATASET_BUILD", "DATASET_AUDIT"} =>
              Passed(k, "DATASET_BUILD")' /\ j.build = Len(Builds(k))'
        BY <1>4, <1>8, <1>9, <1>10
      <3> QED
        BY <1>4, <1>5, <1>9, <3>1, <3>2 DEF Task, Working, InStage
    <2> QED
      BY <2>1, <2>2
  <1> QED
    BY <1>5, <1>9, <1>11, RecordsStep

LEMMA FailStageRecords ==
  ASSUME IInv, RInv, NEW c \in Callers,
         \/ FailStage(c, "fail_stage", "FAILED")
         \/ FailStage(c, "block_stage", "BLOCKED")
         \/ AuditFails(c)
  PROVE  RInv'
  <1>1. PICK s \in Silent : at' = [at EXCEPT ![c] = s] /\ UNCHANGED job
    BY DEF FailStage, AuditFails, Goto, Silent
  <1>2. at[c] \in Executing
    BY DEF FailStage, AuditFails, Executing, InStage
  <1>3. CASE UNCHANGED store
    BY <1>1, <1>3, SilentGoto
  <1>4. ASSUME NEW target \in {"FAILED", "BLOCKED"}, SetStage(c, target)
        PROVE  RInv'
    <2>1. PICK k \in Keys, g \in Stage, n \in 1 .. MaxAttempts :
            k = Key(c) /\ g = job[c].stage /\ n = job[c].n
      BY Remembered
    <2>2. PICK a \in Attempt :
            /\ Becomes(k, g, n, a) /\ UNCHANGED <<run, artifacts>>
            /\ a.status = target /\ a.gate = stages[k][g][n].gate
            /\ a.content = stages[k][g][n].content
            /\ stages[k][g][n].status \in {"WAITING", "READY", "RUNNING"}
            /\ Keeps(stages[k][g][n], a)
      BY <1>2, <1>4, <2>1, SetStageForm
    <2>3. StagesStep(c, k) /\ Only(c, k) /\ StagesInOrder(k)' /\ FilesInOrder(k)'
      <3>1. Rewrites(c, k, g, n, a)
        BY <1>2, <2>1, <2>2 DEF Rewrites
      <3> QED
        BY <3>1, AttemptRecords DEF Rewritten
    <2>4. at'[c] \in Silent /\ Others(c)
      <3>1. job' = [job EXCEPT ![c] = job[c]]
        BY <1>1, Same
      <3> QED
        BY <1>1, <3>1, Moved
    <2> QED
      BY <2>3, <2>4, SilentTask, RecordsStep
  <1> QED
    BY <1>3, <1>4 DEF FailStage, AuditFails

LEMMA FinishRecords ==
  ASSUME IInv, RInv, NEW c \in Callers,
         \/ FailRun(c, "fail_run", "FAILED") \/ FailRun(c, "block_run", "BLOCKED")
         \/ Finish(c)
  PROVE  RInv'
  <1>1. Return(c) /\ UNCHANGED <<stages, artifacts>>
    BY DEF FailRun, Finish, SetRun, store
  <1>2. \A q \in Keys : run'[q] = "PASS" => run[q] = "PASS" \/ Passed(q, "ARTIFACT_VERIFY")
    <2>1. CASE Finish(c)
      <3>1. Passed(Key(c), "ARTIFACT_VERIFY") /\ run' = [run EXCEPT ![Key(c)] = "PASS"]
        BY <2>1 DEF Finish, SetRun, RInv, Task, Key
      <3> QED
        BY <3>1 DEF IInv, TypeOK
    <2>2. CASE FailRun(c, "fail_run", "FAILED") \/ FailRun(c, "block_run", "BLOCKED")
      BY <2>2 DEF FailRun, SetRun, store, IInv, TypeOK
    <2> QED
      BY <2>1, <2>2
  <1> QED
    BY <1>1, <1>2, SilentRecords DEF Return, Silent

LEMMA RecordsInvariant ==
  ASSUME IInv, RInv, [Next]_vars
  PROVE  RInv'
  <1>1. ASSUME NEW c \in Callers, Work(c)
        PROVE  RInv'
    <2>1. CASE SourceStage(c)
      BY <2>1, Constants, EnsureRecords DEF SourceStage
    <2>2. CASE Ready(c) \/ Running(c) \/ Again(c)
      BY <2>2, ClaimRecords DEF Ready, Running, Again
    <2>3. CASE StartStage(c) \/ BuildRows(c)
      BY <2>3, StartRecords, BuildRowsRecords
    <2>4. CASE Register(c, "jsonl", "manifest") \/ Register(c, "manifest", "evidence")
      BY <2>4, RegisterRecords
    <2>5. CASE GatePasses(c) \/ AuditFiles(c)
      BY <2>5, GateRecords
    <2>6. CASE Publish(c) \/ VerifyArtifacts(c)
      BY <2>6, PublishRecords, VerifyRecords
    <2>7. CASE PassStage(c)
      BY <2>7, PassStageRecords
    <2>8. CASE NextStage(c)
      <3>1. PICK i \in 1 .. 3 : /\ at[c] = "ensure" /\ job[c].stage = Order[i]
                                /\ EnsureStage(c, job[c], Order[i + 1], "start")
        BY <2>8 DEF NextStage
      <3>2. PICK g \in Stage : g = Order[i + 1]
        BY DEF Stage, Order
      <3> QED
        BY <3>1, <3>2, EnsureRecords
    <2>9. CASE \/ AuditFails(c) \/ FailStage(c, "fail_stage", "FAILED")
               \/ FailStage(c, "block_stage", "BLOCKED")
      BY <2>9, FailStageRecords
    <2>10. CASE \/ FailRun(c, "fail_run", "FAILED") \/ FailRun(c, "block_run", "BLOCKED")
                \/ Finish(c)
      BY <2>10, FinishRecords
    <2>11. CASE Reattempt(c) \/ Rerun(c)
      BY <2>11, ReattemptRecords, RerunRecords
    <2> QED
      BY <1>1, <2>1, <2>2, <2>3, <2>4, <2>5, <2>6, <2>7, <2>8, <2>9, <2>10, <2>11 DEF Work
  <1>2. ASSUME NEW c \in Callers, NEW k \in Keys, RunPipeline(c, k) \/ Retry(c, k)
        PROVE  RInv'
    BY <1>2, RunPipelineRecords, RetryRecords
  <1>3. ASSUME NEW c \in Callers,
               AuditFindsDamage(c) \/ StageRaises(c) \/ BuilderRefuses(c) \/ Dies(c)
        PROVE  RInv'
    BY <1>3, GateRecords, TroubleRecords
  <1>4. CASE NewRows \/ UNCHANGED vars
    <2>1. UNCHANGED <<run, stages, artifacts, at, job>>
      BY <1>4 DEF NewRows, vars, store
    <2>2. ASSUME NEW c \in Callers
          PROVE  Task(at[c], job[c])'
      BY <2>1, TaskKept DEF RInv, Made
    <2> QED
      <3>1. CASE Callers = {}
        BY <2>1, <3>1 DEF RInv, StagesInOrder, FilesInOrder, Builds, Passed, Latest, Holds, Made, AuditPassed
      <3>2. ASSUME NEW c \in Callers
            PROVE  RInv'
        BY <2>1, <2>2, QuietRecords DEF Others
      <3> QED
        BY <3>1, <3>2
  <1> QED
    BY <1>1, <1>2, <1>3, <1>4 DEF Next

LEMMA RecordsInitially == Init => RInv
  <1> SUFFICES ASSUME Init PROVE RInv
    OBVIOUS
  <1>1. /\ artifacts = {} /\ \A k \in Keys : run[k] = "NONE"
        /\ \A k \in Keys, g \in Stage : stages[k][g] = <<>>
        /\ \A c \in Callers : at[c] = "idle"
    BY DEF Init
  <1>2. ASSUME NEW k \in Keys
        PROVE  StagesInOrder(k) /\ FilesInOrder(k)
    <2>1. \A g \in Stage : stages[k][g] = <<>> /\ Len(stages[k][g]) = 0 /\ ~Passed(k, g)
      BY <1>1, EmptySeq DEF Passed
    <2>2. \A i \in 1 .. 3 : Order[i + 1] \in Stage
      BY DEF Stage, Order
    <2> QED
      BY <1>1, <2>1, <2>2, Constants DEF StagesInOrder, FilesInOrder, Builds
  <1>3. \A c \in Callers : Task(at[c], job[c])
    BY <1>1 DEF Task, Working, InStage
  <1> QED
    BY <1>2, <1>3 DEF RInv

LEMMA RecordsTell ==
  ASSUME IInv, RInv
  PROVE  PassIsComplete /\ PublishedWasAudited /\ RoadmapFollows
  <1>1. ASSUME NEW k \in Keys
        PROVE  StagesInOrder(k) /\ FilesInOrder(k)
    BY DEF RInv
  <1>2. PublishedWasAudited
    BY <1>1 DEF IInv, TypeOK, Artifact, FilesInOrder, Builds, AuditPassed, PublishedWasAudited
  <1>3. ASSUME NEW k \in Keys, run[k] = "PASS"
        PROVE  /\ \A g \in Stage : Passed(k, g)
               /\ LET shown == {a \in artifacts : a.key = k /\ a.published}
                  IN /\ shown = Made(k, Len(stages[k]["DATASET_BUILD"]))
                     /\ {a.kind : a \in shown} = Kinds
                     /\ {a.content : a \in shown} = Summaries(k)
                     /\ ViewSummary(k) = Summaries(k)
    <2>1. \A g \in Stage : Passed(k, g)
      <3>1. Passed(k, "ARTIFACT_VERIFY")
        BY <1>1, <1>3 DEF StagesInOrder
      <3> QED
        BY <1>1, <3>1, InOrder, Constants DEF Passed
    <2>2. PICK b \in Nat : b = Len(Builds(k))
      BY Rows, Constants DEF Builds
    <2>3. /\ b \in 1 .. b /\ DOMAIN Builds(k) = 1 .. b /\ Builds(k)[b].status = "PASS"
          /\ Builds(k)[b].gate = "PASS" /\ Holds(k, b, Kinds, Builds(k)[b].content)
          /\ \A n \in 1 .. b : n # b => Builds(k)[n].status # "PASS"
      <3>1. /\ b \in 1 .. b /\ DOMAIN Builds(k) = 1 .. b /\ Builds(k)[b].status = "PASS"
        BY <2>1, <2>2, Rows, Constants DEF Builds, Passed, Latest
      <3>2. \A n \in 1 .. b : n # b => Builds(k)[n].status # "PASS"
        BY <1>1, <2>2, Constants DEF StagesInOrder, Builds
      <3> QED
        BY <1>1, <2>2, <3>1, <3>2 DEF FilesInOrder
    <2> DEFINE shown == {a \in artifacts : a.key = k /\ a.published}
    <2>4. shown = Made(k, b)
      <3>1. \A a \in Made(k, b) : a.published
        BY <1>1, <2>1, <2>2, Constants DEF FilesInOrder
      <3>2. ASSUME NEW a \in shown
            PROVE  a.n = b
        <4>1. a.n \in 1 .. MaxAttempts /\ a.n <= b /\ Builds(k)[a.n].status = "PASS"
          BY <1>1, <2>2 DEF FilesInOrder, IInv, TypeOK, Artifact
        <4> QED
          BY <2>3, <4>1
      <3> QED
        BY <3>1, <3>2 DEF Made
    <2>5. PICK x : x = Builds(k)[b].content
      OBVIOUS
    <2>6. {a.kind : a \in shown} = Kinds /\ {a.content : a \in shown} = {x}
      <3>1. {a.kind : a \in shown} = Kinds /\ \A a \in shown : a.content = x
        BY <2>3, <2>4, <2>5 DEF Holds
      <3>2. \E a \in shown : TRUE
        BY <3>1 DEF Kinds
      <3> HIDE DEF shown
      <3> QED
        BY <3>1, <3>2
    <2>7. Summaries(k) = {x}
      BY <2>3, <2>5 DEF Summaries, Builds
    <2>8. ViewSummary(k) = {x}
      BY <2>3, <2>5 DEF ViewSummary, Builds
    <2> QED
      BY <2>1, <2>2, <2>4, <2>6, <2>7, <2>8 DEF Builds
  <1>4. ASSUME NEW c \in Callers, at[c] \in InStage \ {"start"}
        PROVE  CurrentStages(Key(c)) = {job[c].stage}
    <2>1. PICK k \in Keys, g \in Stage, n \in 1 .. MaxAttempts :
            k = Key(c) /\ g = job[c].stage /\ n = job[c].n
      BY Remembered
    <2>2. /\ n \in 1 .. Len(stages[k][g]) /\ stages[k][g][n].status = "RUNNING"
      BY <1>4, <2>1, Remembered DEF RInv, Task, Working, InStage, Mine, Key
    <2>3. ~Passed(k, g) /\ Latest(k, g).status = "RUNNING" /\ stages[k][g] # <<>>
      BY <1>1, <2>2, OpenIsLatest, EmptySeq
    <2>4. ASSUME NEW h \in Stage, h # g, stages[k][h] # <<>>
          PROVE  Latest(k, h).status = "PASS"
      BY <1>1, <2>3, <2>4, InOrder, Constants DEF Passed
    <2>5. CurrentStages(k) = {g}
      BY <2>3, <2>4 DEF CurrentStages
    <2> QED
      BY <2>1, <2>5
  <1> QED
    BY <1>2, <1>3, <1>4 DEF PassIsComplete, RoadmapFollows

(* A published file was audited and its build has passed, a PASS has every   *)
(* stage and the two files of its latest build, the roadmap displays the     *)
(* stage at work, and nothing it told is taken back, through any retries,    *)
(* races, damaged files and deaths (mark_artifacts_validated,                *)
(* retry_stage_attempt, _current_stage).                                     *)
THEOREM RecordsStayTrue == Spec => RecordsAreTrue
  <1>1. IInv /\ RInv /\ [Next]_vars => IInv' /\ RInv'
    BY Step, RecordsInvariant
  <1>2. IInv /\ RInv => TypeOK /\ PassIsComplete /\ PublishedWasAudited /\ RoadmapFollows
    BY RecordsTell DEF IInv
  <1> QED
    BY Initially, RecordsInitially, <1>1, <1>2, HistoryIsKeptHolds, PTL DEF Spec, RecordsAreTrue
==============================================================================
