---------------------------- MODULE Control_proofs ----------------------------
(* Proofs about Control, for every script of the operator and every bound.   *)
EXTENDS Control, SequenceTheorems, TLAPS

(* ------------------------- records and sequences ------------------------- *)

Entered == [Idle EXCEPT !.stage = "entered"]

LEMMA Blank ==
  /\ Idle \in Runs /\ Idle.stage = "idle" /\ ~Idle.spawned /\ ~Idle.ready /\ Idle.base = 0 /\ Idle.foreign = 0
  /\ Entered \in Runs /\ Entered.stage = "entered" /\ ~Entered.spawned /\ ~Entered.ready
  /\ Entered.base = 0 /\ Entered.foreign = 0
  <1>1. FALSE \in BOOLEAN
    BY Zenon
  <1>2. 0 \in 0..MaxSpawns
    BY ControlAssumption
  <1> QED
    BY <1>1, <1>2 DEF Idle, Entered, Runs, Stages

(* Setting the stage leaves the rest of a run alone.                         *)
LEMMA SetStage ==
  ASSUME NEW r \in Runs, NEW s \in Stages, NEW x, x = [r EXCEPT !.stage = s]
  PROVE  /\ x \in Runs /\ x.stage = s
         /\ x.spawned = r.spawned /\ x.ready = r.ready /\ x.saw = r.saw
         /\ x.base = r.base /\ x.foreign = r.foreign
  BY DEF Runs

(* A finished process is dropped; nothing else changes.                      *)
LEMMA NotedLive ==
  ASSUME NEW l \in Lives
  PROVE  /\ Noted(l) \in Lives
         /\ Noted(l).inst = l.inst /\ Noted(l).up = l.up /\ Noted(l).wanted = l.wanted
  <1>1. (l.watched /\ l.up) \in BOOLEAN
    BY Zenon
  <1> QED
    BY <1>1 DEF Lives, Noted

LEMMA NotedApi ==
  ASSUME NEW a \in Apis
  PROVE  Noted(a) \in Apis /\ Noted(a).up = a.up
  <1>1. (a.watched /\ a.up) \in BOOLEAN
    BY Zenon
  <1> QED
    BY <1>1 DEF Apis, Noted

LEMMA SpawnedLive ==
  ASSUME NEW l \in Lives, l.inst < MaxSpawns
  PROVE  /\ Spawned(l) \in Lives
         /\ Spawned(l).inst = l.inst + 1 /\ Spawned(l).up /\ Spawned(l).wanted
  <1>1. TRUE \in BOOLEAN
    BY Zenon
  <1>2. l.inst + 1 \in 0..MaxSpawns
    BY ControlAssumption DEF Lives
  <1> QED
    BY <1>1, <1>2 DEF Lives, Spawned

LEMMA StoppedLive ==
  ASSUME NEW l \in Lives
  PROVE  /\ Stopped(l) \in Lives
         /\ Stopped(l).inst = l.inst /\ ~Stopped(l).up /\ ~Stopped(l).wanted
  <1>1. FALSE \in BOOLEAN
    BY Zenon
  <1> QED
    BY <1>1 DEF Lives, Stopped

(* One field of Live at a time.                                              *)
LEMMA SetLive ==
  ASSUME NEW l \in Lives, NEW b \in BOOLEAN
  PROVE  /\ [l EXCEPT !.up = b] \in Lives /\ [l EXCEPT !.up = b].inst = l.inst
         /\ [l EXCEPT !.up = b].up = b /\ [l EXCEPT !.up = b].wanted = l.wanted
         /\ [l EXCEPT !.wanted = b] \in Lives /\ [l EXCEPT !.wanted = b].inst = l.inst
         /\ [l EXCEPT !.wanted = b].up = l.up /\ [l EXCEPT !.wanted = b].wanted = b
         /\ [l EXCEPT !.watched = b] \in Lives /\ [l EXCEPT !.watched = b].inst = l.inst
         /\ [l EXCEPT !.watched = b].up = l.up /\ [l EXCEPT !.watched = b].wanted = l.wanted
  BY DEF Lives

LEMMA RestartedLive ==
  ASSUME NEW l \in Lives
  PROVE  /\ Restarted(l) \in Lives
         /\ Restarted(l) = l \/ (~l.up /\ l.wanted /\ Restarted(l).inst = l.inst + 1 /\ Restarted(l).up /\ Restarted(l).wanted)
  <1>1. CASE l.watched /\ ~l.up /\ l.wanted /\ l.inst < MaxSpawns
    <2>1. Restarted(l) = Spawned(l)
      BY <1>1 DEF Restarted
    <2> QED
      BY <1>1, <2>1, SpawnedLive
  <1>2. CASE ~(l.watched /\ ~l.up /\ l.wanted /\ l.inst < MaxSpawns)
    BY <1>2 DEF Restarted
  <1> QED
    BY <1>1, <1>2

(* What is left when the first leaves.                                       *)
LEMMA WithoutFirst ==
  ASSUME NEW S, NEW s \in Seq(S), s # <<>>
  PROVE  /\ Tail(s) \in Seq(S) /\ Head(s) = s[1] /\ s[1] \in S /\ 1 \in DOMAIN s
         /\ DOMAIN Tail(s) = 1..(Len(s) - 1) /\ DOMAIN s = 1..Len(s) /\ Len(s) \in Nat
         /\ \A i \in 1..(Len(s) - 1) : Tail(s)[i] = s[i + 1] /\ i + 1 \in DOMAIN s
         /\ Tail(s) = <<>> <=> ~(Len(s) > 1)
  <1>1. Len(s) \in Nat /\ Len(s) # 0 /\ DOMAIN s = 1..Len(s)
    BY EmptySeq, LenProperties
  <1>2. s[1] \in S /\ Head(s) = s[1]
    BY <1>1, ElementOfSeq
  <1>3. Tail(s) \in Seq(S) /\ Len(Tail(s)) = Len(s) - 1 /\ \A i \in 1..Len(Tail(s)) : Tail(s)[i] = s[i + 1]
    BY HeadTailProperties
  <1>4. DOMAIN Tail(s) = 1..(Len(s) - 1)
    BY <1>1, <1>3, LenProperties
  <1>5. Tail(s) = <<>> <=> Len(Tail(s)) = 0
    BY <1>3, EmptySeq
  <1> QED
    BY <1>1, <1>2, <1>3, <1>4, <1>5

LEMMA WithLast ==
  ASSUME NEW S, NEW s \in Seq(S), NEW e \in S
  PROVE  /\ Append(s, e) \in Seq(S) /\ Append(s, e) # <<>>
         /\ DOMAIN s = 1..Len(s) /\ DOMAIN Append(s, e) = 1..(Len(s) + 1) /\ Len(s) \in Nat
         /\ Append(s, e)[Len(s) + 1] = e
         /\ \A i \in DOMAIN s : Append(s, e)[i] = s[i]
         /\ s = <<>> => Append(s, e)[1] = e
         /\ s # <<>> => Append(s, e)[1] = s[1]
  <1>1. Append(s, e) \in Seq(S) /\ Append(s, e) # <<>> /\ Len(Append(s, e)) = Len(s) + 1
    BY AppendProperties
  <1>2. Append(s, e)[Len(s) + 1] = e /\ \A i \in 1..Len(s) : Append(s, e)[i] = s[i]
    BY AppendProperties
  <1>3. Len(s) \in Nat /\ DOMAIN s = 1..Len(s) /\ DOMAIN Append(s, e) = 1..(Len(s) + 1)
    BY <1>1, LenProperties
  <1>4. (s = <<>> => Len(s) = 0) /\ (s # <<>> => Len(s) # 0)
    BY EmptySeq
  <1> QED
    BY <1>1, <1>2, <1>3, <1>4

(* ------------------------------ the queue -------------------------------- *)

Callers == {"idle", "connecting", "waiting", "ok", "duplicate", "failed"}
Rans == [web : [Ops -> Nat], telegram : [Updates -> Nat]]

LEMMA SameSets ==
  ASSUME asked' = asked
  PROVE  Ops' = Ops /\ Updates' = Updates /\ Entries' = Entries /\ Rans' = Rans
  BY DEF Ops, Updates, Entries, Rans, Tg

(* An entry of the queue is a web request or an update.                      *)
LEMMA EntryIs ==
  ASSUME NEW e \in Entries
  PROVE  /\ e[1] \in {"web", "telegram"} /\ e # Nobody
         /\ e[1] = "web" => e[2] \in Ops /\ \E o \in Ops, k \in 1..MaxSends : e = <<"web", o, k>>
         /\ e[1] = "telegram" => e[2] \in Updates /\ e = Tg(e[2])
  BY DEF Entries, Tg, Nobody

LEMMA HolderIs ==
  ASSUME TypeOK, lock # <<>>
  PROVE  /\ Holder = lock[1] /\ Holder \in Entries /\ 1 \in DOMAIN lock
         /\ Holder[1] \in {"web", "telegram"} /\ Holder # Nobody
         /\ Holder[1] = "web" => Holder[2] \in Ops
         /\ Holder[1] = "telegram" => Holder[2] \in Updates /\ Holder = Tg(Holder[2])
  <1>1. Holder = lock[1] /\ lock[1] \in Entries /\ 1 \in DOMAIN lock
    BY WithoutFirst DEF Holder, TypeOK
  <1> QED
    BY <1>1, EntryIs

(* A command is carried out: one count of its holder goes up.                *)
LEMMA CarriedCounts ==
  ASSUME TypeOK, lock # <<>>, Carried
  PROVE  /\ ran' \in Rans
         /\ \A o \in Ops : ran'.web[o] = ran.web[o] \/ (Holder[1] = "web" /\ Holder[2] = o)
         /\ \A u \in Updates : ran'.telegram[u] >= ran.telegram[u]
         /\ \A u \in Updates : ran'.telegram[u] = ran.telegram[u] \/ (Holder[1] = "telegram" /\ Holder[2] = u)
         /\ Holder[1] = "telegram" => ran'.telegram[Holder[2]] > 0
  <1>1. ran \in Rans
    BY DEF TypeOK, Rans
  <1>2. CASE Holder[1] = "web"
    <2>1. Holder[2] \in Ops
      BY <1>2, HolderIs
    <2>2. ran' = [ran EXCEPT !.web = [ran.web EXCEPT ![Holder[2]] = ran.web[Holder[2]] + 1]]
      BY <1>2, <1>1 DEF Carried, Rans
    <2> HIDE DEF Ops, Updates, Holder
    <2>3. ran.web \in [Ops -> Nat] /\ ran.telegram \in [Updates -> Nat]
      BY <1>1 DEF Rans
    <2>4. [ran.web EXCEPT ![Holder[2]] = ran.web[Holder[2]] + 1] \in [Ops -> Nat]
      BY <2>1, <2>3
    <2>5. ran' \in Rans /\ ran'.web = [ran.web EXCEPT ![Holder[2]] = ran.web[Holder[2]] + 1] /\ ran'.telegram = ran.telegram
      BY <1>1, <2>2, <2>4 DEF Rans
    <2> QED
      BY <1>2, <2>1, <2>3, <2>5
  <1>3. CASE Holder[1] = "telegram"
    <2>1. Holder[2] \in Updates
      BY <1>3, HolderIs
    <2>2. ran' = [ran EXCEPT !.telegram = [ran.telegram EXCEPT ![Holder[2]] = ran.telegram[Holder[2]] + 1]]
      BY <1>3, <1>1 DEF Carried, Rans
    <2> HIDE DEF Ops, Updates, Holder
    <2>3. ran.web \in [Ops -> Nat] /\ ran.telegram \in [Updates -> Nat]
      BY <1>1 DEF Rans
    <2>4. [ran.telegram EXCEPT ![Holder[2]] = ran.telegram[Holder[2]] + 1] \in [Updates -> Nat]
      BY <2>1, <2>3
    <2>5. ran' \in Rans /\ ran'.telegram = [ran.telegram EXCEPT ![Holder[2]] = ran.telegram[Holder[2]] + 1] /\ ran'.web = ran.web
      BY <1>1, <2>2, <2>4 DEF Rans
    <2> QED
      BY <1>3, <2>1, <2>3, <2>5
  <1> QED
    BY <1>2, <1>3, HolderIs

(* The holder answers, unless nobody waits for it any more.                  *)
LEMMA AnswerTells ==
  ASSUME TypeOK, lock # <<>>, NEW what \in {"ok", "duplicate", "failed"}, Answer(what)
  PROVE  /\ caller' \in [Ops -> Callers] /\ sends' = sends
         /\ serving' = Nobody \/ (serving' = serving /\ serving # Holder)
         /\ \A o \in Ops : caller'[o] = "connecting" => caller[o] = "connecting"
  <1>1. caller \in [Ops -> Callers]
    BY DEF TypeOK, Callers
  <1>2. CASE serving = Holder
    <2>1. Holder[1] = "web"
      BY <1>2, HolderIs DEF TypeOK
    <2>2. Holder[2] \in Ops
      BY <2>1, HolderIs
    <2>3. /\ caller' = [caller EXCEPT ![Holder[2]] = IF @ = "waiting" THEN what ELSE @]
          /\ serving' = Nobody /\ sends' = sends
      BY <1>2 DEF Answer
    <2> HIDE DEF Ops, Holder
    <2> QED
      BY <1>1, <2>2, <2>3 DEF Callers
  <1>3. CASE serving # Holder
    BY <1>1, <1>3 DEF Answer, senders
  <1> QED
    BY <1>2, <1>3

(* The lock goes to who waits next.                                          *)
LEMMA ReleasePasses ==
  ASSUME TypeOK, lock # <<>>, Release
  PROVE  /\ lock' \in Seq(Entries)
         /\ run' \in Runs /\ ~run'.spawned /\ ~run'.ready /\ run'.base = 0 /\ run'.foreign = 0
         /\ run'.stage \in {"idle", "entered"} /\ (lock' = <<>>) = (run'.stage = "idle")
         /\ DOMAIN lock = 1..Len(lock) /\ Len(lock) \in Nat /\ DOMAIN lock' = 1..(Len(lock) - 1)
         /\ \A i \in DOMAIN lock' : lock'[i] = lock[i + 1] /\ i + 1 \in DOMAIN lock
  <1>1. lock \in Seq(Entries) /\ lock' = Tail(lock)
    BY DEF TypeOK, Release
  <1>2. run' = IF Len(lock) > 1 THEN Entered ELSE Idle
    BY DEF Release, Entered
  <1>3. run' = IF lock' = <<>> THEN Idle ELSE Entered
    BY <1>1, <1>2, WithoutFirst
  <1> QED
    BY <1>1, <1>3, WithoutFirst, Blank

(* Who comes takes its place behind the others.                              *)
Entering(e) ==
  /\ lock' = Append(lock, e)
  /\ run' = IF lock = <<>> THEN Entered ELSE run

LEMMA EnteringQueues ==
  ASSUME TypeOK, NEW e \in Entries, Entering(e)
  PROVE  /\ lock' \in Seq(Entries) /\ lock' # <<>> /\ run' \in Runs
         /\ lock = <<>> => run' = Entered
         /\ lock # <<>> => run' = run /\ lock'[1] = lock[1]
         /\ DOMAIN lock = 1..Len(lock) /\ Len(lock) \in Nat /\ DOMAIN lock' = 1..(Len(lock) + 1)
         /\ lock'[Len(lock) + 1] = e /\ \A i \in DOMAIN lock : lock'[i] = lock[i]
         /\ lock = <<>> => lock'[1] = e
  BY WithLast, Blank DEF TypeOK, Entering

(* ------------------------ steps of the lock's holder --------------------- *)

(* The holder goes on; what was just carried out is counted.                 *)
GoesOn ==
  /\ lock # <<>> /\ lock' = lock /\ serving' = serving
  /\ caller' = caller /\ sends' = sends /\ loop' = loop
  /\ run' \in Runs /\ run'.stage \notin {"idle", "entered"}
  /\ Carried \/ (ran' = ran /\ run.stage # "entered")

Leaves ==
  /\ lock # <<>> /\ Release /\ ran' = ran
  /\ serving' = Nobody \/ (serving' = serving /\ serving # Holder)
  /\ caller' \in [Ops -> Callers] /\ sends' = sends
  /\ \A o \in Ops : caller'[o] = "connecting" => caller[o] = "connecting"
  /\ \/ Holder[1] = "web" /\ loop' = loop
     \/ Holder[1] = "telegram" /\ run.stage # "entered" /\ loop' = [loop EXCEPT !.at = "done"]

(* The rest of the state keeps its type.                                     *)
RestIsFormed ==
  /\ asked' = asked /\ up' = up /\ offset' = offset /\ telegram' = telegram
  /\ audited' \subseteq Ops /\ armed' \in BOOLEAN
  /\ live' \in Lives /\ api' \in Apis /\ rows' \in Evidences
  /\ trouble' \in 0..MaxTrouble /\ stopped' \in BOOLEAN

LEMMA HolderKeepsTypes ==
  ASSUME TypeOK, RestIsFormed, GoesOn \/ Leaves
  PROVE  TypeOK'
  <1>1. asked' = asked /\ Ops' = Ops /\ Updates' = Updates /\ Entries' = Entries /\ Rans' = Rans
    BY SameSets DEF RestIsFormed
  <1>2. caller' \in [Ops -> Callers] /\ sends' \in [Ops -> 0..MaxSends]
    BY DEF TypeOK, GoesOn, Leaves, Callers
  <1>3. serving' = Nobody \/ \E o \in Ops, k \in 1..MaxSends : serving' = <<"web", o, k>>
    BY DEF TypeOK, GoesOn, Leaves
  <1>4. lock' \in Seq(Entries) /\ run' \in Runs
    BY ReleasePasses DEF TypeOK, GoesOn, Leaves
  <1>5. loop' \in [at : Places, next : Nat, last : Nat, recent : SUBSET WebCommands]
    BY ZenonT(40) DEF TypeOK, GoesOn, Leaves, Places
  <1>6. ran' \in Rans
    BY CarriedCounts DEF TypeOK, GoesOn, Leaves, Rans
  <1>7. asked' \in Scripts /\ up' \in BOOLEAN /\ offset' \in [memory : Nat, file : Nat]
    BY DEF TypeOK, RestIsFormed
  <1>8. telegram' \in [sent : 0..Len(asked'.telegram), read : 0..Len(asked'.telegram)]
    BY <1>1 DEF TypeOK, RestIsFormed
  <1> HIDE DEF Ops, Updates, Entries, Rans
  <1>9. caller' \in [Ops' -> Callers] /\ sends' \in [Ops' -> 0..MaxSends]
    BY <1>1, <1>2
  <1>10. Nobody' = Nobody
    BY DEF Nobody
  <1> QED
    BY <1>1, <1>3, <1>4, <1>5, <1>6, <1>7, <1>8, <1>9, <1>10 DEF TypeOK, RestIsFormed, Callers, Rans

(* The parts of the state that a command may change, by type.                *)
LEMMA Parts ==
  ASSUME TypeOK
  PROVE  /\ run \in Runs /\ live \in Lives /\ api \in Apis /\ rows \in Evidences
         /\ audited \subseteq Ops /\ armed \in BOOLEAN /\ trouble \in 0..MaxTrouble /\ stopped \in BOOLEAN
         /\ Noted(live) \in Lives /\ Noted(api) \in Apis
         /\ Trouble => trouble' \in 0..MaxTrouble
         /\ caller \in [Ops -> Callers] /\ sends \in [Ops -> 0..MaxSends]
  BY NotedLive, NotedApi, ControlAssumption, SMTT(30) DEF TypeOK, Trouble, Callers

LEMMA DuplicateLeaves ==
  ASSUME TypeOK, ServedIsQueued, Duplicate
  PROVE  RestIsFormed /\ Leaves
  <1>1. lock # <<>> /\ Holder[1] = "web" /\ Answer("duplicate") /\ Release
    BY DEF Duplicate, Holds, Known
  <1>2. RestIsFormed
    BY Parts DEF Duplicate, RestIsFormed, records, children, history
  <1> QED
    BY <1>1, <1>2, AnswerTells DEF Duplicate, Leaves, history

LEMMA FinishLeaves ==
  ASSUME TypeOK, ServedIsQueued, Finish
  PROVE  RestIsFormed /\ Leaves
  <1>1. lock # <<>>
    BY DEF Finish, ServedIsQueued
  <1>2. PICK what \in {"ok", "failed"} : Answer(what)
    BY DEF Finish
  <1>3. Holder[1] = "web" /\ Holder[2] \in Ops
    BY <1>1, HolderIs DEF Finish
  <1>4. audited' \subseteq Ops /\ trouble' \in 0..MaxTrouble
    BY <1>3, Parts DEF Finish
  <1>5. RestIsFormed
    BY <1>4, Parts DEF Finish, RestIsFormed, NotesBoth, history
  <1> QED
    BY <1>1, <1>2, <1>3, <1>5, AnswerTells DEF Finish, Leaves, history

LEMMA FinishTelegramLeaves ==
  ASSUME TypeOK, ServedIsQueued, FinishTelegram
  PROVE  RestIsFormed /\ Leaves
  <1>1. lock # <<>>
    BY DEF FinishTelegram, ServedIsQueued
  <1>2. RestIsFormed
    BY Parts DEF FinishTelegram, RestIsFormed, records, children, history
  <1>3. serving' = serving /\ serving # Holder
    BY DEF FinishTelegram, senders, TypeOK, Nobody
  <1> QED
    BY <1>1, <1>2, <1>3, Parts DEF FinishTelegram, Leaves, senders, history

(* A step from a stage to a stage, in which nothing is carried out.          *)
LEMMA MovesOn ==
  ASSUME TypeOK, NEW s \in Stages \ {"idle", "entered"}, NEW t, t # "entered", Holds(t),
         run' = [run EXCEPT !.stage = s],
         UNCHANGED <<senders, lock, loop, ran>>
  PROVE  GoesOn
  BY SetStage, Parts DEF GoesOn, Holds, senders

(* The first step of a command.                                              *)
LEMMA CommandEnters ==
  ASSUME TypeOK, NEW s \in Stages \ {"idle", "entered"}, Holds("entered"),
         run' = [run EXCEPT !.stage = s], Carried,
         UNCHANGED <<senders, lock, loop>>
  PROVE  GoesOn
  BY SetStage, Parts DEF GoesOn, Holds, senders

LEMMA BoundaryKeeps ==
  ASSUME TypeOK, Boundary
  PROVE  rows' \in Evidences /\ rows'.by = rows.by /\ ~rows'.fresh
  <1>1. FALSE \in BOOLEAN
    BY Zenon
  <1> QED
    BY <1>1, Parts DEF Boundary, Evidences

LEMMA SwitchDemoGoesOn ==
  ASSUME TypeOK, SwitchDemo
  PROVE  RestIsFormed /\ GoesOn
  <1>1. armed' = (Command = "demo_on")
    BY DEF SwitchDemo
  <1>2. armed' \in BOOLEAN
    BY <1>1, Zenon
  <1>3. RestIsFormed
    BY <1>2, Parts DEF SwitchDemo, RestIsFormed, children
  <1>4. GoesOn
    BY CommandEnters DEF SwitchDemo, Ends, Stages
  <1> QED
    BY <1>3, <1>4

LEMMA StartEntersGoesOn ==
  ASSUME TypeOK, StartEnters
  PROVE  RestIsFormed /\ GoesOn
  <1>1. RestIsFormed
    BY BoundaryKeeps, Parts DEF StartEnters, RestIsFormed, NotesBoth, records
  <1>2. GoesOn
    BY CommandEnters DEF StartEnters, Stages
  <1> QED
    BY <1>1, <1>2

(* Live after the stop of a command.                                         *)
LEMMA StopTouches ==
  ASSUME TypeOK,
         \/ live' = Stopped(live) /\ UNCHANGED trouble
         \/ live.up /\ Trouble /\ live' = [live EXCEPT !.wanted = FALSE]
  PROVE  /\ live' \in Lives /\ trouble' \in 0..MaxTrouble /\ live'.inst = live.inst
         /\ ~live'.wanted /\ (live'.up => live.up)
  <1>1. FALSE \in BOOLEAN
    BY Zenon
  <1>2. CASE live' = Stopped(live) /\ UNCHANGED trouble
    BY <1>2, StoppedLive, Parts
  <1>3. CASE Trouble /\ live.up /\ live' = [live EXCEPT !.wanted = FALSE]
    <2>1. live' \in Lives /\ live'.inst = live.inst /\ live'.up = live.up /\ live'.wanted = FALSE
      BY <1>1, <1>3, Parts, SetLive
    <2> QED
      BY <1>3, <2>1, Parts
  <1> QED
    BY <1>2, <1>3

LEMMA StopEntersGoesOn ==
  ASSUME TypeOK, StopEnters
  PROVE  RestIsFormed /\ GoesOn
  <1>1. live' \in Lives /\ trouble' \in 0..MaxTrouble
    BY StopTouches DEF StopEnters
  <1>2. stopped' = (~live'.up /\ api.up)
    BY DEF StopEnters
  <1>3. stopped' \in BOOLEAN
    BY <1>2, Zenon
  <1>4. RestIsFormed
    BY <1>1, <1>3, Parts DEF StopEnters, RestIsFormed, records
  <1>5. GoesOn
    BY CommandEnters DEF StopEnters, Ends, Stages
  <1> QED
    BY <1>4, <1>5

LEMMA RestartEntersGoesOn ==
  ASSUME TypeOK, RestartEnters
  PROVE  RestIsFormed /\ GoesOn
  <1>1. live' \in Lives /\ trouble' \in 0..MaxTrouble
    BY StopTouches DEF RestartEnters
  <1>2. stopped' \in BOOLEAN /\ rows' \in Evidences
    <2>1. TRUE \in BOOLEAN /\ FALSE \in BOOLEAN
      BY Zenon
    <2> QED
      BY <2>1, BoundaryKeeps, Parts DEF RestartEnters
  <1>3. RestIsFormed
    BY <1>1, <1>2, Parts DEF RestartEnters, RestIsFormed, records
  <1>4. CASE run' = [run EXCEPT !.stage = "mt5", !.base = live.inst]
    <2>1. live.inst \in 0..MaxSpawns
      BY Parts DEF Lives
    <2>2. run' \in Runs /\ run'.stage = "mt5"
      BY <1>4, <2>1, Parts DEF Runs, Stages
    <2> QED
      BY <1>3, <2>2 DEF RestartEnters, GoesOn, Holds, senders
  <1>5. CASE run' = [run EXCEPT !.stage = "done"]
    BY <1>3, <1>5, CommandEnters DEF RestartEnters, Stages
  <1> QED
    BY <1>3, <1>4, <1>5 DEF RestartEnters, Ends

LEMMA WaitingGoesOn ==
  ASSUME TypeOK, Mt5Ready \/ AlreadyRuns \/ NotHealthy \/ Verified \/ NotYet \/ RollBack \/ VerifyReads
  PROVE  RestIsFormed /\ GoesOn
  <1>1. CASE Mt5Ready
    <2>1. RestIsFormed
      BY <1>1, Parts DEF Mt5Ready, RestIsFormed, NotesBoth, records, history
    <2>2. GoesOn
      BY <1>1, MovesOn DEF Mt5Ready, Ends, Stages, history
    <2> QED
      BY <2>1, <2>2
  <1>2. CASE AlreadyRuns \/ NotHealthy
    <2>1. RestIsFormed
      BY <1>2, Parts DEF AlreadyRuns, NotHealthy, RestIsFormed, NotesBoth, records, history
    <2>2. GoesOn
      BY <1>2, MovesOn DEF AlreadyRuns, NotHealthy, Ends, Stages, history
    <2> QED
      BY <2>1, <2>2
  <1>3. CASE Verified
    <2>1. RestIsFormed
      BY <1>3, Parts DEF Verified, RestIsFormed, NotesBoth, records, history
    <2>2. TRUE \in BOOLEAN
      BY Zenon
    <2>3. run' \in Runs /\ run'.stage = "done"
      BY <1>3, <2>2, Parts DEF Verified, Runs, Stages
    <2> QED
      BY <1>3, <2>1, <2>3 DEF Verified, GoesOn, Holds, senders, history
  <1>4. CASE NotYet
    <2>1. RestIsFormed
      BY <1>4, Parts DEF NotYet, RestIsFormed, NotesBoth, records, history
    <2>2. GoesOn
      BY <1>4, MovesOn DEF NotYet, Stages, history
    <2> QED
      BY <2>1, <2>2
  <1>5. CASE RollBack
    <2>1. RestIsFormed
      BY <1>5, Parts, StoppedLive DEF RollBack, RestIsFormed, records, history
    <2>2. GoesOn
      BY <1>5, MovesOn DEF RollBack, Ends, Stages, history
    <2> QED
      BY <2>1, <2>2
  <1>6. CASE VerifyReads
    <2>1. RestIsFormed
      BY <1>6, Parts DEF VerifyReads, RestIsFormed, NotesBoth, records, history
    <2>2. (live.up /\ live.wanted) \in BOOLEAN
      BY Zenon
    <2>3. run' \in Runs /\ run'.stage = "probe"
      BY <1>6, <2>2, Parts DEF VerifyReads, Runs, Stages
    <2> QED
      BY <1>6, <2>1, <2>3 DEF VerifyReads, GoesOn, Holds, senders, history
  <1> QED
    BY <1>1, <1>2, <1>3, <1>4, <1>5, <1>6

(* Live after the step that starts the children, and whose it then is.       *)
LEMMA SpawnTouches ==
  ASSUME TypeOK, SpawnChildren
  PROVE  /\ live' \in Lives /\ api' \in Apis /\ trouble' \in 0..MaxTrouble /\ stopped' \in BOOLEAN
         /\ run' \in Runs /\ run'.stage \in {"verify", "done"} /\ run'.base = run.base
         /\ live'.inst >= live.inst /\ (live.up => live'.inst = live.inst)
         /\ (live'.up /\ ~live.up => live'.inst > live.inst)
         /\ (run.spawned => run.foreign = 0) => (run'.spawned => run'.foreign = 0)
         /\ (stopped => ~live.up /\ ~live.wanted) => (stopped' => ~live'.up /\ ~live'.wanted)
         /\ run'.stage = "done" /\ live.up => live'.up
         /\ run'.ready = run.ready
  <1>1. TRUE \in BOOLEAN /\ FALSE \in BOOLEAN /\ (api.watched \/ ~api.up) \in BOOLEAN /\ (~live.up) \in BOOLEAN
    BY Zenon
  <1>2. /\ run \in Runs /\ live \in Lives /\ api \in Apis /\ stopped \in BOOLEAN
        /\ live.inst \in 0..MaxSpawns /\ MaxSpawns \in Nat /\ live.up \in BOOLEAN
    BY Parts, ControlAssumption DEF Lives
  <1>3. CASE /\ live.up \/ live.inst < MaxSpawns
             /\ live' = IF live.up THEN [live EXCEPT !.wanted = TRUE] ELSE Spawned(live)
             /\ api' = [up |-> TRUE, watched |-> api.watched \/ ~api.up]
             /\ run' = [run EXCEPT !.stage = "verify", !.spawned = Own(live),
                                   !.foreign = IF live.up THEN live.inst ELSE 0]
             /\ stopped' = FALSE /\ UNCHANGED trouble
    <2>1. api' \in Apis
      BY <1>1, <1>3 DEF Apis
    <2>4. trouble' \in 0..MaxTrouble /\ stopped' \in BOOLEAN /\ ~stopped'
      BY <1>1, <1>3, Parts
    <2>2. CASE live.up
      <3>1. live' \in Lives /\ live'.inst = live.inst /\ (FALSE => live.inst < live'.inst)
        BY <1>1, <1>2, <1>3, <2>2, SetLive
      <3>2. (~live.up) = FALSE
        BY <1>2, <2>2, Zenon
      <3>3. run' = [run EXCEPT !.stage = "verify", !.spawned = FALSE, !.foreign = live.inst]
        BY <1>3, <2>2, <3>2 DEF Own
      <3>4. /\ run' \in Runs /\ run'.stage = "verify" /\ run'.base = run.base /\ run'.ready = run.ready
            /\ ~run'.spawned
        BY <1>1, <1>2, <3>3 DEF Runs, Stages
      <3> QED
        BY <1>2, <2>1, <2>4, <2>2, <3>1, <3>4
    <2>3. CASE ~live.up
      <3>1. live' \in Lives /\ live'.inst = live.inst + 1 /\ (TRUE => live.inst < live'.inst)
        BY <1>1, <1>2, <1>3, <2>3, SpawnedLive
      <3>2. (~live.up) = TRUE
        BY <1>2, <2>3, Zenon
      <3>3. run' = [run EXCEPT !.stage = "verify", !.spawned = TRUE, !.foreign = 0]
        BY <1>3, <2>3, <3>2 DEF Own
      <3>4. /\ run' \in Runs /\ run'.stage = "verify" /\ run'.base = run.base /\ run'.ready = run.ready
            /\ run'.foreign = 0
        <4>1. 0 \in 0..MaxSpawns
          BY <1>2
        <4> QED
          BY <1>1, <1>2, <3>3, <4>1 DEF Runs, Stages
      <3> QED
        BY <1>2, <2>1, <2>4, <2>3, <3>1, <3>4
    <2> QED
      BY <2>2, <2>3
  <1>4. CASE /\ Trouble /\ Ends /\ (live.up \/ live.inst < MaxSpawns)
             /\ live' = IF Own(live) THEN Stopped([live EXCEPT !.inst = IF live.up THEN @ ELSE @ + 1])
                        ELSE [live EXCEPT !.wanted = TRUE]
             /\ api' = [up |-> TRUE, watched |-> api.watched \/ ~api.up]
             /\ UNCHANGED stopped
    <2>1. api' \in Apis
      BY <1>1, <1>4 DEF Apis
    <2>2. run' \in Runs /\ run'.stage = "done" /\ run'.base = run.base /\ run'.ready = run.ready
          /\ run'.spawned = run.spawned /\ run'.foreign = run.foreign
      BY <1>2, <1>4, SetStage DEF Ends, Stages
    <2>3. CASE live.up
      <3>1. live' \in Lives /\ live'.inst = live.inst /\ live'.up
        BY <1>1, <1>2, <1>4, <2>3, SetLive DEF Own
      <3> QED
        BY <1>1, <1>2, <1>4, <2>1, <2>2, <2>3, <3>1, Parts
    <2>4. CASE ~live.up
      <3> DEFINE l == [live EXCEPT !.inst = live.inst + 1]
      <3>1. l \in Lives /\ l.inst = live.inst + 1
        BY <1>2, <1>4, <2>4 DEF Lives
      <3>2. live' = Stopped(l)
        BY <1>2, <1>4, <2>4 DEF Own, Lives
      <3> HIDE DEF l
      <3>3. live' \in Lives /\ live'.inst = live.inst + 1 /\ ~live'.up /\ ~live'.wanted
        BY <3>1, <3>2, StoppedLive
      <3> QED
        BY <1>1, <1>2, <1>4, <2>1, <2>2, <2>4, <3>3, Parts
    <2> QED
      BY <2>3, <2>4
  <1>5. CASE /\ Trouble /\ Ends
             /\ live' = Noted(live) /\ api' = [up |-> FALSE, watched |-> FALSE] /\ ~api.up
             /\ UNCHANGED stopped
    <2>1. api' \in Apis
      BY <1>1, <1>5 DEF Apis
    <2>2. run' \in Runs /\ run'.stage = "done" /\ run'.base = run.base /\ run'.ready = run.ready
          /\ run'.spawned = run.spawned /\ run'.foreign = run.foreign
      BY <1>2, <1>5, SetStage DEF Ends, Stages
    <2> QED
      BY <1>2, <1>5, <2>1, <2>2, NotedLive, Parts
  <1>6. CASE /\ ~live.up /\ live.inst = MaxSpawns
             /\ Ends /\ NotesBoth /\ UNCHANGED <<stopped, trouble>>
    <2>1. run' \in Runs /\ run'.stage = "done" /\ run'.base = run.base /\ run'.ready = run.ready
          /\ run'.spawned = run.spawned /\ run'.foreign = run.foreign
      BY <1>2, <1>6, SetStage DEF Ends, Stages
    <2> QED
      BY <1>2, <1>6, <2>1, NotedLive, Parts DEF NotesBoth
  <1> QED
    BY <1>3, <1>4, <1>5, <1>6 DEF SpawnChildren

LEMMA SpawnChildrenGoesOn ==
  ASSUME TypeOK, SpawnChildren
  PROVE  RestIsFormed /\ GoesOn
  <1>1. RestIsFormed
    BY SpawnTouches, Parts DEF SpawnChildren, RestIsFormed, records
  <1> QED
    BY <1>1, SpawnTouches DEF SpawnChildren, GoesOn, Holds, senders

LEMMA LockedStep ==
  ASSUME TypeOK, ServedIsQueued, Locked
  PROVE  TypeOK' /\ RestIsFormed /\ (GoesOn \/ Leaves)
  <1>1. RestIsFormed /\ (GoesOn \/ Leaves)
    BY DuplicateLeaves, FinishLeaves, FinishTelegramLeaves, SwitchDemoGoesOn, StartEntersGoesOn,
       StopEntersGoesOn, RestartEntersGoesOn, WaitingGoesOn, SpawnChildrenGoesOn DEF Locked
  <1> QED
    BY <1>1, HolderKeepsTypes

(* -------------------------- steps of the others -------------------------- *)

(* The state outside the queue of the lock and the loop keeps its type.      *)
Loops == [at : Places, next : Nat, last : Nat, recent : SUBSET WebCommands]
ElseIsFormed ==
  /\ asked' = asked /\ up' \in BOOLEAN
  /\ caller' \in [Ops -> Callers] /\ sends' \in [Ops -> 0..MaxSends]
  /\ serving' = Nobody \/ \E o \in Ops, k \in 1..MaxSends : serving' = <<"web", o, k>>
  /\ audited' \subseteq Ops /\ armed' \in BOOLEAN
  /\ live' \in Lives /\ api' \in Apis /\ rows' \in Evidences
  /\ trouble' \in 0..MaxTrouble /\ stopped' \in BOOLEAN

LoopIsFormed ==
  /\ loop' \in Loops /\ offset' \in [memory : Nat, file : Nat]
  /\ telegram' \in [sent : 0..Len(asked.telegram), read : 0..Len(asked.telegram)]
  /\ ran' \in Rans

LEMMA FormedKeepsTypes ==
  ASSUME TypeOK, ElseIsFormed, LoopIsFormed, lock' \in Seq(Entries), run' \in Runs
  PROVE  TypeOK'
  <1>1. asked' = asked /\ Ops' = Ops /\ Updates' = Updates /\ Entries' = Entries /\ Rans' = Rans
    BY SameSets DEF ElseIsFormed
  <1>2. asked' \in Scripts /\ Nobody' = Nobody
    BY <1>1 DEF TypeOK, Nobody
  <1>3. telegram' \in [sent : 0..Len(asked'.telegram), read : 0..Len(asked'.telegram)]
    BY <1>1 DEF LoopIsFormed
  <1> HIDE DEF Ops, Updates, Entries, Rans
  <1> QED
    BY <1>1, <1>2, <1>3 DEF TypeOK, ElseIsFormed, LoopIsFormed, Loops, Callers, Rans

(* What a step that leaves a part alone keeps of its type.                   *)
LEMMA Kept ==
  ASSUME TypeOK
  PROVE  /\ lock \in Seq(Entries) /\ loop \in Loops /\ ran \in Rans /\ up \in BOOLEAN
         /\ offset \in [memory : Nat, file : Nat]
         /\ telegram \in [sent : 0..Len(asked.telegram), read : 0..Len(asked.telegram)]
         /\ serving = Nobody \/ \E o \in Ops, k \in 1..MaxSends : serving = <<"web", o, k>>
         /\ Len(asked.telegram) \in Nat /\ Updates = 1..Len(asked.telegram)
         /\ \A u \in Updates : asked.telegram[u] \in WebCommands \cup {"foreign"}
  <1>1. asked.telegram \in Seq(WebCommands \cup {"foreign"})
    BY ControlAssumption DEF TypeOK
  <1>2. Len(asked.telegram) \in Nat /\ Updates = 1..Len(asked.telegram)
    BY <1>1, LenProperties DEF Updates
  <1>3. \A u \in Updates : asked.telegram[u] \in WebCommands \cup {"foreign"}
    BY <1>1, <1>2, ElementOfSeq
  <1> QED
    BY <1>2, <1>3 DEF TypeOK, Loops, Rans

(* Neither the queue nor the loop moves.                                     *)
Aside ==
  /\ lock' = lock /\ serving' \in {serving, Nobody}
  /\ run' \in Runs /\ run'.stage = run.stage
  /\ asked' = asked /\ up' = up /\ loop' = loop /\ offset' = offset /\ ran' = ran
  /\ telegram'.read = telegram.read /\ telegram'.sent >= telegram.sent
  /\ \A o \in Ops : caller'[o] = "connecting" => sends'[o] # 0
  /\ \A o \in Ops : sends'[o] >= sends[o]

LEMMA ProcessSteps ==
  ASSUME TypeOK, SentOnce, LiveCrashes \/ ApiCrashes \/ LiveReports \/ Status
  PROVE  TypeOK' /\ Aside
  <1>1. Aside
    BY Parts, Kept
    DEF LiveCrashes, ApiCrashes, LiveReports, Status, Aside, SentOnce, senders, history, records, Callers
  <1>2. TRUE \in BOOLEAN /\ FALSE \in BOOLEAN
    BY Zenon
  <1>3. ElseIsFormed
    <2>1. CASE LiveCrashes
      <3>1. live' \in Lives
        BY <1>2, <2>1, Parts, SetLive DEF LiveCrashes
      <3> QED
        BY <2>1, <3>1, Parts, Kept DEF LiveCrashes, ElseIsFormed, senders, records, history
    <2>2. CASE ApiCrashes
      <3>1. api' \in Apis
        BY <1>2, <2>2, Parts DEF ApiCrashes, Apis
      <3>2. caller' \in [Ops -> Callers]
        BY <2>2, Parts DEF ApiCrashes, Callers
      <3> QED
        BY <2>2, <3>1, <3>2, Parts, Kept DEF ApiCrashes, ElseIsFormed, records, history
    <2>3. CASE LiveReports
      <3>3. live.inst \in 0..MaxSpawns
        BY Parts DEF Lives
      <3>2. rows' = [by |-> live.inst, fresh |-> TRUE, linked |-> TRUE] \/ rows' = [rows EXCEPT !.linked = FALSE]
        BY <2>3 DEF LiveReports
      <3>1. rows' \in Evidences
        <4>1. CASE rows' = [by |-> live.inst, fresh |-> TRUE, linked |-> TRUE]
          BY <1>2, <3>3, <4>1 DEF Evidences
        <4>2. CASE rows' = [rows EXCEPT !.linked = FALSE]
          BY <1>2, <4>2, Parts DEF Evidences
        <4> QED
          BY <3>2, <4>1, <4>2
      <3> QED
        BY <2>3, <3>1, Parts, Kept DEF LiveReports, ElseIsFormed, senders, records, history
    <2>4. CASE Status
      BY <2>4, Parts, Kept DEF Status, NotesBoth, ElseIsFormed, senders, records, history
    <2> QED
      BY <2>1, <2>2, <2>3, <2>4
  <1>4. LoopIsFormed /\ lock' \in Seq(Entries) /\ run' \in Runs
    BY Parts, Kept DEF LiveCrashes, ApiCrashes, LiveReports, Status, LoopIsFormed, history
  <1> QED
    BY <1>1, <1>3, <1>4, FormedKeepsTypes

LEMMA RequestSteps ==
  ASSUME TypeOK, SentOnce,
         (\E o \in Ops : Send(o) \/ Refused(o) \/ CallerGivesUp(o)) \/ ServerGivesUp
  PROVE  TypeOK' /\ Aside
  <1>1. LoopIsFormed /\ lock' \in Seq(Entries) /\ run' \in Runs
    BY Parts, Kept DEF Send, Refused, CallerGivesUp, ServerGivesUp, LoopIsFormed, history
  <1>2. CASE \E o \in Ops : Send(o)
    <2>1. PICK o \in Ops : Send(o)
      BY <1>2
    <2>2. caller' \in [Ops -> Callers] /\ sends' \in [Ops -> 0..MaxSends] /\ sends'[o] # 0
          /\ \A p \in Ops : caller'[p] = "connecting" => p = o \/ caller[p] = "connecting"
      BY <2>1, Parts, ControlAssumption DEF Send, Callers
    <2>3. \A p \in Ops : sends'[p] >= sends[p]
      BY <2>1, Parts, ControlAssumption DEF Send
    <2>4. ElseIsFormed
      BY <2>1, <2>2, Parts, Kept DEF Send, ElseIsFormed, records, children, history
    <2>5. Aside
      BY <2>1, <2>2, <2>3, Parts, Kept DEF Send, Aside, SentOnce, history
    <2> QED
      BY <1>1, <2>4, <2>5, FormedKeepsTypes
  <1>3. CASE (\E o \in Ops : Refused(o) \/ CallerGivesUp(o)) \/ ServerGivesUp
    <2>1. /\ caller' \in [Ops -> Callers] /\ sends' = sends /\ serving' \in {serving, Nobody}
          /\ \A p \in Ops : caller'[p] = "connecting" => caller[p] = "connecting"
      BY <1>3, Parts DEF Refused, CallerGivesUp, ServerGivesUp, Callers
    <2>2. ElseIsFormed
      BY <1>3, <2>1, Parts, Kept
      DEF Refused, CallerGivesUp, ServerGivesUp, ElseIsFormed, records, children, history
    <2>3. Aside
      BY <1>3, <2>1, Parts, Kept DEF Refused, CallerGivesUp, ServerGivesUp, Aside, SentOnce, history
    <2> QED
      BY <1>1, <2>2, <2>3, FormedKeepsTypes
  <1> QED
    BY <1>2, <1>3

LEMMA ClockAndOperatorSteps ==
  ASSUME TypeOK, SentOnce, DeadlinePasses \/ Operator
  PROVE  TypeOK' /\ Aside
  <1>1. TRUE \in BOOLEAN
    BY Zenon
  <1>2. run' \in Runs /\ run'.stage = run.stage /\ lock' = lock
    BY <1>1, Parts DEF DeadlinePasses, Operator, Runs
  <1>3. telegram' \in [sent : 0..Len(asked.telegram), read : 0..Len(asked.telegram)]
        /\ telegram'.read = telegram.read /\ telegram'.sent >= telegram.sent
    BY Kept DEF DeadlinePasses, Operator
  <1>4. ElseIsFormed /\ LoopIsFormed
    BY <1>3, Parts, Kept
    DEF DeadlinePasses, Operator, ElseIsFormed, LoopIsFormed, senders, records, children, history
  <1>5. Aside
    BY <1>2, <1>3, Parts, Kept DEF DeadlinePasses, Operator, Aside, SentOnce, senders, history
  <1> QED
    BY <1>2, <1>4, <1>5, Kept, FormedKeepsTypes

LEMMA AcceptStep ==
  ASSUME TypeOK, SentOnce, NEW o \in Ops, Accept(o)
  PROVE  /\ TypeOK' /\ SentOnce' /\ Web(o) \in Entries /\ Entering(Web(o)) /\ serving' = Web(o)
         /\ UNCHANGED <<asked, up, loop, offset, telegram, ran>>
  <1>1. sends[o] \in 1..MaxSends
    BY Parts, ControlAssumption DEF SentOnce, Accept
  <1>2. Web(o) \in Entries /\ serving' = Web(o) /\ Entering(Web(o))
    BY <1>1 DEF Web, Entries, Accept, Entering, Entered
  <1>3. \E p \in Ops, k \in 1..MaxSends : serving' = <<"web", p, k>>
    BY <1>1, <1>2 DEF Web
  <1>4. caller' \in [Ops -> Callers] /\ \A p \in Ops : caller'[p] = "connecting" => caller[p] = "connecting"
    BY Parts DEF Accept, Callers
  <1>5. lock' \in Seq(Entries) /\ run' \in Runs
    BY <1>2, EnteringQueues, Parts
  <1>6. ElseIsFormed /\ LoopIsFormed
    BY <1>3, <1>4, Parts, Kept DEF Accept, ElseIsFormed, LoopIsFormed, records, children, history
  <1>7. UNCHANGED <<asked, up, loop, offset, telegram, ran, sends>>
    BY DEF Accept, history
  <1>8. SentOnce'
    BY <1>4, <1>7, SameSets DEF SentOnce
  <1> QED
    BY <1>2, <1>5, <1>6, <1>7, <1>8, FormedKeepsTypes

LEMMA BootingLoop == Booting \in Loops /\ Booting.at = "boot" /\ Booting.next = 1 /\ Booting.recent = {}
  BY DEF Booting, Loops, Places

LEMMA ControlEndsStep ==
  ASSUME TypeOK, ControlEnds
  PROVE  /\ TypeOK' /\ SentOnce' /\ lock' = <<>> /\ serving' = Nobody /\ run' = Idle /\ loop' = Booting
         /\ ~up' /\ offset'.memory = 1 /\ offset'.file = offset.file
         /\ UNCHANGED <<asked, telegram, ran>>
         /\ live'.inst = live.inst /\ live'.up = live.up /\ live'.wanted = live.wanted /\ rows' = rows /\ stopped' = stopped
  <1>1. TRUE \in BOOLEAN /\ FALSE \in BOOLEAN
    BY Zenon
  <1>2. live' = [live EXCEPT !.watched = FALSE] /\ api' = [api EXCEPT !.watched = FALSE]
    BY DEF ControlEnds
  <1>3. live' \in Lives /\ live'.inst = live.inst /\ live'.up = live.up /\ live'.wanted = live.wanted
    BY <1>1, <1>2, SetLive, Parts
  <1>4. api' \in Apis
    BY <1>1, <1>2, Parts DEF Apis
  <1>5. caller' \in [Ops -> Callers] /\ \A o \in Ops : caller'[o] # "connecting"
    BY Parts DEF ControlEnds, Callers
  <1>6. offset' \in [memory : Nat, file : Nat] /\ offset'.memory = 1 /\ offset'.file = offset.file
    BY Kept DEF ControlEnds
  <1>7. ElseIsFormed
    BY <1>1, <1>3, <1>4, <1>5, Parts DEF ControlEnds, ElseIsFormed, records, history
  <1>8. LoopIsFormed
    BY <1>6, BootingLoop, Kept DEF ControlEnds, LoopIsFormed, history
  <1>9. lock' \in Seq(Entries) /\ run' \in Runs
    BY Blank, EmptySeq DEF ControlEnds
  <1>10. SentOnce'
    BY <1>5, SameSets DEF ControlEnds, SentOnce
  <1> QED
    BY <1>3, <1>6, <1>7, <1>8, <1>9, <1>10, FormedKeepsTypes DEF ControlEnds, history

LEMMA ControlStartsStep ==
  ASSUME TypeOK, ControlStarts
  PROVE  /\ TypeOK' /\ offset'.memory = offset.file /\ offset'.file = offset.file
         /\ UNCHANGED <<asked, senders, lock, run, loop, telegram, ran, live, rows, stopped>>
  <1>1. TRUE \in BOOLEAN
    BY Zenon
  <1>2. offset' \in [memory : Nat, file : Nat] /\ offset'.memory = offset.file /\ offset'.file = offset.file
    BY Kept DEF ControlStarts
  <1>3. UNCHANGED <<asked, senders, lock, run, loop, telegram, records, children, trouble, history>>
    BY DEF ControlStarts
  <1>4. ElseIsFormed /\ LoopIsFormed
    BY <1>1, <1>2, <1>3, Parts, Kept
    DEF ControlStarts, ElseIsFormed, LoopIsFormed, senders, records, children, history
  <1> QED
    BY <1>2, <1>3, <1>4, Parts, Kept, FormedKeepsTypes DEF children, history

(* ------------------------------- the loop -------------------------------- *)

(* The loop moves, and leaves the queue and who holds the lock alone.        *)
LoopMoves ==
  /\ lock' = lock /\ run' = run /\ serving' = serving /\ caller' = caller /\ sends' = sends
  /\ asked' = asked /\ up /\ up' = up /\ loop.at # "locked" /\ loop'.at # "locked"

LEMMA ChildrenSteps ==
  ASSUME TypeOK, EnsureApi \/ Monitor \/ FetchFails
  PROVE  /\ TypeOK' /\ LoopMoves /\ UNCHANGED <<offset, telegram, ran>>
         /\ loop.at \in {"boot", "monitor", "fetch"} /\ loop'.at \in {"monitor", "fetch"} /\ loop'.recent = loop.recent
  <1>1. /\ loop' \in Loops /\ loop.at \in {"boot", "monitor", "fetch"} /\ loop'.at \in {"monitor", "fetch"}
        /\ loop'.recent = loop.recent
    BY Kept DEF EnsureApi, Monitor, FetchFails, Loops, Places
  <1>2. LoopMoves /\ UNCHANGED <<offset, telegram, ran>>
    BY <1>1 DEF EnsureApi, Monitor, FetchFails, LoopFree, LoopMoves, senders, history
  <1>3. TRUE \in BOOLEAN
    BY Zenon
  <1>4. live' \in Lives /\ api' \in Apis
    <2>1. CASE EnsureApi
      <3>1. (api.watched \/ ~api.up) \in BOOLEAN
        BY Zenon
      <3> QED
        BY <1>3, <2>1, <3>1, NotedLive, Parts DEF EnsureApi, Apis
    <2>2. CASE Monitor
      <3>1. (api.up \/ api.watched) \in BOOLEAN
        BY Zenon
      <3> QED
        BY <2>2, <3>1, RestartedLive, Parts DEF Monitor, Apis
    <2>3. CASE FetchFails
      BY <2>3, Parts DEF FetchFails, children
    <2> QED
      BY <2>1, <2>2, <2>3
  <1>5. ElseIsFormed
    BY <1>2, <1>4, Parts, Kept
    DEF EnsureApi, Monitor, FetchFails, LoopMoves, ElseIsFormed, records, children, history
  <1>6. LoopIsFormed
    BY <1>1, <1>2, Kept DEF LoopIsFormed
  <1> QED
    BY <1>1, <1>2, <1>5, <1>6, Parts, Kept, FormedKeepsTypes DEF LoopMoves

LEMMA SetPlace ==
  ASSUME NEW l \in Loops, NEW p \in Places, NEW x, x = [l EXCEPT !.at = p]
  PROVE  x \in Loops /\ x.at = p /\ x.next = l.next /\ x.last = l.last /\ x.recent = l.recent
  BY DEF Loops

(* A step of the loop outside its children: the processes are left alone.    *)
LoopAlone == UNCHANGED <<live, api, rows, audited, stopped>>

LEMMA FetchStep ==
  ASSUME TypeOK, OffsetsInOrder, Fetch
  PROVE  /\ TypeOK' /\ LoopMoves /\ LoopAlone /\ UNCHANGED <<offset, ran>>
         /\ loop.at = "fetch" /\ loop'.recent = loop.recent
         /\ telegram'.sent = telegram.sent /\ telegram'.read <= telegram.sent
         /\ telegram'.read \in Nat
         /\ telegram'.read < offset.memory \/ telegram'.read = telegram.read
         /\ offset.memory <= telegram'.read + 1
         /\ \/ loop'.at = "monitor"
            \/ /\ loop'.at = "handle" /\ loop'.next = telegram'.read + 1 /\ loop'.last = telegram.sent
               /\ telegram'.read < telegram.sent
  <1> DEFINE read == IF offset.memory > telegram.read THEN offset.memory - 1 ELSE telegram.read
  <1>1. /\ offset.memory \in Nat /\ telegram.sent \in Nat /\ telegram.read \in Nat
        /\ telegram.sent <= Len(asked.telegram)
    BY Kept
  <1>2. /\ read \in Nat /\ read <= telegram.sent /\ offset.memory <= read + 1
        /\ read < offset.memory \/ read = telegram.read
    BY <1>1 DEF OffsetsInOrder
  <1>3. /\ telegram' = [telegram EXCEPT !.read = read]
        /\ loop' = IF telegram.sent > read
                   THEN [loop EXCEPT !.at = "handle", !.next = read + 1, !.last = telegram.sent]
                   ELSE [loop EXCEPT !.at = "monitor"]
    BY DEF Fetch
  <1> HIDE DEF read
  <1>4. /\ telegram' \in [sent : 0..Len(asked.telegram), read : 0..Len(asked.telegram)]
        /\ telegram'.read = read /\ telegram'.sent = telegram.sent
    BY <1>1, <1>2, <1>3, Kept
  <1>5. /\ loop' \in Loops /\ loop'.recent = loop.recent /\ loop'.at # "locked"
        /\ \/ loop'.at = "monitor"
           \/ /\ loop'.at = "handle" /\ loop'.next = read + 1 /\ loop'.last = telegram.sent
              /\ read < telegram.sent
    <2>1. loop \in Loops /\ "handle" \in Places /\ "monitor" \in Places /\ read + 1 \in Nat
      BY <1>2, Kept DEF Places
    <2>2. CASE telegram.sent > read
      <3>1. loop' = [loop EXCEPT !.at = "handle", !.next = read + 1, !.last = telegram.sent]
        BY <1>3, <2>2
      <3> QED
        BY <1>1, <1>2, <2>1, <2>2, <3>1 DEF Loops
    <2>3. CASE ~(telegram.sent > read)
      <3>1. loop' = [loop EXCEPT !.at = "monitor"]
        BY <1>3, <2>3
      <3> QED
        BY <2>1, <3>1, SetPlace
    <2> QED
      BY <2>2, <2>3
  <1>6. LoopMoves /\ LoopAlone /\ UNCHANGED <<offset, ran>> /\ loop.at = "fetch"
    BY <1>5 DEF Fetch, LoopFree, LoopMoves, LoopAlone, senders, history, children, records
  <1>7. ElseIsFormed
    BY <1>6, Parts, Kept DEF Fetch, LoopMoves, ElseIsFormed, records, children, history
  <1>8. LoopIsFormed
    BY <1>4, <1>5, <1>6, Kept DEF LoopIsFormed
  <1>9. TypeOK'
    BY <1>6, <1>7, <1>8, Parts, Kept, FormedKeepsTypes DEF LoopMoves
  <1> QED
    BY <1>2, <1>4, <1>5, <1>6, <1>9

(* An update is refused, or switches the demo execution.                     *)
LEMMA HandlesStep ==
  ASSUME TypeOK, NEW u \in Updates, Passes(u) \/ SwitchesDemo(u)
  PROVE  /\ TypeOK' /\ LoopMoves /\ LoopAlone /\ UNCHANGED <<offset, telegram>>
         /\ loop.at = "handle" /\ u = loop.next
         /\ loop'.at = "done" /\ loop'.next = loop.next /\ loop'.last = loop.last
         /\ \A v \in Updates : ran'.telegram[v] >= ran.telegram[v]
         /\ \A v \in Updates : v # u => ran'.telegram[v] = ran.telegram[v]
         /\ ran'.web = ran.web
         /\ \/ /\ Passes(u) /\ loop'.recent = loop.recent
               /\ asked.telegram[u] = "foreign" \/ asked.telegram[u] \in loop.recent
            \/ loop'.recent = loop.recent \cup {asked.telegram[u]} /\ ran'.telegram[u] > 0
  <1>1. CASE Passes(u)
    <2>1. /\ loop' \in Loops /\ loop'.at = "done" /\ loop'.next = loop.next /\ loop'.last = loop.last
          /\ loop'.recent = loop.recent
      BY <1>1, Kept DEF Passes, Loops, Places
    <2>2. LoopMoves /\ LoopAlone /\ UNCHANGED <<offset, telegram, ran>> /\ loop.at = "handle" /\ u = loop.next
      BY <1>1, <2>1 DEF Passes, Handles, LoopFree, LoopMoves, LoopAlone, senders, history, children, records
    <2>3. ElseIsFormed
      BY <1>1, <2>2, Parts, Kept DEF Passes, LoopMoves, ElseIsFormed, records, children, history
    <2>4. LoopIsFormed
      BY <2>1, <2>2, Kept DEF LoopIsFormed
    <2>5. TypeOK'
      BY <2>2, <2>3, <2>4, Parts, Kept, FormedKeepsTypes DEF LoopMoves
    <2>6. \A v \in Updates : ran.telegram[v] \in Nat
      BY Kept DEF Rans
    <2> QED
      BY <1>1, <2>1, <2>2, <2>5, <2>6 DEF Passes
  <1>2. CASE SwitchesDemo(u)
    <2>1. /\ loop' \in Loops /\ loop'.at = "done" /\ loop'.next = loop.next /\ loop'.last = loop.last
          /\ loop'.recent = loop.recent \cup {asked.telegram[u]}
      BY <1>2, Kept DEF SwitchesDemo, Loops, Places, WebCommands
    <2>2. LoopMoves /\ LoopAlone /\ UNCHANGED <<offset, telegram>> /\ loop.at = "handle" /\ u = loop.next
      BY <1>2, <2>1 DEF SwitchesDemo, Handles, LoopFree, LoopMoves, LoopAlone, senders, history, children, records
    <2>3. ran.telegram \in [Updates -> Nat] /\ ran.web \in [Ops -> Nat]
      BY Kept DEF Rans
    <2>4. ran' = [ran EXCEPT !.telegram = [ran.telegram EXCEPT ![u] = ran.telegram[u] + 1]]
      BY <1>2, Kept DEF SwitchesDemo, Rans
    <2> HIDE DEF Updates, Ops
    <2>5. [ran.telegram EXCEPT ![u] = ran.telegram[u] + 1] \in [Updates -> Nat]
      BY <2>3
    <2>6. ran' \in Rans /\ ran'.telegram = [ran.telegram EXCEPT ![u] = ran.telegram[u] + 1] /\ ran'.web = ran.web
      BY <2>4, <2>5, Kept DEF Rans
    <2>7. /\ \A v \in Updates : ran'.telegram[v] >= ran.telegram[v]
          /\ \A v \in Updates : v # u => ran'.telegram[v] = ran.telegram[v]
          /\ ran'.telegram[u] > 0
      BY <2>3, <2>6
    <2>8. armed' = (asked.telegram[u] = "demo_on")
      BY <1>2 DEF SwitchesDemo
    <2>9. armed' \in BOOLEAN
      BY <2>8, Zenon
    <2>10. ElseIsFormed
      BY <1>2, <2>2, <2>9, Parts, Kept DEF SwitchesDemo, LoopMoves, ElseIsFormed, children
    <2>11. LoopIsFormed
      BY <2>1, <2>2, <2>6, Kept DEF LoopIsFormed
    <2>12. TypeOK'
      BY <2>2, <2>10, <2>11, Parts, Kept, FormedKeepsTypes DEF LoopMoves
    <2> QED
      BY <2>1, <2>2, <2>6, <2>7, <2>12
  <1> QED
    BY <1>1, <1>2

LEMMA AdvanceStep ==
  ASSUME TypeOK, Advance
  PROVE  /\ TypeOK' /\ LoopMoves /\ LoopAlone /\ UNCHANGED <<telegram, ran>>
         /\ loop.at = "done" /\ loop'.recent = loop.recent /\ offset'.memory = loop.next + 1
         /\ offset'.file = offset.file \/ offset'.file = loop.next + 1
         /\ \/ loop'.at = "monitor"
            \/ /\ loop'.at = "handle" /\ loop.next < loop.last
               /\ loop'.next = loop.next + 1 /\ loop'.last = loop.last
  <1>1. loop.next \in Nat /\ loop.last \in Nat
    BY Kept DEF Loops
  <1>2. /\ offset' \in [memory : Nat, file : Nat] /\ offset'.memory = loop.next + 1
        /\ offset'.file = offset.file \/ offset'.file = loop.next + 1
    BY <1>1, Kept DEF Advance
  <1>3. /\ loop' \in Loops /\ loop'.recent = loop.recent /\ loop'.at # "locked"
        /\ \/ loop'.at = "monitor"
           \/ /\ loop'.at = "handle" /\ loop.next < loop.last
              /\ loop'.next = loop.next + 1 /\ loop'.last = loop.last
    <2>1. loop \in Loops /\ "handle" \in Places /\ "monitor" \in Places /\ loop.next + 1 \in Nat
      BY <1>1, Kept DEF Places
    <2>2. CASE loop' = NextUpdate /\ loop.next < loop.last
      <3>1. loop' = [loop EXCEPT !.at = "handle", !.next = loop.next + 1]
        BY <2>2 DEF NextUpdate
      <3> QED
        BY <1>1, <2>1, <2>2, <3>1 DEF Loops
    <2>3. CASE loop' = NextUpdate /\ ~(loop.next < loop.last)
      <3>1. loop' = [loop EXCEPT !.at = "monitor", !.next = loop.next + 1]
        BY <2>3 DEF NextUpdate
      <3> QED
        BY <1>1, <2>1, <3>1 DEF Loops
    <2>4. CASE loop' = [loop EXCEPT !.at = "monitor"]
      BY <2>1, <2>4, SetPlace
    <2> QED
      BY <2>2, <2>3, <2>4 DEF Advance
  <1>4. LoopMoves /\ LoopAlone /\ UNCHANGED <<telegram, ran>> /\ loop.at = "done"
    BY <1>3 DEF Advance, LoopMoves, LoopAlone, senders, history, children, records
  <1>5. ElseIsFormed
    BY <1>4, Parts, Kept DEF Advance, LoopMoves, ElseIsFormed, records, children, history
  <1>6. LoopIsFormed
    BY <1>2, <1>3, <1>4, Kept DEF LoopIsFormed
  <1>7. TypeOK'
    BY <1>4, <1>5, <1>6, Parts, Kept, FormedKeepsTypes DEF LoopMoves
  <1> QED
    BY <1>2, <1>3, <1>4, <1>7

LEMMA QueuesStep ==
  ASSUME TypeOK, SentOnce, NEW u \in Updates, Queues(u)
  PROVE  /\ TypeOK' /\ SentOnce' /\ Tg(u) \in Entries /\ Entering(Tg(u)) /\ LoopAlone
         /\ UNCHANGED <<asked, up, offset, telegram, ran, serving>>
         /\ loop.at = "handle" /\ u = loop.next
         /\ loop'.at = "locked" /\ loop'.next = loop.next /\ loop'.last = loop.last
         /\ loop'.recent = loop.recent \cup {asked.telegram[u]}
  <1>1. Tg(u) \in Entries /\ Entering(Tg(u))
    BY DEF Entries, Queues, Entering, Entered
  <1>2. /\ loop' \in Loops /\ loop'.at = "locked" /\ loop'.next = loop.next /\ loop'.last = loop.last
        /\ loop'.recent = loop.recent \cup {asked.telegram[u]}
    BY Kept DEF Queues, Lifecycle, Loops, Places, WebCommands
  <1>3. /\ UNCHANGED <<asked, up, offset, telegram, ran, serving, caller, sends>> /\ LoopAlone
        /\ loop.at = "handle" /\ u = loop.next
    BY DEF Queues, Handles, LoopAlone, senders, records, children, history
  <1>4. lock' \in Seq(Entries) /\ run' \in Runs
    BY <1>1, EnteringQueues
  <1>5. ElseIsFormed
    BY <1>3, Parts, Kept DEF Queues, LoopAlone, ElseIsFormed, records, children, history
  <1>6. LoopIsFormed
    BY <1>2, <1>3, Kept DEF LoopIsFormed
  <1>7. SentOnce'
    BY <1>3, SameSets DEF SentOnce
  <1> QED
    BY <1>1, <1>2, <1>3, <1>4, <1>5, <1>6, <1>7, FormedKeepsTypes

(* ------------------------- the queue and its holder ---------------------- *)

QueueInv == ServedIsQueued /\ SentOnce /\ OneUpdate

LEMMA AsideKeepsQueue ==
  ASSUME TypeOK, QueueInv, Aside
  PROVE  QueueInv'
  <1>1. ServedIsQueued' /\ OneUpdate'
    BY DEF QueueInv, Aside, ServedIsQueued, OneUpdate, Nobody, Tg
  <1>2. SentOnce'
    BY SameSets DEF Aside, SentOnce
  <1> QED
    BY <1>1, <1>2 DEF QueueInv

LEMMA LoopMovesKeepsQueue ==
  ASSUME TypeOK, QueueInv, LoopMoves
  PROVE  QueueInv'
  <1>1. \A i \in DOMAIN lock : lock[i][1] # "telegram"
    BY DEF QueueInv, ServedIsQueued, LoopMoves
  <1>2. ServedIsQueued'
    BY <1>1 DEF QueueInv, LoopMoves, ServedIsQueued, Nobody
  <1>3. OneUpdate'
    BY <1>1, HolderIs DEF LoopMoves, OneUpdate
  <1>4. SentOnce'
    BY SameSets DEF LoopMoves, QueueInv, SentOnce
  <1> QED
    BY <1>2, <1>3, <1>4 DEF QueueInv

LEMMA GoesOnKeepsQueue ==
  ASSUME TypeOK, QueueInv, GoesOn, RestIsFormed
  PROVE  QueueInv'
  <1>1. lock # <<>> /\ lock' = lock /\ run'.stage # "idle" /\ serving' = serving /\ loop' = loop
    BY DEF GoesOn
  <1>2. ServedIsQueued'
    BY <1>1 DEF QueueInv, ServedIsQueued, Nobody
  <1>3. lock[1][1] = "telegram" => ran'.telegram[loop.next] > 0
    <2>1. CASE Carried
      BY <1>1, <2>1, CarriedCounts, HolderIs DEF QueueInv, OneUpdate, Tg
    <2>2. CASE ran' = ran /\ run.stage # "entered"
      BY <1>1, <2>2 DEF QueueInv, OneUpdate
    <2> QED
      BY <2>1, <2>2 DEF GoesOn
  <1>4. OneUpdate'
    BY <1>1, <1>3 DEF QueueInv, OneUpdate, Tg
  <1>5. SentOnce'
    BY SameSets DEF GoesOn, RestIsFormed, QueueInv, SentOnce
  <1> QED
    BY <1>2, <1>4, <1>5 DEF QueueInv

LEMMA LeavesKeepsQueue ==
  ASSUME TypeOK, QueueInv, Leaves, RestIsFormed
  PROVE  QueueInv'
  <1>1. /\ lock # <<>> /\ Len(lock) \in Nat
        /\ DOMAIN lock = 1..Len(lock) /\ DOMAIN lock' = 1..(Len(lock) - 1)
        /\ \A i \in DOMAIN lock' : lock'[i] = lock[i + 1] /\ i + 1 \in DOMAIN lock /\ i + 1 # 1
        /\ run'.stage \in {"idle", "entered"} /\ (lock' = <<>>) = (run'.stage = "idle")
    BY ReleasePasses DEF Leaves
  <1>2. Holder = lock[1] /\ 1 \in DOMAIN lock /\ Holder[1] \in {"web", "telegram"}
    BY <1>1, HolderIs
  <1>3. \A i \in DOMAIN lock : i = 1 \/ (i - 1 \in DOMAIN lock' /\ lock'[i - 1] = lock[i])
    BY <1>1
  <1>4. serving' # Nobody => \E i \in DOMAIN lock' : lock'[i] = serving'
    <2>1. SUFFICES ASSUME serving' # Nobody PROVE \E i \in DOMAIN lock' : lock'[i] = serving'
      OBVIOUS
    <2>2. serving' = serving /\ serving # Holder /\ serving # Nobody
      BY <2>1 DEF Leaves
    <2>3. PICK i \in DOMAIN lock : lock[i] = serving
      BY <2>2 DEF QueueInv, ServedIsQueued
    <2> QED
      BY <1>2, <1>3, <2>2, <2>3
  <1>5. (loop'.at = "locked") = (\E i \in DOMAIN lock' : lock'[i][1] = "telegram")
    <2>1. CASE Holder[1] = "web"
      <3>1. loop' = loop
        BY <2>1 DEF Leaves
      <3>2. (\E i \in DOMAIN lock' : lock'[i][1] = "telegram") <=> (\E i \in DOMAIN lock : lock[i][1] = "telegram")
        BY <1>1, <1>2, <1>3, <2>1
      <3> QED
        BY <3>1, <3>2 DEF QueueInv, ServedIsQueued
    <2>2. CASE Holder[1] = "telegram"
      <3>1. loop'.at = "done"
        BY <2>2, Kept DEF Leaves, Loops
      <3>2. \A i \in DOMAIN lock' : lock'[i][1] # "telegram"
        BY <1>1, <1>2, <2>2 DEF QueueInv, OneUpdate
      <3> QED
        BY <3>1, <3>2
    <2> QED
      BY <1>2, <2>1, <2>2
  <1>6. ServedIsQueued'
    BY <1>1, <1>4, <1>5 DEF ServedIsQueued, Nobody
  <1>7. loop'.next = loop.next
    BY Kept DEF Leaves, Loops
  <1>8. \A i, j \in DOMAIN lock' : lock'[i][1] = "telegram" /\ lock'[j][1] = "telegram" => i = j
    <2>1. SUFFICES ASSUME NEW i \in DOMAIN lock', NEW j \in DOMAIN lock',
                          lock'[i][1] = "telegram", lock'[j][1] = "telegram"
                   PROVE  i = j
      OBVIOUS
    <2>2. i + 1 = j + 1
      BY <1>1, <2>1 DEF QueueInv, OneUpdate
    <2> QED
      BY <1>1, <2>2
  <1>9. lock' # <<>> => run'.stage = "entered"
    BY <1>1
  <1>10. \A i \in DOMAIN lock' : lock'[i][1] = "telegram" => lock'[i] = Tg(loop.next)
    BY <1>1 DEF QueueInv, OneUpdate
  <1>11. OneUpdate'
    BY <1>7, <1>8, <1>9, <1>10 DEF OneUpdate, Tg
  <1>12. SentOnce'
    BY SameSets DEF Leaves, RestIsFormed, QueueInv, SentOnce
  <1> QED
    BY <1>6, <1>11, <1>12 DEF QueueInv

LEMMA AcceptKeepsQueue ==
  ASSUME TypeOK, QueueInv, NEW o \in Ops, Accept(o)
  PROVE  QueueInv'
  <1>1. /\ Web(o) \in Entries /\ Entering(Web(o)) /\ serving' = Web(o) /\ SentOnce'
        /\ loop' = loop /\ ran' = ran
    BY AcceptStep DEF QueueInv
  <1>2. /\ lock' # <<>> /\ Len(lock) \in Nat
        /\ DOMAIN lock = 1..Len(lock) /\ DOMAIN lock' = 1..(Len(lock) + 1)
        /\ lock'[Len(lock) + 1] = Web(o) /\ \A i \in DOMAIN lock : lock'[i] = lock[i]
        /\ lock = <<>> => run' = Entered
        /\ lock # <<>> => run' = run /\ lock'[1] = lock[1]
    BY <1>1, EnteringQueues
  <1>3. Web(o)[1] = "web"
    BY DEF Web
  <1>4. \A i \in DOMAIN lock' : lock'[i][1] = "telegram" => i \in DOMAIN lock
    BY <1>2, <1>3
  <1>5. run'.stage # "idle"
    BY <1>2, Blank DEF QueueInv, ServedIsQueued
  <1>6. (\E i \in DOMAIN lock' : lock'[i][1] = "telegram") <=> (\E i \in DOMAIN lock : lock[i][1] = "telegram")
    BY <1>2, <1>4
  <1>7. \E i \in DOMAIN lock' : lock'[i] = serving'
    BY <1>1, <1>2
  <1>8. ServedIsQueued'
    BY <1>1, <1>2, <1>5, <1>6, <1>7 DEF QueueInv, ServedIsQueued, Nobody
  <1>9. lock'[1][1] = "telegram" /\ run'.stage # "entered" => ran.telegram[loop.next] > 0
    BY <1>2, Blank DEF QueueInv, OneUpdate
  <1>10. OneUpdate'
    BY <1>1, <1>2, <1>4, <1>9 DEF QueueInv, OneUpdate, Tg
  <1> QED
    BY <1>1, <1>8, <1>10 DEF QueueInv

LEMMA QueuesKeepsQueue ==
  ASSUME TypeOK, QueueInv, NEW u \in Updates, Queues(u)
  PROVE  QueueInv'
  <1>1. /\ Tg(u) \in Entries /\ Entering(Tg(u)) /\ serving' = serving /\ SentOnce'
        /\ loop.at = "handle" /\ u = loop.next /\ loop'.at = "locked" /\ loop'.next = u /\ ran' = ran
    BY QueuesStep DEF QueueInv
  <1>2. /\ lock' # <<>> /\ Len(lock) \in Nat
        /\ DOMAIN lock = 1..Len(lock) /\ DOMAIN lock' = 1..(Len(lock) + 1)
        /\ lock'[Len(lock) + 1] = Tg(u) /\ \A i \in DOMAIN lock : lock'[i] = lock[i]
        /\ lock = <<>> => run' = Entered
        /\ lock # <<>> => run' = run /\ lock'[1] = lock[1]
    BY <1>1, EnteringQueues
  <1>3. Tg(u)[1] = "telegram"
    BY DEF Tg
  <1>4. \A i \in DOMAIN lock : lock[i][1] # "telegram"
    BY <1>1 DEF QueueInv, ServedIsQueued
  <1>5. \A i \in DOMAIN lock' : lock'[i][1] = "telegram" => i = Len(lock) + 1
    BY <1>2, <1>4
  <1>6. run'.stage # "idle"
    BY <1>2, Blank DEF QueueInv, ServedIsQueued
  <1>7. \E i \in DOMAIN lock' : lock'[i][1] = "telegram"
    BY <1>2, <1>3
  <1>8. serving' # Nobody => \E i \in DOMAIN lock' : lock'[i] = serving'
    BY <1>1, <1>2 DEF QueueInv, ServedIsQueued
  <1>9. ServedIsQueued'
    BY <1>1, <1>2, <1>6, <1>7, <1>8 DEF ServedIsQueued, Nobody
  <1>10. lock'[1][1] = "telegram" => run'.stage = "entered"
    <2>1. CASE lock = <<>>
      BY <1>2, <2>1, Blank
    <2>2. CASE lock # <<>>
      BY <1>2, <1>4, <2>2, HolderIs
    <2> QED
      BY <2>1, <2>2
  <1>11. \A i \in DOMAIN lock' : lock'[i][1] = "telegram" => lock'[i] = Tg(u)
    BY <1>2, <1>5
  <1>12. OneUpdate'
    BY <1>1, <1>5, <1>10, <1>11 DEF OneUpdate, Tg
  <1> QED
    BY <1>1, <1>9, <1>12 DEF QueueInv

(* ----------------------- the loop and its offsets ------------------------ *)

LoopInv == OffsetsInOrder /\ AnsweredBehind /\ NothingSkipped

(* What was carried out stays so, and with it what was answered.             *)
RanGrows == \A v \in Updates : ran'.telegram[v] >= ran.telegram[v]

LEMMA RanIsCounted ==
  ASSUME TypeOK, TypeOK', asked' = asked
  PROVE  \A v \in Updates : ran.telegram[v] \in Nat /\ ran'.telegram[v] \in Nat
  BY SameSets DEF TypeOK

LEMMA AnsweredStays ==
  ASSUME TypeOK, TypeOK', asked' = asked, RanGrows, NEW u \in Updates, Answered(u)
  PROVE  Answered(u)'
  <1>1. \A v \in Updates : ran.telegram[v] > 0 => ran'.telegram[v] > 0
    BY RanIsCounted DEF RanGrows
  <1>2. \A v \in 1..(u - 1) : v \in Updates
    BY Kept
  <1> HIDE DEF Updates
  <1> QED
    BY <1>1, <1>2 DEF Answered

(* A step that does not move the loop but may carry out, or send, more.      *)
LEMMA StandingKeepsLoop ==
  ASSUME TypeOK, TypeOK', LoopInv, asked' = asked, RanGrows,
         up' = up, offset' = offset, loop'.next = loop.next, loop'.last = loop.last, loop'.recent = loop.recent,
         loop'.at = loop.at \/ (loop.at = "locked" /\ loop'.at = "done" /\ ran.telegram[loop.next] > 0),
         telegram'.read = telegram.read, telegram'.sent >= telegram.sent
  PROVE  LoopInv'
  <1>1. Updates' = Updates /\ InHand' = InHand
    BY SameSets DEF InHand
  <1>2. \A v \in Updates : ran.telegram[v] > 0 => ran'.telegram[v] > 0
    BY RanIsCounted DEF RanGrows
  <1>3. telegram.sent \in Nat /\ telegram'.sent \in Nat /\ telegram.read \in Nat
        /\ offset.memory \in Nat /\ offset.file \in Nat /\ loop.last \in Nat /\ loop.next \in Nat
    <2>1. telegram'.sent \in Nat
      BY DEF TypeOK
    <2> QED
      BY <2>1, Kept DEF Loops
  <1>4. OffsetsInOrder'
    BY <1>1, <1>3 DEF LoopInv, OffsetsInOrder
  <1>5. AnsweredBehind'
    <2>1. \A u \in Updates : u < offset.memory \/ (InHand /\ u < loop.next) => Answered(u)'
      BY AnsweredStays DEF LoopInv, AnsweredBehind
    <2>2. loop'.at = "done" => Answered(loop.next)'
      <3>1. SUFFICES ASSUME loop'.at = "done" PROVE Answered(loop.next)'
        OBVIOUS
      <3>2. loop.next \in Updates /\ Answered(loop.next)
        BY <3>1 DEF LoopInv, AnsweredBehind, OffsetsInOrder, InHand, Answered
      <3>3. PICK n : n = loop.next
        OBVIOUS
      <3>4. Answered(n)'
        BY <3>2, <3>3, AnsweredStays
      <3> QED
        BY <3>3, <3>4 DEF Answered
    <2>3. \A c \in loop.recent :
            \/ \E v \in Updates : v < offset.memory /\ asked.telegram[v] = c /\ ran'.telegram[v] > 0
            \/ loop'.at \in {"locked", "done"} /\ asked.telegram[loop.next] = c
      BY <1>2 DEF LoopInv, AnsweredBehind
    <2>4. (\A u \in Updates : u < offset.memory \/ (InHand /\ u < loop.next) => Answered(u))'
      BY <1>1, <2>1
    <2>5. (\A c \in loop.recent :
            \/ \E v \in Updates : v < offset.memory /\ asked.telegram[v] = c /\ ran.telegram[v] > 0
            \/ loop.at \in {"locked", "done"} /\ asked.telegram[loop.next] = c)'
      BY <1>1, <2>3
    <2> QED
      BY <2>2, <2>4, <2>5 DEF AnsweredBehind
  <1>6. NothingSkipped'
    BY <1>1, AnsweredStays DEF LoopInv, NothingSkipped
  <1> QED
    BY <1>4, <1>5, <1>6 DEF LoopInv

(* A step that carries nothing out: answers stay answers.                    *)
LEMMA SameRan ==
  ASSUME TypeOK, asked' = asked, ran' = ran
  PROVE  RanGrows
  BY Kept DEF RanGrows, Rans

(* The loop is at no update, and all its rate limit remembers is behind it.  *)
LEMMA AwayKeepsLoop ==
  ASSUME TypeOK, TypeOK', UNCHANGED <<asked, ran>>, ~InHand', OffsetsInOrder',
         \A u \in Updates : u < offset'.memory \/ u < offset'.file \/ u <= telegram'.read => Answered(u),
         \A c \in loop'.recent :
            \E v \in Updates : v < offset'.memory /\ asked.telegram[v] = c /\ ran.telegram[v] > 0
  PROVE  LoopInv'
  <1>1. Updates' = Updates /\ RanGrows
    BY SameSets, SameRan
  <1>2. \A u \in Updates : u < offset'.memory \/ u < offset'.file \/ u <= telegram'.read => Answered(u)'
    BY <1>1, AnsweredStays
  <1>3. NothingSkipped'
    BY <1>1, <1>2 DEF NothingSkipped
  <1>4. (\A u \in Updates : u < offset.memory \/ (InHand /\ u < loop.next) => Answered(u))'
    BY <1>1, <1>2
  <1>5. (\A c \in loop.recent :
          \/ \E v \in Updates : v < offset.memory /\ asked.telegram[v] = c /\ ran.telegram[v] > 0
          \/ loop.at \in {"locked", "done"} /\ asked.telegram[loop.next] = c)'
    BY <1>1
  <1>6. loop'.at # "done"
    BY DEF InHand
  <1>7. AnsweredBehind'
    BY <1>4, <1>5, <1>6 DEF AnsweredBehind
  <1> QED
    BY <1>3, <1>7 DEF LoopInv

LEMMA Counters ==
  ASSUME TypeOK
  PROVE  /\ telegram.sent \in Nat /\ telegram.read \in Nat /\ offset.memory \in Nat /\ offset.file \in Nat
         /\ loop.last \in Nat /\ loop.next \in Nat
         /\ Updates = 1..Len(asked.telegram) /\ Len(asked.telegram) \in Nat
         /\ telegram.sent <= Len(asked.telegram)
  BY Kept DEF Loops

LEMMA CountersNext ==
  ASSUME TypeOK'
  PROVE  /\ telegram'.sent \in Nat /\ telegram'.read \in Nat /\ offset'.memory \in Nat /\ offset'.file \in Nat
         /\ loop'.last \in Nat /\ loop'.next \in Nat
  BY DEF TypeOK

(* Away from an update, what the rate limit remembers is behind the memory.  *)
LEMMA RecentBehind ==
  ASSUME TypeOK, LoopInv, loop.at \in {"boot", "monitor", "fetch", "handle"}, NEW c \in loop.recent
  PROVE  \E v \in Updates : v < offset.memory /\ asked.telegram[v] = c /\ ran.telegram[v] > 0
  BY DEF LoopInv, AnsweredBehind

LEMMA ChildrenKeepLoop ==
  ASSUME TypeOK, LoopInv, EnsureApi \/ Monitor \/ FetchFails
  PROVE  LoopInv'
  <1>1. /\ TypeOK' /\ LoopMoves /\ UNCHANGED <<offset, telegram, ran>>
        /\ loop.at \in {"boot", "monitor", "fetch"} /\ loop'.at \in {"monitor", "fetch"} /\ loop'.recent = loop.recent
    BY ChildrenSteps
  <1>2. ~InHand' /\ asked' = asked /\ up' = up
    BY <1>1 DEF InHand, LoopMoves
  <1>3. OffsetsInOrder'
    BY <1>1, <1>2 DEF LoopInv, OffsetsInOrder
  <1>4. \A u \in Updates : u < offset.memory \/ u < offset.file \/ u <= telegram.read => Answered(u)
    BY DEF LoopInv, AnsweredBehind, NothingSkipped
  <1>5. \A c \in loop.recent :
          \E v \in Updates : v < offset.memory /\ asked.telegram[v] = c /\ ran.telegram[v] > 0
    BY <1>1, RecentBehind
  <1> QED
    BY <1>1, <1>2, <1>3, <1>4, <1>5, AwayKeepsLoop

LEMMA ControlEndsKeepsLoop ==
  ASSUME TypeOK, LoopInv, ControlEnds
  PROVE  LoopInv'
  <1>1. /\ TypeOK' /\ loop' = Booting /\ ~up' /\ offset'.memory = 1 /\ offset'.file = offset.file
        /\ UNCHANGED <<asked, telegram, ran>>
    BY ControlEndsStep
  <1>2. ~InHand' /\ loop'.recent = {}
    BY <1>1, BootingLoop DEF InHand
  <1>3. OffsetsInOrder'
    BY <1>1, <1>2, Counters DEF LoopInv, OffsetsInOrder
  <1>4. \A u \in Updates : u < offset'.memory \/ u < offset'.file \/ u <= telegram'.read => Answered(u)
    BY <1>1, Counters DEF LoopInv, NothingSkipped
  <1> QED
    BY <1>1, <1>2, <1>3, <1>4, AwayKeepsLoop

(* The process that starts takes its place from the file.                    *)
LEMMA ControlStartsKeepsLoop ==
  ASSUME TypeOK, LoopInv, EndedIsBlank, ControlStarts
  PROVE  LoopInv'
  <1>1. /\ TypeOK' /\ offset'.memory = offset.file /\ offset'.file = offset.file
        /\ UNCHANGED <<asked, loop, telegram, ran>>
    BY ControlStartsStep
  <1>2. ~InHand' /\ loop'.recent = {}
    BY <1>1, BootingLoop DEF InHand, ControlStarts, EndedIsBlank
  <1>3. OffsetsInOrder'
    BY <1>1, <1>2, Counters DEF LoopInv, OffsetsInOrder
  <1>4. \A u \in Updates : u < offset'.memory \/ u < offset'.file \/ u <= telegram'.read => Answered(u)
    BY <1>1, Counters DEF LoopInv, NothingSkipped
  <1> QED
    BY <1>1, <1>2, <1>3, <1>4, AwayKeepsLoop

LEMMA FetchKeepsLoop ==
  ASSUME TypeOK, LoopInv, Fetch
  PROVE  LoopInv'
  <1>1. /\ TypeOK' /\ LoopMoves /\ UNCHANGED <<offset, ran>>
        /\ loop.at = "fetch" /\ loop'.recent = loop.recent
        /\ telegram'.sent = telegram.sent /\ telegram'.read <= telegram.sent
        /\ telegram'.read \in Nat
        /\ telegram'.read < offset.memory \/ telegram'.read = telegram.read
        /\ offset.memory <= telegram'.read + 1
        /\ \/ loop'.at = "monitor"
           \/ /\ loop'.at = "handle" /\ loop'.next = telegram'.read + 1 /\ loop'.last = telegram.sent
              /\ telegram'.read < telegram.sent
    BY FetchStep DEF LoopInv
  <1>2. asked' = asked /\ up' = up /\ Updates' = Updates /\ RanGrows
    BY <1>1, SameSets, SameRan DEF LoopMoves
  <1>3. \A u \in Updates : u < offset.memory \/ u < offset.file \/ u <= telegram'.read => Answered(u)
    BY <1>1, Counters DEF LoopInv, AnsweredBehind, NothingSkipped
  <1>4. \A c \in loop.recent :
          \E v \in Updates : v < offset.memory /\ asked.telegram[v] = c /\ ran.telegram[v] > 0
    BY <1>1, RecentBehind
  <1>5. CASE loop'.at = "monitor"
    <2>1. ~InHand'
      BY <1>5 DEF InHand
    <2>2. OffsetsInOrder'
      BY <1>1, <1>2, <2>1 DEF LoopInv, OffsetsInOrder
    <2> QED
      BY <1>1, <1>2, <1>3, <1>4, <2>1, <2>2, AwayKeepsLoop
  <1>6. CASE /\ loop'.at = "handle" /\ loop'.next = telegram'.read + 1 /\ loop'.last = telegram.sent
             /\ telegram'.read < telegram.sent
    <2>1. telegram'.read \in Nat
      BY <1>1, CountersNext
    <2>2. OffsetsInOrder'
      BY <1>1, <1>2, <1>6, <2>1, Counters, SMTT(30) DEF LoopInv, OffsetsInOrder
    <2>3. \A u \in Updates : u < offset.memory \/ u < offset.file \/ u < loop'.next => Answered(u)'
      BY <1>1, <1>2, <1>3, <1>6, <2>1, Counters, AnsweredStays
    <2>4. (\A u \in Updates : u < offset.memory \/ (InHand /\ u < loop.next) => Answered(u))'
      BY <1>1, <1>2, <2>3
    <2>5. AnsweredBehind'
      BY <1>1, <1>2, <1>4, <1>6, <2>4 DEF AnsweredBehind
    <2>6. NothingSkipped'
      BY <1>1, <1>2, <1>6, <2>1, <2>3, Counters DEF NothingSkipped
    <2> QED
      BY <2>2, <2>5, <2>6 DEF LoopInv
  <1> QED
    BY <1>1, <1>5, <1>6

LEMMA HandlesKeepsLoop ==
  ASSUME TypeOK, LoopInv, NEW u \in Updates, Passes(u) \/ SwitchesDemo(u)
  PROVE  LoopInv'
  <1>1. /\ TypeOK' /\ LoopMoves /\ UNCHANGED <<offset, telegram>>
        /\ loop.at = "handle" /\ u = loop.next
        /\ loop'.at = "done" /\ loop'.next = loop.next /\ loop'.last = loop.last
        /\ RanGrows
        /\ \/ /\ loop'.recent = loop.recent
              /\ asked.telegram[u] = "foreign" \/ asked.telegram[u] \in loop.recent
           \/ loop'.recent = loop.recent \cup {asked.telegram[u]} /\ ran'.telegram[u] > 0
    BY HandlesStep DEF RanGrows
  <1>2. asked' = asked /\ up' = up /\ Updates' = Updates
    BY <1>1, SameSets DEF LoopMoves
  <1>3. OffsetsInOrder'
    BY <1>1, <1>2 DEF LoopInv, OffsetsInOrder, InHand
  <1>4. \A v \in Updates : v < offset.memory \/ v < loop.next => Answered(v)'
    BY <1>1, <1>2, AnsweredStays DEF LoopInv, AnsweredBehind, InHand
  <1>5. Answered(u)'
    <2>1. CASE asked.telegram[u] = "foreign"
      BY <1>2, <2>1 DEF Answered
    <2>2. CASE asked.telegram[u] \in loop.recent
      <3>1. PICK v \in Updates : v < offset.memory /\ asked.telegram[v] = asked.telegram[u] /\ ran.telegram[v] > 0
        BY <1>1, <2>2, RecentBehind
      <3>2. v \in 1..(u - 1)
        BY <1>1, <3>1, Counters DEF LoopInv, OffsetsInOrder, InHand
      <3>3. Answered(u)
        BY <3>1, <3>2 DEF Answered
      <3> QED
        BY <1>1, <1>2, <3>3, AnsweredStays
    <2>3. CASE ran'.telegram[u] > 0
      BY <2>3 DEF Answered
    <2> QED
      BY <1>1, <2>1, <2>2, <2>3
  <1>6. \A c \in loop.recent : \E v \in Updates : v < offset.memory /\ asked.telegram[v] = c /\ ran'.telegram[v] > 0
    <2>1. SUFFICES ASSUME NEW c \in loop.recent
                   PROVE  \E v \in Updates : v < offset.memory /\ asked.telegram[v] = c /\ ran'.telegram[v] > 0
      OBVIOUS
    <2>2. PICK v \in Updates : v < offset.memory /\ asked.telegram[v] = c /\ ran.telegram[v] > 0
      BY <1>1, RecentBehind
    <2> QED
      BY <1>1, <1>2, <2>2, RanIsCounted DEF RanGrows
  <1>7. (\A v \in Updates : v < offset.memory \/ (InHand /\ v < loop.next) => Answered(v))'
    BY <1>1, <1>2, <1>4
  <1>8. (loop.at = "done" => Answered(loop.next))'
    BY <1>1, <1>5 DEF Answered
  <1>9. (\A c \in loop.recent :
          \/ \E v \in Updates : v < offset.memory /\ asked.telegram[v] = c /\ ran.telegram[v] > 0
          \/ loop.at \in {"locked", "done"} /\ asked.telegram[loop.next] = c)'
    BY <1>1, <1>2, <1>6
  <1>10. AnsweredBehind'
    BY <1>7, <1>8, <1>9 DEF AnsweredBehind
  <1>11. NothingSkipped'
    BY <1>1, <1>2, AnsweredStays DEF LoopInv, NothingSkipped
  <1> QED
    BY <1>3, <1>10, <1>11 DEF LoopInv

LEMMA QueuesKeepsLoop ==
  ASSUME TypeOK, SentOnce, LoopInv, NEW u \in Updates, Queues(u)
  PROVE  LoopInv'
  <1>1. /\ TypeOK' /\ UNCHANGED <<asked, up, offset, telegram, ran>>
        /\ loop.at = "handle" /\ u = loop.next
        /\ loop'.at = "locked" /\ loop'.next = loop.next /\ loop'.last = loop.last
        /\ loop'.recent = loop.recent \cup {asked.telegram[u]}
    BY QueuesStep
  <1>2. Updates' = Updates /\ RanGrows
    BY <1>1, SameSets, SameRan
  <1>3. OffsetsInOrder'
    BY <1>1, <1>2 DEF LoopInv, OffsetsInOrder, InHand
  <1>4. \A v \in Updates : v < offset.memory \/ v < loop.next => Answered(v)'
    BY <1>1, <1>2, AnsweredStays DEF LoopInv, AnsweredBehind, InHand
  <1>5. (\A v \in Updates : v < offset.memory \/ (InHand /\ v < loop.next) => Answered(v))'
    BY <1>1, <1>2, <1>4
  <1>6. (\A c \in loop.recent :
          \/ \E v \in Updates : v < offset.memory /\ asked.telegram[v] = c /\ ran.telegram[v] > 0
          \/ loop.at \in {"locked", "done"} /\ asked.telegram[loop.next] = c)'
    BY <1>1, <1>2, RecentBehind
  <1>7. AnsweredBehind'
    BY <1>1, <1>5, <1>6 DEF AnsweredBehind
  <1>8. NothingSkipped'
    BY <1>1, <1>2, AnsweredStays DEF LoopInv, NothingSkipped
  <1> QED
    BY <1>3, <1>7, <1>8 DEF LoopInv

(* The update in hand is behind the loop once its command was answered.      *)
LEMMA AdvanceKeepsLoop ==
  ASSUME TypeOK, LoopInv, Advance
  PROVE  LoopInv'
  <1>1. /\ TypeOK' /\ LoopMoves /\ UNCHANGED <<telegram, ran>>
        /\ loop.at = "done" /\ loop'.recent = loop.recent /\ offset'.memory = loop.next + 1
        /\ offset'.file = offset.file \/ offset'.file = loop.next + 1
        /\ \/ loop'.at = "monitor"
           \/ /\ loop'.at = "handle" /\ loop.next < loop.last
              /\ loop'.next = loop.next + 1 /\ loop'.last = loop.last
    BY AdvanceStep
  <1>2. asked' = asked /\ up /\ up' = up /\ Updates' = Updates /\ RanGrows
    BY <1>1, SameSets, SameRan DEF LoopMoves
  <1>3. /\ loop.next \in Updates /\ Answered(loop.next) /\ loop.next <= loop.last /\ loop.last <= telegram.sent
        /\ offset.file <= offset.memory /\ offset.memory <= loop.next
    BY <1>1, <1>2 DEF LoopInv, AnsweredBehind, OffsetsInOrder, InHand, Answered
  <1>4. \A u \in Updates : u < offset'.memory \/ u < offset'.file \/ u <= telegram'.read => Answered(u)
    <2>1. SUFFICES ASSUME NEW u \in Updates, u < offset'.memory \/ u < offset'.file \/ u <= telegram'.read
                   PROVE  Answered(u)
      OBVIOUS
    <2>2. u = loop.next \/ u < loop.next \/ u < offset.file \/ u <= telegram.read
      BY <1>1, <2>1, Counters
    <2>3. CASE u = loop.next
      BY <1>3, <2>3
    <2>4. CASE u # loop.next
      BY <1>1, <2>2, <2>4 DEF LoopInv, AnsweredBehind, NothingSkipped, InHand
    <2> QED
      BY <2>3, <2>4
  <1>5. \A c \in loop.recent :
          \E v \in Updates : v < offset'.memory /\ asked.telegram[v] = c /\ ran.telegram[v] > 0
    <2>1. SUFFICES ASSUME NEW c \in loop.recent
                   PROVE  \E v \in Updates : v < offset'.memory /\ asked.telegram[v] = c /\ ran.telegram[v] > 0
      OBVIOUS
    <2>2. CASE \E v \in Updates : v < offset.memory /\ asked.telegram[v] = c /\ ran.telegram[v] > 0
      BY <1>1, <1>3, <2>2, Counters
    <2>3. CASE asked.telegram[loop.next] = c
      <3>1. c # "foreign"
        BY Kept DEF Loops, WebCommands
      <3>2. CASE ran.telegram[loop.next] > 0
        BY <1>1, <1>3, <2>3, <3>2, Counters
      <3>3. CASE \E v \in 1..(loop.next - 1) : asked.telegram[v] = asked.telegram[loop.next] /\ ran.telegram[v] > 0
        <4>1. PICK v \in 1..(loop.next - 1) : asked.telegram[v] = asked.telegram[loop.next] /\ ran.telegram[v] > 0
          BY <3>3
        <4>2. v \in Updates /\ v < offset'.memory
          BY <1>1, <1>3, <4>1, Counters
        <4> QED
          BY <2>3, <4>1, <4>2
      <3> QED
        BY <1>3, <2>3, <3>1, <3>2, <3>3 DEF Answered
    <2> QED
      BY <2>2, <2>3 DEF LoopInv, AnsweredBehind
  <1>6. CASE loop'.at = "monitor"
    <2>1. ~InHand'
      BY <1>6 DEF InHand
    <2>2. OffsetsInOrder'
      BY <1>1, <1>2, <1>3, <2>1, Counters DEF LoopInv, OffsetsInOrder
    <2> QED
      BY <1>1, <1>2, <1>4, <1>5, <2>1, <2>2, AwayKeepsLoop
  <1>7. CASE /\ loop'.at = "handle" /\ loop.next < loop.last
             /\ loop'.next = loop.next + 1 /\ loop'.last = loop.last
    <2>1. OffsetsInOrder'
      BY <1>1, <1>2, <1>3, <1>7, Counters, SMTT(30) DEF LoopInv, OffsetsInOrder
    <2>2. \A u \in Updates : u < offset'.memory \/ u < offset'.file \/ u <= telegram'.read => Answered(u)'
      BY <1>1, <1>2, <1>4, AnsweredStays
    <2>3. (\A u \in Updates : u < offset.memory \/ (InHand /\ u < loop.next) => Answered(u))'
      BY <1>1, <1>2, <1>7, <2>2
    <2>4. (\A c \in loop.recent :
            \/ \E v \in Updates : v < offset.memory /\ asked.telegram[v] = c /\ ran.telegram[v] > 0
            \/ loop.at \in {"locked", "done"} /\ asked.telegram[loop.next] = c)'
      BY <1>1, <1>2, <1>5
    <2>5. AnsweredBehind'
      BY <1>7, <2>3, <2>4 DEF AnsweredBehind
    <2>6. NothingSkipped'
      BY <1>2, <2>2 DEF NothingSkipped
    <2> QED
      BY <2>1, <2>5, <2>6 DEF LoopInv
  <1> QED
    BY <1>1, <1>6, <1>7

(* ---------------------- the processes and the rows ----------------------- *)

(* The part of a step that LiveIsYounger depends on: Live stays as young, and
   neither a blank run nor the same one asks for more.                       *)
YoungerSame ==
  /\ live'.inst = live.inst /\ live'.wanted = live.wanted /\ (live'.up => live.up)
  /\ rows'.by = rows.by /\ (rows'.fresh => rows.fresh)
  /\ \/ run'.base = run.base /\ run'.spawned = run.spawned /\ run'.foreign = run.foreign
     \/ run'.base = 0 /\ ~run'.spawned
  /\ stopped' = stopped

LEMMA ProcessTypes ==
  ASSUME TypeOK
  PROVE  /\ live.inst \in Nat /\ run.base \in Nat /\ rows.by \in Nat /\ run.foreign \in Nat
         /\ live.inst \in 0..MaxSpawns /\ MaxSpawns \in Nat
  BY Parts, ControlAssumption DEF Lives, Runs, Evidences

LEMMA SameKeepsYounger ==
  ASSUME TypeOK, LiveIsYounger, YoungerSame
  PROVE  LiveIsYounger'
  BY ProcessTypes DEF LiveIsYounger, YoungerSame

(* Nothing happens to Live or to the rows, or a finished child is noted.     *)
LEMMA QuietKeepsYounger ==
  ASSUME TypeOK, LiveIsYounger, live' = live \/ live' = Noted(live), rows' = rows, stopped' = stopped,
         \/ run'.base = run.base /\ run'.spawned = run.spawned /\ run'.foreign = run.foreign
         \/ run'.base = 0 /\ ~run'.spawned
  PROVE  LiveIsYounger'
  <1>1. YoungerSame
    BY NotedLive, Parts DEF YoungerSame
  <1> QED
    BY <1>1, SameKeepsYounger

LEMMA ReleaseKeepsYounger ==
  ASSUME TypeOK, ServedIsQueued, LiveIsYounger, Duplicate \/ Finish \/ FinishTelegram
  PROVE  LiveIsYounger'
  <1>1. lock # <<>> /\ Release
    BY DEF Duplicate, Finish, FinishTelegram, Holds, ServedIsQueued
  <1>2. run'.base = 0 /\ ~run'.spawned
    BY <1>1, ReleasePasses
  <1>3. (live' = live \/ live' = Noted(live)) /\ rows' = rows /\ stopped' = stopped
    BY DEF Duplicate, Finish, FinishTelegram, NotesBoth, children, history
  <1> QED
    BY <1>2, <1>3, QuietKeepsYounger

(* Steps of the holder that set the stage, and leave the children to it.     *)
LEMMA StagesKeepYounger ==
  ASSUME TypeOK, LiveIsYounger, SwitchDemo \/ Mt5Ready \/ AlreadyRuns \/ NotHealthy \/ Verified \/ NotYet \/ VerifyReads
  PROVE  LiveIsYounger'
  <1>1. run'.base = run.base /\ run'.spawned = run.spawned /\ run'.foreign = run.foreign
    BY Parts DEF SwitchDemo, Mt5Ready, AlreadyRuns, NotHealthy, Verified, NotYet, VerifyReads, Ends, Runs
  <1>2. (live' = live \/ live' = Noted(live)) /\ rows' = rows /\ stopped' = stopped
    BY DEF SwitchDemo, Mt5Ready, AlreadyRuns, NotHealthy, Verified, NotYet, VerifyReads, NotesBoth, children, history
  <1> QED
    BY <1>1, <1>2, QuietKeepsYounger

LEMMA StartEntersKeepsYounger ==
  ASSUME TypeOK, LiveIsYounger, StartEnters
  PROVE  LiveIsYounger'
  <1>1. rows'.by = rows.by /\ ~rows'.fresh
    BY BoundaryKeeps DEF StartEnters
  <1>2. run'.base = run.base /\ run'.spawned = run.spawned /\ run'.foreign = run.foreign
    BY Parts, SetStage DEF StartEnters, Stages
  <1>3. live' = Noted(live) /\ stopped' = stopped
    BY DEF StartEnters, NotesBoth
  <1> QED
    BY <1>1, <1>2, <1>3, NotedLive, Parts, SameKeepsYounger DEF YoungerSame

LEMMA StopEntersKeepsYounger ==
  ASSUME TypeOK, LiveIsYounger, StopEnters
  PROVE  LiveIsYounger'
  <1>1. live'.inst = live.inst /\ ~live'.wanted /\ (live'.up => live.up)
    BY StopTouches DEF StopEnters
  <1>2. run'.base = run.base /\ run'.spawned = run.spawned /\ run'.foreign = run.foreign
    BY Parts, SetStage DEF StopEnters, Ends, Stages
  <1>3. rows' = rows /\ stopped' = (~live'.up /\ api.up)
    BY DEF StopEnters
  <1>4. stopped' => ~live'.up
    BY <1>3, Zenon
  <1> QED
    BY <1>1, <1>2, <1>3, <1>4, ProcessTypes DEF LiveIsYounger

LEMMA RestartEntersKeepsYounger ==
  ASSUME TypeOK, LiveIsYounger, RestartEnters
  PROVE  LiveIsYounger'
  <1>1. live'.inst = live.inst /\ ~live'.wanted /\ (live'.up => live.up)
    BY StopTouches DEF RestartEnters
  <1>2. CASE ~live'.up /\ api.up
    <2>1. run' = [run EXCEPT !.stage = "mt5", !.base = live.inst] /\ Boundary
      BY <1>2 DEF RestartEnters
    <2>2. run'.base = live.inst /\ run'.spawned = run.spawned /\ run'.foreign = run.foreign
      BY <2>1, Parts DEF Runs
    <2> QED
      BY <1>1, <1>2, <2>1, <2>2, BoundaryKeeps, ProcessTypes DEF LiveIsYounger
  <1>3. CASE ~(~live'.up /\ api.up)
    <2>1. run' = [run EXCEPT !.stage = "done"] /\ ~stopped' /\ rows' = rows
      BY <1>3 DEF RestartEnters, Ends
    <2>2. run'.base = run.base /\ run'.spawned = run.spawned /\ run'.foreign = run.foreign
      BY <2>1, Parts, SetStage DEF Stages
    <2> QED
      BY <1>1, <2>1, <2>2, ProcessTypes DEF LiveIsYounger
  <1> QED
    BY <1>2, <1>3

LEMMA SpawnKeepsYounger ==
  ASSUME TypeOK, LiveIsYounger, SpawnChildren
  PROVE  LiveIsYounger'
  <1>1. live'.inst \in Nat
    BY SpawnTouches, ControlAssumption DEF Lives
  <1>2. rows' = rows
    BY DEF SpawnChildren
  <1> QED
    BY <1>1, <1>2, SpawnTouches, ProcessTypes DEF LiveIsYounger

LEMMA RollBackKeepsYounger ==
  ASSUME TypeOK, LiveIsYounger, RollBack
  PROVE  LiveIsYounger'
  <1>1. run'.base = run.base /\ run'.spawned = run.spawned /\ run'.foreign = run.foreign
    BY Parts, SetStage DEF RollBack, Ends, Stages
  <1>2. /\ live'.inst = live.inst /\ (live'.up => live.up) /\ (~live.wanted => ~live'.wanted)
        /\ rows' = rows /\ stopped' = stopped
    BY StoppedLive, NotedLive, Parts DEF RollBack, history
  <1> QED
    BY <1>1, <1>2, ProcessTypes DEF LiveIsYounger

LEMMA LiveReportsKeepsYounger ==
  ASSUME TypeOK, LiveIsYounger, LiveReports
  PROVE  LiveIsYounger'
  <1>1. rows'.fresh => rows'.by > run.base
    <2>1. CASE rows' = [by |-> live.inst, fresh |-> TRUE, linked |-> TRUE]
      BY <2>1 DEF LiveReports, LiveIsYounger
    <2>2. CASE rows' = [rows EXCEPT !.linked = FALSE]
      BY <2>2, Parts DEF LiveIsYounger, Evidences
    <2> QED
      BY <2>1, <2>2 DEF LiveReports
  <1> QED
    BY <1>1 DEF LiveReports, LiveIsYounger, history

LEMMA MonitorKeepsYounger ==
  ASSUME TypeOK, LiveIsYounger, Monitor
  PROVE  LiveIsYounger'
  <1>1. live' = Restarted(live) /\ rows' = rows /\ run' = run /\ stopped' = stopped
    BY DEF Monitor, history
  <1>2. \/ live' = live
        \/ ~live.up /\ live.wanted /\ live'.inst = live.inst + 1 /\ live'.up /\ live'.wanted
    BY <1>1, RestartedLive, Parts
  <1> QED
    BY <1>1, <1>2, ProcessTypes DEF LiveIsYounger

LEMMA EnteringKeepsYounger ==
  ASSUME TypeOK, LiveIsYounger, (\E o \in Ops : Accept(o)) \/ (\E u \in Updates : Queues(u))
  PROVE  LiveIsYounger'
  <1>1. run' = Entered \/ run' = run
    BY DEF Accept, Queues, Entered
  <1>2. live' = live /\ rows' = rows /\ stopped' = stopped
    BY DEF Accept, Queues, children, history
  <1> QED
    BY <1>1, <1>2, Blank, QuietKeepsYounger

LEMMA OthersKeepYounger ==
  ASSUME TypeOK, LiveIsYounger,
         \/ LiveCrashes \/ ApiCrashes \/ ServerGivesUp \/ Status \/ DeadlinePasses \/ Operator
         \/ \E o \in Ops : Send(o) \/ Refused(o) \/ CallerGivesUp(o)
         \/ EnsureApi \/ Fetch \/ FetchFails \/ Advance
         \/ \E u \in Updates : Passes(u) \/ SwitchesDemo(u)
         \/ ControlEnds \/ ControlStarts
  PROVE  LiveIsYounger'
  <1>1. CASE LiveCrashes
    <2>1. FALSE \in BOOLEAN
      BY Zenon
    <2>2. live' = [live EXCEPT !.up = FALSE] /\ rows' = rows /\ run' = run /\ stopped' = stopped
      BY <1>1 DEF LiveCrashes, history
    <2>3. live'.inst = live.inst /\ live'.wanted = live.wanted /\ live'.up = FALSE
      BY <2>1, <2>2, SetLive, Parts
    <2> QED
      BY <2>2, <2>3, SameKeepsYounger DEF YoungerSame
  <1>2. CASE DeadlinePasses
    <2>1. run'.base = run.base /\ run'.spawned = run.spawned /\ run'.foreign = run.foreign
      BY <1>2, Parts DEF DeadlinePasses, Runs
    <2> QED
      BY <1>2, <2>1, QuietKeepsYounger DEF DeadlinePasses, children, history
  <1>3. CASE ControlEnds
    BY <1>3, ControlEndsStep, Blank, SameKeepsYounger DEF YoungerSame
  <1>4. CASE ControlStarts
    BY <1>4, ControlStartsStep, QuietKeepsYounger
  <1>5. CASE \/ ApiCrashes \/ ServerGivesUp \/ Operator
             \/ \E o \in Ops : Send(o) \/ Refused(o) \/ CallerGivesUp(o)
    <2>1. live' = live /\ rows' = rows /\ run' = run /\ stopped' = stopped
      BY <1>5, SMTT(30) DEF ApiCrashes, ServerGivesUp, Operator, Send, Refused, CallerGivesUp, children, history
    <2> QED
      BY <2>1, QuietKeepsYounger
  <1>6. CASE \/ Status \/ EnsureApi \/ Fetch \/ FetchFails \/ Advance
             \/ \E u \in Updates : Passes(u) \/ SwitchesDemo(u)
    <2>1. (live' = live \/ live' = Noted(live)) /\ rows' = rows /\ run' = run /\ stopped' = stopped
      BY <1>6 DEF Status, EnsureApi, Fetch, FetchFails, Advance, Passes, SwitchesDemo, NotesBoth, children, history
    <2> QED
      BY <2>1, QuietKeepsYounger, SMTT(30)
  <1> QED
    BY <1>1, <1>2, <1>3, <1>4, <1>5, <1>6

(* -------------------------- the whole invariant -------------------------- *)

LEMMA InvParts ==
  IInv <=> TypeOK /\ QueueInv /\ LoopInv /\ EndedIsBlank /\ LiveIsYounger
  BY DEF IInv, QueueInv, LoopInv

LEMMA InitInv == Init => IInv
  <1> SUFFICES ASSUME Init PROVE IInv
    OBVIOUS
  <1>1. TRUE \in BOOLEAN /\ FALSE \in BOOLEAN
    BY Zenon
  <1>2. /\ MaxSpawns \in Nat /\ MaxTrouble \in Nat /\ MaxSends \in Nat
        /\ 0 \in 0..MaxSpawns /\ 0 \in 0..MaxTrouble /\ 0 \in 0..MaxSends
    BY ControlAssumption
  <1>3. asked \in Scripts /\ asked.telegram \in Seq(WebCommands \cup {"foreign"})
    BY ControlAssumption DEF Init
  <1>4. Len(asked.telegram) \in Nat
    BY <1>3, LenProperties
  <1>5. live \in Lives /\ ~live.up /\ ~live.wanted /\ live.inst = 0
    BY <1>1, <1>2 DEF Init, Lives
  <1>6. api \in Apis /\ rows \in Evidences /\ ~rows.fresh
    BY <1>1, <1>2 DEF Init, Apis, Evidences, NoRows
  <1>7. telegram \in [sent : 0..Len(asked.telegram), read : 0..Len(asked.telegram)]
    BY <1>4 DEF Init
  <1>8. lock \in Seq(Entries) /\ lock = <<>> /\ DOMAIN lock = {}
    BY EmptySeq DEF Init
  <1>9. TypeOK
    <2>1. caller \in [Ops -> {"idle", "connecting", "waiting", "ok", "duplicate", "failed"}]
      BY DEF Init
    <2>2. sends \in [Ops -> 0..MaxSends]
      BY <1>2 DEF Init
    <2>3. ran \in [web : [Ops -> Nat], telegram : [Updates -> Nat]]
      BY DEF Init
    <2>4. offset \in [memory : Nat, file : Nat] /\ audited \subseteq Ops
      BY DEF Init
    <2>5. armed \in BOOLEAN /\ stopped \in BOOLEAN /\ up \in BOOLEAN
      BY <1>1 DEF Init
    <2>6. run \in Runs /\ loop \in Loops
      BY Blank, BootingLoop DEF Init
    <2> QED
      BY <1>2, <1>3, <1>5, <1>6, <1>7, <1>8, <2>1, <2>2, <2>3, <2>4, <2>5, <2>6 DEF Init, TypeOK, Loops
  <1>10. QueueInv
    BY <1>8, Blank, BootingLoop DEF Init, QueueInv, ServedIsQueued, SentOnce, OneUpdate
  <1>11. LoopInv /\ EndedIsBlank
    <2>1. ~InHand /\ loop.at # "done" /\ loop.recent = {}
      BY BootingLoop DEF Init, InHand
    <2>2. offset.memory = 1 /\ offset.file = 1 /\ telegram.sent = 0 /\ telegram.read = 0
      BY DEF Init
    <2>3. Updates = 1..Len(asked.telegram)
      BY <1>9, Kept
    <2>4. OffsetsInOrder
      BY <2>1, <2>2 DEF OffsetsInOrder
    <2>5. \A u \in Updates : ~(u < offset.memory \/ u < offset.file \/ u <= telegram.read)
      BY <1>4, <2>2, <2>3
    <2>6. AnsweredBehind /\ NothingSkipped
      BY <2>1, <2>5 DEF AnsweredBehind, NothingSkipped
    <2> QED
      BY <2>4, <2>6 DEF LoopInv, Init, EndedIsBlank
  <1>12. LiveIsYounger
    BY <1>5, <1>6, Blank DEF Init, LiveIsYounger
  <1> QED
    BY <1>9, <1>10, <1>11, <1>12, InvParts

LEMMA LockedKeepsInv ==
  ASSUME IInv, Locked
  PROVE  IInv'
  <1>1. TypeOK /\ QueueInv /\ LoopInv /\ EndedIsBlank /\ LiveIsYounger /\ ServedIsQueued
    BY InvParts DEF IInv
  <1>2. TypeOK' /\ RestIsFormed /\ (GoesOn \/ Leaves)
    BY <1>1, LockedStep
  <1>3. QueueInv'
    BY <1>1, <1>2, GoesOnKeepsQueue, LeavesKeepsQueue
  <1>4. asked' = asked /\ up' = up /\ offset' = offset /\ telegram' = telegram
    BY <1>2 DEF RestIsFormed
  <1>5. RanGrows
    <2>1. lock # <<>>
      BY <1>2 DEF GoesOn, Leaves
    <2>2. CASE Carried
      BY <1>1, <2>1, <2>2, CarriedCounts DEF RanGrows
    <2>3. CASE ran' = ran
      BY <1>1, <1>4, <2>3, SameRan
    <2> QED
      BY <1>2, <2>2, <2>3 DEF GoesOn, Leaves
  <1>6. /\ loop'.next = loop.next /\ loop'.last = loop.last /\ loop'.recent = loop.recent
        /\ loop'.at = loop.at \/ (loop.at = "locked" /\ loop'.at = "done" /\ ran.telegram[loop.next] > 0)
    <2>1. CASE loop' = loop
      BY <2>1
    <2>2. CASE Leaves /\ Holder[1] = "telegram" /\ run.stage # "entered" /\ loop' = [loop EXCEPT !.at = "done"]
      <3>1. /\ loop'.next = loop.next /\ loop'.last = loop.last /\ loop'.recent = loop.recent
            /\ loop'.at = "done"
        BY <1>1, <2>2, Kept DEF Loops
      <3>2. lock # <<>> /\ lock[1][1] = "telegram" /\ 1 \in DOMAIN lock
        BY <1>1, <2>2, HolderIs DEF Leaves
      <3>3. loop.at = "locked" /\ ran.telegram[loop.next] > 0
        BY <1>1, <2>2, <3>2 DEF QueueInv, ServedIsQueued, OneUpdate
      <3> QED
        BY <3>1, <3>3
    <2> QED
      BY <1>2, <2>1, <2>2 DEF GoesOn, Leaves
  <1>7. LoopInv'
    BY <1>1, <1>2, <1>4, <1>5, <1>6, Counters, StandingKeepsLoop
  <1>8. up
    BY DEF Locked, Duplicate, SwitchDemo, StartEnters, StopEnters, RestartEnters, Mt5Ready, AlreadyRuns, NotHealthy,
           SpawnChildren, VerifyReads, Verified, NotYet, RollBack, Finish, FinishTelegram, Holds, LoopFree
  <1>9. EndedIsBlank'
    BY <1>4, <1>8 DEF EndedIsBlank
  <1>10. LiveIsYounger'
    <2>1. CASE Duplicate \/ Finish \/ FinishTelegram
      BY <1>1, <2>1, ReleaseKeepsYounger
    <2>2. CASE SwitchDemo \/ Mt5Ready \/ AlreadyRuns \/ NotHealthy \/ Verified \/ NotYet \/ VerifyReads
      BY <1>1, <2>2, StagesKeepYounger
    <2>3. CASE StartEnters \/ StopEnters \/ RestartEnters
      BY <1>1, <2>3, StartEntersKeepsYounger, StopEntersKeepsYounger, RestartEntersKeepsYounger
    <2>4. CASE SpawnChildren \/ RollBack
      BY <1>1, <2>4, SpawnKeepsYounger, RollBackKeepsYounger
    <2> QED
      BY <2>1, <2>2, <2>3, <2>4 DEF Locked
  <1> QED
    BY <1>2, <1>3, <1>7, <1>9, <1>10 DEF IInv, QueueInv, LoopInv

LEMMA AsideKeepsInv ==
  ASSUME IInv,
         \/ LiveCrashes \/ ApiCrashes \/ LiveReports \/ Status \/ ServerGivesUp \/ DeadlinePasses \/ Operator
         \/ \E o \in Ops : Send(o) \/ Refused(o) \/ CallerGivesUp(o)
  PROVE  IInv'
  <1>1. TypeOK /\ QueueInv /\ LoopInv /\ EndedIsBlank /\ LiveIsYounger /\ SentOnce
    BY InvParts DEF IInv
  <1>2. TypeOK' /\ Aside
    BY <1>1, ProcessSteps, RequestSteps, ClockAndOperatorSteps
  <1>3. QueueInv'
    BY <1>1, <1>2, AsideKeepsQueue
  <1>4. asked' = asked /\ up' = up /\ offset' = offset /\ loop' = loop /\ ran' = ran
        /\ telegram'.read = telegram.read /\ telegram'.sent >= telegram.sent
    BY <1>2 DEF Aside
  <1>5. RanGrows
    BY <1>1, <1>4, SameRan
  <1>6. LoopInv'
    BY <1>1, <1>2, <1>4, <1>5, StandingKeepsLoop
  <1>7. EndedIsBlank'
    BY <1>1, <1>4 DEF EndedIsBlank, Booting
  <1>8. LiveIsYounger'
    <2>1. CASE LiveReports
      BY <1>1, <2>1, LiveReportsKeepsYounger
    <2>2. CASE ~LiveReports
      BY <1>1, <2>2, OthersKeepYounger
    <2> QED
      BY <2>1, <2>2
  <1> QED
    BY <1>2, <1>3, <1>6, <1>7, <1>8 DEF IInv, QueueInv, LoopInv

LEMMA AcceptKeepsInv ==
  ASSUME IInv, NEW o \in Ops, Accept(o)
  PROVE  IInv'
  <1>1. TypeOK /\ QueueInv /\ LoopInv /\ EndedIsBlank /\ LiveIsYounger /\ SentOnce
    BY InvParts DEF IInv
  <1>2. TypeOK' /\ UNCHANGED <<asked, up, loop, offset, telegram, ran>>
    BY <1>1, AcceptStep
  <1>3. QueueInv'
    BY <1>1, AcceptKeepsQueue
  <1>4. RanGrows
    BY <1>1, <1>2, SameRan
  <1>5. LoopInv'
    BY <1>1, <1>2, <1>4, Counters, StandingKeepsLoop
  <1>6. EndedIsBlank'
    BY <1>1, <1>2 DEF EndedIsBlank, Booting
  <1>7. LiveIsYounger'
    BY <1>1, EnteringKeepsYounger
  <1> QED
    BY <1>2, <1>3, <1>5, <1>6, <1>7 DEF IInv, QueueInv, LoopInv

LEMMA PollingKeepsInv ==
  ASSUME IInv, Polling
  PROVE  IInv'
  <1>1. TypeOK /\ QueueInv /\ LoopInv /\ EndedIsBlank /\ LiveIsYounger /\ SentOnce /\ OffsetsInOrder
    BY InvParts DEF IInv
  <1>2. CASE EnsureApi \/ Monitor \/ FetchFails
    <2>1. TypeOK' /\ LoopMoves
      BY <1>1, <1>2, ChildrenSteps
    <2>2. QueueInv' /\ LoopInv'
      BY <1>1, <1>2, <2>1, LoopMovesKeepsQueue, ChildrenKeepLoop
    <2>3. LiveIsYounger'
      <3>1. CASE Monitor
        BY <1>1, <3>1, MonitorKeepsYounger
      <3>2. CASE EnsureApi \/ FetchFails
        BY <1>1, <3>2, OthersKeepYounger
      <3> QED
        BY <1>2, <3>1, <3>2
    <2> QED
      BY <2>1, <2>2, <2>3 DEF IInv, QueueInv, LoopInv, EndedIsBlank, LoopMoves
  <1>3. CASE Fetch
    <2>1. TypeOK' /\ LoopMoves
      BY <1>1, <1>3, FetchStep
    <2>2. QueueInv' /\ LoopInv' /\ LiveIsYounger'
      BY <1>1, <1>3, <2>1, LoopMovesKeepsQueue, FetchKeepsLoop, OthersKeepYounger
    <2> QED
      BY <2>1, <2>2 DEF IInv, QueueInv, LoopInv, EndedIsBlank, LoopMoves
  <1>4. CASE \E u \in Updates : Passes(u) \/ SwitchesDemo(u)
    <2>1. PICK u \in Updates : Passes(u) \/ SwitchesDemo(u)
      BY <1>4
    <2>2. TypeOK' /\ LoopMoves
      BY <1>1, <2>1, HandlesStep
    <2>3. QueueInv' /\ LoopInv' /\ LiveIsYounger'
      BY <1>1, <2>1, <2>2, LoopMovesKeepsQueue, HandlesKeepsLoop, OthersKeepYounger
    <2> QED
      BY <2>2, <2>3 DEF IInv, QueueInv, LoopInv, EndedIsBlank, LoopMoves
  <1>5. CASE \E u \in Updates : Queues(u)
    <2>1. PICK u \in Updates : Queues(u)
      BY <1>5
    <2>2. TypeOK' /\ up' = up /\ up
      BY <1>1, <2>1, QueuesStep DEF Queues, Handles, LoopFree
    <2>3. QueueInv' /\ LoopInv' /\ LiveIsYounger'
      BY <1>1, <2>1, QueuesKeepsQueue, QueuesKeepsLoop, EnteringKeepsYounger
    <2> QED
      BY <2>2, <2>3 DEF IInv, QueueInv, LoopInv, EndedIsBlank
  <1>6. CASE Advance
    <2>1. TypeOK' /\ LoopMoves
      BY <1>1, <1>6, AdvanceStep
    <2>2. QueueInv' /\ LoopInv' /\ LiveIsYounger'
      BY <1>1, <1>6, <2>1, LoopMovesKeepsQueue, AdvanceKeepsLoop, OthersKeepYounger
    <2> QED
      BY <2>1, <2>2 DEF IInv, QueueInv, LoopInv, EndedIsBlank, LoopMoves
  <1> QED
    BY <1>2, <1>3, <1>4, <1>5, <1>6 DEF Polling

LEMMA ControlKeepsInv ==
  ASSUME IInv, ControlEnds \/ ControlStarts
  PROVE  IInv'
  <1>1. TypeOK /\ QueueInv /\ LoopInv /\ EndedIsBlank /\ LiveIsYounger
    BY InvParts
  <1>2. LiveIsYounger'
    BY <1>1, OthersKeepYounger
  <1>3. CASE ControlEnds
    <2>1. /\ TypeOK' /\ SentOnce' /\ lock' = <<>> /\ serving' = Nobody /\ run' = Idle /\ loop' = Booting
      BY <1>1, <1>3, ControlEndsStep
    <2>2. ServedIsQueued' /\ OneUpdate'
      <3>1. DOMAIN lock' = {} /\ run'.stage = "idle" /\ loop'.at = "boot"
        BY <2>1, Blank, BootingLoop
      <3>2. OneUpdate'
        BY <2>1, <3>1 DEF OneUpdate
      <3>3. (lock' = <<>>) = (run'.stage = "idle")
        BY <2>1, <3>1
      <3> QED
        BY <2>1, <3>1, <3>2, <3>3 DEF ServedIsQueued, Nobody
    <2>3. EndedIsBlank'
      BY <2>1 DEF EndedIsBlank, Booting
    <2> QED
      BY <1>1, <1>2, <1>3, <2>1, <2>2, <2>3, ControlEndsKeepsLoop DEF IInv, LoopInv
  <1>4. CASE ControlStarts
    <2>1. TypeOK' /\ up' /\ UNCHANGED <<asked, senders, lock, run, loop, telegram, ran>>
      BY <1>1, <1>4, ControlStartsStep DEF ControlStarts
    <2>2. ServedIsQueued' /\ OneUpdate'
      BY <1>1, <2>1 DEF QueueInv, ServedIsQueued, OneUpdate, Nobody, Tg, senders
    <2>3. SentOnce'
      BY <1>1, <2>1, SameSets DEF QueueInv, SentOnce, senders
    <2>4. EndedIsBlank'
      BY <2>1 DEF EndedIsBlank
    <2> QED
      BY <1>1, <1>2, <1>4, <2>1, <2>2, <2>3, <2>4, ControlStartsKeepsLoop DEF IInv, LoopInv
  <1> QED
    BY <1>3, <1>4

LEMMA StutterKeepsInv ==
  ASSUME IInv, UNCHANGED vars
  PROVE  IInv'
  <1>1. UNCHANGED <<asked, senders, up, lock, run, loop, offset, telegram, audited, armed, live, api, rows, trouble, ran, stopped>>
    BY DEF vars, records, children, history
  <1>2. TypeOK /\ QueueInv /\ LoopInv /\ EndedIsBlank /\ LiveIsYounger /\ SentOnce
    BY InvParts DEF IInv
  <1>3. TypeOK' /\ Aside
    <2>1. ElseIsFormed /\ LoopIsFormed
      BY <1>1, <1>2, Parts, Kept DEF ElseIsFormed, LoopIsFormed, senders
    <2> QED
      BY <1>1, <1>2, <2>1, Parts, Kept, FormedKeepsTypes DEF Aside, SentOnce, senders
  <1>4. QueueInv'
    BY <1>2, <1>3, AsideKeepsQueue
  <1>5. RanGrows
    BY <1>1, <1>2, SameRan
  <1>6. LoopInv'
    BY <1>1, <1>2, <1>3, <1>5, Counters, StandingKeepsLoop
  <1>7. EndedIsBlank' /\ LiveIsYounger'
    BY <1>1, <1>2 DEF EndedIsBlank, Booting, LiveIsYounger
  <1> QED
    BY <1>3, <1>4, <1>6, <1>7 DEF IInv, QueueInv, LoopInv

(* What every step keeps.                                                    *)
THEOREM Invariance == Spec => []IInv
  <1>1. IInv /\ [Next]_vars => IInv'
    <2>1. SUFFICES ASSUME IInv, [Next]_vars PROVE IInv'
      OBVIOUS
    <2>2. CASE Next
      <3>1. CASE Locked \/ Polling \/ ControlEnds \/ ControlStarts
        BY <2>1, <3>1, LockedKeepsInv, PollingKeepsInv, ControlKeepsInv
      <3>2. CASE \E o \in Ops : Accept(o)
        BY <2>1, <3>2, AcceptKeepsInv
      <3>3. CASE \/ LiveCrashes \/ ApiCrashes \/ LiveReports \/ Status \/ ServerGivesUp \/ DeadlinePasses \/ Operator
                 \/ \E o \in Ops : Send(o) \/ Refused(o) \/ CallerGivesUp(o)
        BY <2>1, <3>3, AsideKeepsInv
      <3> QED
        BY <2>2, <3>1, <3>2, <3>3 DEF Next
    <2>3. CASE UNCHANGED vars
      BY <2>1, <2>3, StutterKeepsInv
    <2> QED
      BY <2>1, <2>2, <2>3
  <1> QED
    BY <1>1, InitInv, PTL DEF Spec

(* ------------------------------- results --------------------------------- *)

(* No update of Telegram is skipped, a request that is served is in the      *)
(* queue of the lock, whose holder is the one in progress, and Live stays    *)
(* down after a stop.                                                        *)
THEOREM CommandsStayKept == Spec => []CommandsAreKept
  <1>1. IInv => CommandsAreKept
    BY DEF IInv, CommandsAreKept, StopHolds, LiveIsYounger
  <1> QED
    BY <1>1, Invariance, PTL

(* A step that carries out something is one of a command's first steps, or   *)
(* one of the loop at an update.                                             *)
LEMMA CarriedBy ==
  ASSUME IInv, [Next]_vars, ran' # ran
  PROVE  \/ lock # <<>> /\ ~Known /\ Carried /\ run.stage = "entered" /\ up
         \/ \E u \in Updates : SwitchesDemo(u)
  <1>1. CASE Locked
    <2>1. SwitchDemo \/ StartEnters \/ StopEnters \/ RestartEnters
      BY <1>1 DEF Locked, Duplicate, Mt5Ready, AlreadyRuns, NotHealthy, SpawnChildren, VerifyReads, Verified, NotYet,
                  RollBack, Finish, FinishTelegram, history
    <2> QED
      BY <2>1 DEF SwitchDemo, StartEnters, StopEnters, RestartEnters, Holds, LoopFree
  <1>2. CASE Polling
    BY <1>2 DEF Polling, EnsureApi, Monitor, Fetch, FetchFails, Passes, Queues, Advance, history
  <1>3. CASE ~Locked /\ ~Polling
    BY <1>3 DEF Next, vars, LiveCrashes, ApiCrashes, LiveReports, Send, Refused, Accept, CallerGivesUp, ServerGivesUp,
                Status, DeadlinePasses, Operator, ControlEnds, ControlStarts, history
  <1> QED
    BY <1>1, <1>2, <1>3

(* A web operation with an audit row, and an update below the offset in the  *)
(* file, is not carried out again, by this process or a later one.           *)
THEOREM DoneStaysFinal == Spec => DoneIsFinal
  <1>1. IInv /\ [Next]_vars => [\A o \in audited : ran'.web[o] = ran.web[o]]_vars
    <2>1. SUFFICES ASSUME IInv, [Next]_vars, NEW o \in audited PROVE ran'.web[o] = ran.web[o]
      OBVIOUS
    <2>2. TypeOK /\ o \in Ops
      BY <2>1 DEF IInv, TypeOK
    <2>3. CASE lock # <<>> /\ ~Known /\ Carried
      <3>1. ran'.web[o] = ran.web[o] \/ (Holder[1] = "web" /\ Holder[2] = o)
        BY <2>2, <2>3, CarriedCounts
      <3> QED
        BY <2>3, <3>1 DEF Known
    <2>4. CASE \E u \in Updates : SwitchesDemo(u)
      BY <2>2, <2>4, HandlesStep
    <2> QED
      BY <2>1, <2>3, <2>4, CarriedBy
  <1>2. IInv /\ [Next]_vars => [\A u \in Updates : u < offset.file => ran'.telegram[u] = ran.telegram[u]]_vars
    <2>1. SUFFICES ASSUME IInv, [Next]_vars, NEW u \in Updates, u < offset.file
                   PROVE  ran'.telegram[u] = ran.telegram[u]
      OBVIOUS
    <2>2. TypeOK /\ OffsetsInOrder /\ OneUpdate /\ ServedIsQueued
      BY <2>1 DEF IInv
    <2>3. CASE lock # <<>> /\ Carried /\ up
      <3>1. ran'.telegram[u] = ran.telegram[u] \/ (Holder[1] = "telegram" /\ Holder[2] = u)
        BY <2>2, <2>3, CarriedCounts
      <3>2. ASSUME Holder[1] = "telegram" PROVE Holder[2] # u
        <4>1. Holder = Tg(loop.next) /\ loop.at = "locked"
          BY <2>2, <2>3, <3>2, HolderIs DEF OneUpdate, ServedIsQueued
        <4>2. Holder[2] = loop.next /\ offset.file <= loop.next
          BY <2>2, <2>3, <4>1, Counters DEF OffsetsInOrder, InHand, Tg
        <4> QED
          BY <2>1, <2>2, <4>2, Counters
      <3> QED
        BY <3>1, <3>2
    <2>4. CASE \E v \in Updates : SwitchesDemo(v)
      <3>1. PICK v \in Updates : SwitchesDemo(v)
        BY <2>4
      <3>2. loop.at = "handle" /\ v = loop.next /\ up
        BY <3>1 DEF SwitchesDemo, Handles, LoopFree
      <3>3. u # v
        BY <2>1, <2>2, <3>2, Counters DEF OffsetsInOrder, InHand
      <3> QED
        BY <2>2, <3>1, <3>3, HandlesStep
    <2> QED
      BY <2>1, <2>3, <2>4, CarriedBy
  <1> QED
    BY <1>1, <1>2, Invariance, PTL DEF Spec, DoneIsFinal, AuditedIsFinal, ConfirmedIsFinal

(* The steps that bring a start from its later stages to its end, and the    *)
(* one that finds it ready.                                                  *)
LEMMA EndOfStart ==
  ASSUME TypeOK, [Next]_vars, run.stage \in {"spawn", "probe"}, run'.stage = "done"
  PROVE  SpawnChildren \/ Verified \/ RollBack
  <1>1. CASE Locked
    <2>1. ~Duplicate /\ ~SwitchDemo /\ ~StartEnters /\ ~StopEnters /\ ~RestartEnters /\ ~Mt5Ready /\ ~AlreadyRuns
          /\ ~NotHealthy /\ ~VerifyReads /\ ~Finish /\ ~FinishTelegram
      BY DEF Duplicate, SwitchDemo, StartEnters, StopEnters, RestartEnters, Mt5Ready, AlreadyRuns, NotHealthy,
             VerifyReads, Finish, FinishTelegram, Holds
    <2>2. ~NotYet
      BY SetStage, Parts, SMTT(30) DEF NotYet, Stages
    <2> QED
      BY <1>1, <2>1, <2>2 DEF Locked
  <1>2. CASE ~Locked
    <2>1. run' \in {run, Idle, Entered} \/ DeadlinePasses
      BY <1>2, ZenonT(40) DEF Next, vars, Polling, EnsureApi, Monitor, Fetch, FetchFails, Passes, SwitchesDemo, Queues, Advance,
                  LiveCrashes, ApiCrashes, LiveReports, Send, Refused, Accept, CallerGivesUp, ServerGivesUp,
                  Status, Operator, ControlEnds, ControlStarts, Entered
    <2>2. CASE DeadlinePasses
      BY <2>2, Parts DEF DeadlinePasses, Runs
    <2> QED
      BY <2>1, <2>2, Blank, SMTT(30)
  <1> QED
    BY <1>1, <1>2

(* A start that fails stops only a Live that it has spawned itself.          *)
THEOREM RollbackIsOwn == Spec => RollbackOwnsSpawn
  <1>1. IInv /\ [Next]_vars =>
          [run.stage \in {"spawn", "probe"} /\ run'.stage = "done" /\ live.up /\ ~live'.up
             => run.stage = "probe" /\ live.inst # run.foreign]_vars
    <2>1. SUFFICES ASSUME IInv, [Next]_vars, run.stage \in {"spawn", "probe"}, run'.stage = "done", live.up, ~live'.up
                   PROVE  run.stage = "probe" /\ live.inst # run.foreign
      OBVIOUS
    <2>2. TypeOK /\ LiveIsYounger
      BY <2>1 DEF IInv
    <2>3. CASE SpawnChildren
      BY <2>1, <2>2, <2>3, SpawnTouches
    <2>4. CASE Verified
      BY <2>1, <2>2, <2>4, NotedLive, Parts DEF Verified, NotesBoth
    <2>5. CASE RollBack
      <3>1. run.stage = "probe"
        BY <2>5 DEF RollBack, Holds
      <3>2. run.spawned
        BY <2>1, <2>2, <2>5, NotedLive, Parts DEF RollBack
      <3> QED
        BY <2>1, <2>2, <3>1, <3>2, ProcessTypes DEF LiveIsYounger
    <2> QED
      BY <2>1, <2>2, <2>3, <2>4, <2>5, EndOfStart
  <1> QED
    BY <1>1, Invariance, PTL DEF Spec, RollbackOwnsSpawn

(* A restart that reports success has seen rows of a Live that it has        *)
(* spawned.                                                                  *)
THEOREM ReadySawFresh == Spec => ReadyIsFresh
  <1>1. IInv /\ [Next]_vars => [run'.ready /\ ~run.ready => rows.by > run.base]_vars
    <2>1. SUFFICES ASSUME IInv, [Next]_vars, run'.ready, ~run.ready PROVE rows.by > run.base
      OBVIOUS
    <2>2. TypeOK /\ LiveIsYounger /\ ServedIsQueued
      BY <2>1 DEF IInv
    <2>3. CASE Verified
      BY <2>2, <2>3 DEF Verified, Evidence, Reported, LiveIsYounger
    <2>4. CASE Locked /\ ~Verified
      <3>1. CASE Duplicate \/ Finish \/ FinishTelegram
        <4>1. lock # <<>> /\ Release
          BY <2>2, <3>1 DEF Duplicate, Finish, FinishTelegram, Holds, ServedIsQueued
        <4> QED
          BY <2>1, <2>2, <4>1, ReleasePasses
      <3>2. CASE SpawnChildren
        BY <2>1, <2>2, <3>2, SpawnTouches
      <3>3. CASE \/ SwitchDemo \/ StartEnters \/ StopEnters \/ Mt5Ready \/ AlreadyRuns \/ NotHealthy
                 \/ NotYet \/ RollBack
        <4>1. PICK s \in Stages : run' = [run EXCEPT !.stage = s]
          BY <3>3 DEF SwitchDemo, StartEnters, StopEnters, Mt5Ready, AlreadyRuns, NotHealthy, NotYet, RollBack,
                      Ends, Stages
        <4> QED
          BY <2>1, <2>2, <4>1, SetStage, Parts
      <3>4. CASE VerifyReads \/ RestartEnters
        <4>1. run'.ready = run.ready
          BY <2>2, <3>4, Parts, ZenonT(40) DEF VerifyReads, RestartEnters, Ends, Runs
        <4> QED
          BY <2>1, <4>1
      <3> QED
        BY <2>4, <3>1, <3>2, <3>3, <3>4 DEF Locked
    <2>5. CASE ~Locked
      <3>1. run' \in {run, Idle, Entered} \/ DeadlinePasses
        BY <2>1, <2>5, ZenonT(40) DEF Next, vars, Polling, EnsureApi, Monitor, Fetch, FetchFails, Passes, SwitchesDemo, Queues,
                    Advance, LiveCrashes, ApiCrashes, LiveReports, Send, Refused, Accept, CallerGivesUp, ServerGivesUp,
                    Status, Operator, ControlEnds, ControlStarts, Entered
      <3>2. CASE DeadlinePasses
        BY <2>1, <2>2, <3>2, Parts DEF DeadlinePasses, Runs
      <3> QED
        BY <2>1, <3>1, <3>2, Blank, SMTT(30)
    <2> QED
      BY <2>3, <2>4, <2>5
  <1> QED
    BY <1>1, Invariance, PTL DEF Spec, ReadyIsFresh
==============================================================================
