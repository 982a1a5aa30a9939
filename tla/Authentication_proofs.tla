------------------------ MODULE Authentication_proofs -------------------------
(* Proofs about Authentication, for any finite set of accounts and any sets  *)
(* of sessions, requests and terminals.                                      *)
EXTENDS Authentication, FiniteSetTheorems, TLAPS

(* What no step undoes: an account keeps its role, and a session its user.   *)
RolesStay == \A a \in Accounts : role[a] # None => role'[a] = role[a]
UsersStay == \A s \in Sessions : session[s].user # None => session'[s].user = session[s].user

(* What the two final decisions forbid: a disabled account or a revoked      *)
(* session that comes back.                                                  *)
DisabledStay == \A a \in Accounts : state[a] = "REVOKED" => state'[a] = "REVOKED"
RevokedStay == \A s \in Sessions : session[s].revoked => session'[s].revoked

(* The invariant's part about accounts and their enrollments.                *)
AccountsHold ==
  /\ OwnersAgree /\ \A a \in Owners : state[a] = "ACTIVE"
  /\ ConsumedIsActivated
  /\ StrangersAreBlank

(* The sum of two times that the code adds stays within Times.               *)
LEMMA TimesOfClock ==
  ASSUME NEW at \in 0..MaxTime
  PROVE  /\ at \in Times /\ at + Absolute \in Times /\ at + TTL \in Times
         /\ at + Min2(Idle, Absolute) \in Times
         /\ 0 \in Times
  BY AuthAssumption DEF Times, Min2

LEMMA TouchedType ==
  ASSUME NEW at \in 0..MaxTime, NEW row \in SessionRows
  PROVE  Touched(row, at).seen \in Times /\ Touched(row, at).idle \in Times
  <1>1. /\ row.seen \in Times /\ row.idle \in Times /\ row.absolute \in Times /\ at \in Times
        /\ at + Idle \in Nat
    BY TimesOfClock, AuthAssumption DEF SessionRows, Times
  <1>2. Min2(at + Idle, row.absolute) \in Times
    BY <1>1, AuthAssumption DEF Min2, Times
  <1> QED
    BY <1>1, <1>2 DEF Touched

LEMMA BlankRows ==
  NoSession \in SessionRows /\ NoRequest \in RequestRows
  <1>1. 0 \in Times /\ 0 \in 0..MaxTime
    BY AuthAssumption DEF Times
  <1>2. NoSession \in SessionRows
    BY <1>1 DEF NoSession, SessionRows
  <1>3. NoRequest \in RequestRows
    BY <1>1, <1>2 DEF NoRequest, RequestRows, Ops, PreAuth, CsrfRequired, OwnerOps
  <1> QED
    BY <1>2, <1>3

(* A request moves, and is well formed where it goes; meanwhile no other     *)
(* request's account becomes active.                                         *)
LEMMA RequestMoves ==
  ASSUME IInv, RolesStay, UsersStay,
         NEW r \in Requests, NEW p \in Stages, NEW w \in RequestRows,
         stage' = [stage EXCEPT ![r] = p], req' = [req EXCEPT ![r] = w],
         IsFormed(p, w)', p = "user" => HasSeen(w)',
         p \in LoopStages => stage[r] \in LoopStages \/ LoopFree,
         \A q \in Requests \ {r} : stage[q] = "user" =>
           \A a \in Accounts : role[a] # None /\ state'[a] = "ACTIVE" => state[a] = "ACTIVE"
  PROVE  /\ stage' \in [Requests -> Stages] /\ req' \in [Requests -> RequestRows]
         /\ RequestsAreFormed' /\ LoopIsOne' /\ ActiveIsValid'
  <1>1. /\ stage \in [Requests -> Stages] /\ req \in [Requests -> RequestRows]
        /\ stage' \in [Requests -> Stages] /\ req' \in [Requests -> RequestRows]
        /\ stage'[r] = p /\ req'[r] = w
        /\ \A q \in Requests \ {r} : stage'[q] = stage[q] /\ req'[q] = req[q]
    BY DEF IInv, TypeOK
  <1>2. ASSUME NEW q \in Requests \ {r} PROVE IsFormed(stage[q], req[q])'
    <2>1. IsFormed(stage[q], req[q]) /\ req[q] \in RequestRows
      BY <1>1 DEF IInv, RequestsAreFormed
    <2>2. req[q].sessions \subseteq Sessions
      BY <2>1 DEF RequestRows
    <2> QED
      BY <1>1, <2>1, <2>2, AuthAssumption DEF IsFormed, RolesStay, UsersStay
  <1>3. RequestsAreFormed'
    BY <1>1, <1>2 DEF RequestsAreFormed
  <1>4. LoopIsOne'
    BY <1>1 DEF IInv, LoopIsOne, LoopStages, LoopFree
  <1>5. ASSUME NEW q \in Requests \ {r}, stage[q] = "user" PROVE HasSeen(req[q])'
    BY <1>1, <1>5 DEF IInv, ActiveIsValid, HasSeen, RolesStay
  <1>6. ActiveIsValid'
    BY <1>1, <1>5 DEF ActiveIsValid
  <1> QED
    BY <1>1, <1>3, <1>4, <1>6

(* A request ends.                                                           *)
LEMMA RequestEnds ==
  ASSUME IInv, RolesStay, UsersStay, NEW r \in Requests, Ends(r),
         \A q \in Requests \ {r} : stage[q] = "user" =>
           \A a \in Accounts : role[a] # None /\ state'[a] = "ACTIVE" => state[a] = "ACTIVE"
  PROVE  /\ stage' \in [Requests -> Stages] /\ req' \in [Requests -> RequestRows]
         /\ RequestsAreFormed' /\ LoopIsOne' /\ ActiveIsValid'
  <1>1. IsFormed("idle", NoRequest)'
    BY AuthAssumption DEF IsFormed, NoRequest
  <1>2. "idle" \in Stages /\ "idle" \notin LoopStages
    BY DEF Stages, LoopStages
  <1> QED
    BY <1>1, <1>2, BlankRows, RequestMoves DEF Ends

(* Steps that leave accounts and enrollments alone.                          *)
LEMMA AccountsUnchanged ==
  ASSUME IInv, UNCHANGED account, UNCHANGED enrollment
  PROVE  /\ AccountsHold' /\ RolesStay /\ DisabledStay
         /\ \A a \in Accounts : role[a] # None /\ state'[a] = "ACTIVE" => state[a] = "ACTIVE"
  BY DEF IInv, account, enrollment, AccountsHold, OwnersAgree, Owners, ConsumedIsActivated,
     StrangersAreBlank, RolesStay, DisabledStay

(* Steps that leave sessions alone.                                          *)
LEMMA SessionsUnchanged ==
  ASSUME IInv, RolesStay, UNCHANGED session
  PROVE  /\ session' \in [Sessions -> SessionRows]
         /\ SessionsAreOwned' /\ UsersStay /\ RevokedStay
  BY DEF IInv, TypeOK, SessionRows, SessionsAreOwned, UsersStay, RevokedStay, RolesStay

(* A write to open rows that keeps their user keeps every row owned.         *)
LEMMA SessionsTouched ==
  ASSUME IInv, RolesStay, session' \in [Sessions -> SessionRows],
         \A s \in Sessions :
           \/ session'[s] = session[s]
           \/ /\ session[s].user # None
              /\ session'[s].user = session[s].user
              /\ session[s].revoked => session'[s].revoked
  PROVE  SessionsAreOwned' /\ UsersStay /\ RevokedStay
  <1>1. UsersStay /\ RevokedStay
    BY DEF UsersStay, RevokedStay
  <1>2. ASSUME NEW s \in Sessions
        PROVE  IF session'[s].user = None THEN ~session'[s].revoked
                                          ELSE role'[session'[s].user] # None
    <2>1. session[s] \in SessionRows /\ SessionsAreOwned
      BY DEF IInv, TypeOK
    <2>2. CASE session[s].user = None
      <3>1. session'[s] = session[s]
        BY <2>2
      <3> QED
        BY <2>1, <2>2, <3>1 DEF SessionsAreOwned
    <2>3. CASE session[s].user # None
      <3>1. session'[s].user = session[s].user /\ session[s].user \in Accounts
        BY <2>1, <2>3 DEF SessionRows
      <3> QED
        BY <2>1, <2>3, <3>1 DEF SessionsAreOwned, RolesStay
    <2> QED
      BY <2>2, <2>3
  <1> QED
    BY <1>1, <1>2 DEF SessionsAreOwned

(* revoked_at is set for some rows that have a user.                         *)
LEMMA SessionsRevoked ==
  ASSUME IInv, RolesStay, NEW those \in SUBSET Sessions,
         \A s \in those : session[s].user # None,
         session' = Revoked(those)
  PROVE  /\ session' \in [Sessions -> SessionRows]
         /\ SessionsAreOwned' /\ UsersStay /\ RevokedStay
  <1>1. session \in [Sessions -> SessionRows] /\ TRUE \in BOOLEAN
    BY Zenon DEF IInv, TypeOK
  <1>2. \A s \in Sessions : /\ [session[s] EXCEPT !.revoked = TRUE] \in SessionRows
                            /\ [session[s] EXCEPT !.revoked = TRUE].user = session[s].user
                            /\ [session[s] EXCEPT !.revoked = TRUE].revoked
    BY <1>1 DEF SessionRows
  <1>3. \A s \in Sessions : session'[s] = IF s \in those THEN [session[s] EXCEPT !.revoked = TRUE]
                                                        ELSE session[s]
    BY DEF Revoked
  <1>4. session' \in [Sessions -> SessionRows]
    BY <1>1, <1>2 DEF Revoked
  <1> QED
    BY <1>2, <1>3, <1>4, SessionsTouched

(* ------------------------------- one step -------------------------------- *)

(* A step that moves one request and leaves all tables alone.                *)
LEMMA OnlyRequestMoves ==
  ASSUME IInv, UNCHANGED <<now, account, enrollment, session, shell>>,
         NEW r \in Requests, NEW p \in Stages, NEW w \in RequestRows, Goes(r, p, w),
         IsFormed(p, w), p = "user" => HasSeen(w),
         p \in LoopStages => stage[r] \in LoopStages \/ LoopFree
  PROVE  IInv' /\ DisabledStay /\ RevokedStay
  <1>1. /\ AccountsHold' /\ RolesStay /\ DisabledStay
        /\ \A a \in Accounts : role[a] # None /\ state'[a] = "ACTIVE" => state[a] = "ACTIVE"
    BY AccountsUnchanged
  <1>2. /\ session' \in [Sessions -> SessionRows]
        /\ SessionsAreOwned' /\ UsersStay /\ RevokedStay
    BY <1>1, SessionsUnchanged
  <1>3. IsFormed(p, w)' /\ (p = "user" => HasSeen(w)')
    BY DEF IsFormed, HasSeen, account
  <1>4. /\ stage' \in [Requests -> Stages] /\ req' \in [Requests -> RequestRows]
        /\ RequestsAreFormed' /\ LoopIsOne' /\ ActiveIsValid'
    BY <1>1, <1>2, <1>3, RequestMoves DEF Goes
  <1>5. TypeOK'
    BY <1>2, <1>4 DEF IInv, TypeOK, account, enrollment
  <1> QED
    BY <1>1, <1>2, <1>4, <1>5 DEF IInv, AccountsHold

LEMMA OnlyRequestEnds ==
  ASSUME IInv, UNCHANGED <<now, account, enrollment, session, shell>>,
         NEW r \in Requests, Ends(r)
  PROVE  IInv' /\ DisabledStay /\ RevokedStay
  <1>1. IsFormed("idle", NoRequest)
    BY AuthAssumption DEF IsFormed, NoRequest
  <1>2. "idle" \in Stages /\ "idle" \notin LoopStages /\ Goes(r, "idle", NoRequest)
    BY DEF Stages, LoopStages, Ends, Goes
  <1> QED
    BY <1>1, <1>2, BlankRows, OnlyRequestMoves

(* A request ends that revoked sessions, and did nothing else.               *)
LEMMA OnlySessionsRevoked ==
  ASSUME IInv, UNCHANGED <<now, account, enrollment, shell>>,
         NEW r \in Requests, Ends(r), NEW those \in SUBSET Sessions,
         \A s \in those : session[s].user # None, session' = Revoked(those)
  PROVE  IInv' /\ DisabledStay /\ RevokedStay
  <1>1. /\ AccountsHold' /\ RolesStay /\ DisabledStay
        /\ \A a \in Accounts : role[a] # None /\ state'[a] = "ACTIVE" => state[a] = "ACTIVE"
    BY AccountsUnchanged
  <1>2. /\ session' \in [Sessions -> SessionRows]
        /\ SessionsAreOwned' /\ UsersStay /\ RevokedStay
    BY <1>1, SessionsRevoked
  <1>3. /\ stage' \in [Requests -> Stages] /\ req' \in [Requests -> RequestRows]
        /\ RequestsAreFormed' /\ LoopIsOne' /\ ActiveIsValid'
    BY <1>1, <1>2, RequestEnds
  <1>4. TypeOK'
    BY <1>2, <1>3 DEF IInv, TypeOK, account, enrollment
  <1> QED
    BY <1>1, <1>2, <1>3, <1>4 DEF IInv, AccountsHold

(* A request arrives, with the row of its session.                           *)
LEMMA ArriveStep ==
  ASSUME IInv, NEW r \in Requests, Arrive(r) \/ ArrivePreAuth(r)
  PROVE  IInv' /\ DisabledStay /\ RevokedStay
  <1>1. CASE Arrive(r)
    <2>1. PICK op \in Ops \ PreAuth, who \in Accounts, about \in Accounts, s \in Sessions :
             /\ session[s].user # None /\ ~session[s].revoked
             /\ Goes(r, "user",
                     [op |-> op, who |-> who, about |-> about, s |-> s, at |-> now,
                      row |-> session[s], sessions |-> {},
                      valid |-> state[session[s].user] = "ACTIVE"])
      BY <1>1 DEF Arrive
    <2> DEFINE w == [op |-> op, who |-> who, about |-> about, s |-> s, at |-> now,
                     row |-> session[s], sessions |-> {},
                     valid |-> state[session[s].user] = "ACTIVE"]
    <2>2. session[s] \in SessionRows /\ now \in 0..MaxTime /\ now \in Times /\ now <= MaxTime
      BY TimesOfClock, AuthAssumption DEF IInv, TypeOK
    <2>3. session[s].user \in Accounts /\ role[session[s].user] # None
      BY <2>1, <2>2 DEF IInv, SessionsAreOwned, SessionRows
    <2>4. (state[session[s].user] = "ACTIVE") \in BOOLEAN
      OBVIOUS
    <2>6. w \in RequestRows
      BY <2>2, <2>4 DEF RequestRows
    <2>7. IsFormed("user", w)
      BY <2>1, <2>2 DEF IsFormed
    <2>8. HasSeen(w)
      BY <2>3 DEF HasSeen
    <2>9. "user" \in Stages /\ LoopFree /\ Goes(r, "user", w)
      BY <1>1, <2>1 DEF Stages, Arrive
    <2> HIDE DEF w
    <2> QED
      BY <1>1, <2>6, <2>7, <2>8, <2>9, OnlyRequestMoves DEF Arrive
  <1>2. CASE ArrivePreAuth(r)
    <2>1. PICK op \in PreAuth, who \in Accounts :
             Goes(r, "handle", [NoRequest EXCEPT !.op = op, !.who = who])
      BY <1>2 DEF ArrivePreAuth
    <2> DEFINE w == [NoRequest EXCEPT !.op = op, !.who = who]
    <2>2. w \in RequestRows
      BY BlankRows DEF RequestRows, Ops
    <2>3. IsFormed("handle", w)
      BY AuthAssumption DEF IsFormed, NoRequest
    <2>4. "handle" \in Stages /\ "handle" \notin LoopStages
      BY DEF Stages, LoopStages
    <2> QED
      BY <1>2, <2>1, <2>2, <2>3, <2>4, OnlyRequestMoves DEF ArrivePreAuth
  <1> QED
    BY <1>1, <1>2

(* The event loop decides about a request: its session is revoked, touched   *)
(* or left alone.                                                            *)
LEMMA AuthenticateStep ==
  ASSUME IInv, NEW r \in Requests, Authenticate(r)
  PROVE  IInv' /\ DisabledStay /\ RevokedStay
  <1> DEFINE q == req[r]
  <1>1. stage[r] = "user" /\ UNCHANGED <<now, account, enrollment, shell>>
    BY DEF Authenticate
  <1>2. /\ q \in RequestRows /\ q.row \in SessionRows /\ q.at \in 0..MaxTime
        /\ q.s \in Sessions /\ session[q.s].user # None /\ IsFormed("user", q)
        /\ IsFormed("handle", q)
    <2>1. q \in RequestRows /\ IsFormed("user", q)
      BY <1>1 DEF IInv, TypeOK, RequestsAreFormed
    <2> QED
      BY <2>1, AuthAssumption DEF RequestRows, IsFormed, Times
  <1>3. session \in [Sessions -> SessionRows] /\ session[q.s] \in SessionRows
    BY <1>2 DEF IInv, TypeOK
  <1>4. /\ AccountsHold' /\ RolesStay /\ DisabledStay
        /\ \A a \in Accounts : role[a] # None /\ state'[a] = "ACTIVE" => state[a] = "ACTIVE"
    BY <1>1, AccountsUnchanged
  <1>5. CASE Expired(q.row, q.at) /\ Ends(r) /\ session' = [session EXCEPT ![q.s].revoked = TRUE]
    <2>1. session' \in [Sessions -> SessionRows]
      BY <1>2, <1>3, <1>5 DEF SessionRows
    <2>2. SessionsAreOwned' /\ UsersStay /\ RevokedStay
      BY <1>2, <1>3, <1>4, <1>5, <2>1, SessionsTouched DEF SessionRows
    <2>3. /\ stage' \in [Requests -> Stages] /\ req' \in [Requests -> RequestRows]
          /\ RequestsAreFormed' /\ LoopIsOne' /\ ActiveIsValid'
      BY <1>4, <1>5, <2>2, RequestEnds
    <2>4. TypeOK'
      BY <1>1, <2>1, <2>3 DEF IInv, TypeOK, account, enrollment
    <2> QED
      BY <1>4, <2>2, <2>3, <2>4 DEF IInv, AccountsHold
  <1>6. CASE Ends(r) /\ UNCHANGED session
    BY <1>1, <1>6, OnlyRequestEnds
  <1>7. CASE /\ Goes(r, "handle", q)
             /\ session' = [session EXCEPT ![q.s].seen = Touched(q.row, q.at).seen,
                                           ![q.s].idle = Touched(q.row, q.at).idle]
    <2> DEFINE touched == Touched(q.row, q.at)
    <2>1. touched.seen \in Times /\ touched.idle \in Times
      BY <1>2, TouchedType
    <2> HIDE DEF touched
    <2>2. session' = [session EXCEPT ![q.s].seen = touched.seen, ![q.s].idle = touched.idle]
      BY <1>7 DEF touched
    <2>3. session' \in [Sessions -> SessionRows]
      BY <1>2, <1>3, <2>1, <2>2 DEF SessionRows
    <2>4. SessionsAreOwned' /\ UsersStay /\ RevokedStay
      BY <1>2, <1>3, <1>4, <2>2, <2>3, SessionsTouched DEF SessionRows
    <2>5. q.sessions \subseteq Sessions /\ "handle" \in Stages /\ "handle" \notin LoopStages
      BY <1>2 DEF RequestRows, Stages, LoopStages
    <2>6. \A p \in Stages, w \in RequestRows : w = q /\ p = "handle" => IsFormed(p, w)'
      BY <1>2, <1>4, <2>4, <2>5, AuthAssumption DEF IsFormed, RolesStay, UsersStay
    <2>7. /\ stage' \in [Requests -> Stages] /\ req' \in [Requests -> RequestRows]
          /\ RequestsAreFormed' /\ LoopIsOne' /\ ActiveIsValid'
      BY <1>2, <1>4, <1>7, <2>4, <2>5, <2>6, RequestMoves DEF Goes
    <2>8. TypeOK'
      BY <1>1, <2>3, <2>7 DEF IInv, TypeOK, account, enrollment
    <2> QED
      BY <1>4, <2>4, <2>7, <2>8 DEF IInv, AccountsHold
  <1> QED
    BY <1>5, <1>6, <1>7 DEF Authenticate

(* A route refuses, or a check succeeds whose write is another step.         *)
LEMMA CheckStep ==
  ASSUME IInv, NEW r \in Requests, Answer(r) \/ Login(r) \/ Enroll(r) \/ Disable(r)
  PROVE  IInv' /\ DisabledStay /\ RevokedStay
  <1> DEFINE q == req[r]
  <1>1. UNCHANGED <<now, account, enrollment, session, shell>> /\ stage[r] = "handle"
    BY DEF Answer, Login, Enroll, Disable, Handles
  <1>2. q \in RequestRows /\ IsFormed("handle", q)
    BY <1>1 DEF IInv, TypeOK, RequestsAreFormed
  <1>3. now \in Times /\ now <= MaxTime
    BY TimesOfClock, AuthAssumption DEF IInv, TypeOK
  <1>4. CASE Ends(r)
    BY <1>1, <1>4, OnlyRequestEnds
  <1>5. CASE /\ LoopFree /\ MayUse(q.who, q.who) /\ q.op = "login"
             /\ Goes(r, "insert", [q EXCEPT !.at = now])
    <2> DEFINE w == [q EXCEPT !.at = now]
    <2>1. w \in RequestRows
      BY <1>2, <1>3 DEF RequestRows
    <2>2. IsFormed("insert", w)
      BY <1>2, <1>3, <1>5 DEF IsFormed, RequestRows, MayUse
    <2>3. "insert" \in Stages
      BY DEF Stages
    <2> QED
      BY <1>1, <1>5, <2>1, <2>2, <2>3, OnlyRequestMoves
  <1>6. CASE LoopFree /\ q.op = "enroll" /\ Goes(r, "activate", [q EXCEPT !.at = now])
    <2> DEFINE w == [q EXCEPT !.at = now]
    <2>1. w \in RequestRows
      BY <1>2, <1>3 DEF RequestRows
    <2>2. IsFormed("activate", w)
      BY <1>2, <1>3, <1>6 DEF IsFormed, RequestRows
    <2>3. "activate" \in Stages
      BY DEF Stages
    <2> QED
      BY <1>1, <1>6, <2>1, <2>2, <2>3, OnlyRequestMoves
  <1>7. CASE /\ q.op = "disable" /\ role[q.about] = "ADMIN"
             /\ Goes(r, "writes", [q EXCEPT !.sessions = SessionsOf(q.about)])
    <2> DEFINE w == [q EXCEPT !.sessions = SessionsOf(q.about)]
    <2>1. w \in RequestRows
      BY <1>2 DEF RequestRows, SessionsOf
    <2>2. q.op \notin PreAuth
      BY <1>7 DEF PreAuth
    <2>3. q.about \in Accounts
      BY <1>2, <2>2 DEF IsFormed
    <2>4. \A s \in SessionsOf(q.about) : session[s].user # None
      BY <2>3, AuthAssumption DEF SessionsOf
    <2>5. IsFormed("writes", w)
      BY <1>2, <1>7, <2>2, <2>4 DEF IsFormed, RequestRows
    <2>6. "writes" \in Stages /\ "writes" \notin LoopStages
      BY DEF Stages, LoopStages
    <2> QED
      BY <1>1, <1>7, <2>1, <2>5, <2>6, OnlyRequestMoves
  <1> QED
    BY <1>4, <1>5, <1>6, <1>7 DEF Answer, Login, Enroll, Disable, Handles

(* A login inserts its session into a free row.                              *)
LEMMA LoginInsertsStep ==
  ASSUME IInv, NEW r \in Requests, LoginInserts(r)
  PROVE  IInv' /\ DisabledStay /\ RevokedStay
  <1> DEFINE q == req[r]
             row == [user |-> q.who, revoked |-> FALSE, seen |-> q.at,
                     idle |-> q.at + Min2(Idle, Absolute), absolute |-> q.at + Absolute]
  <1>1. PICK s \in Sessions : session[s].user = None /\ session' = [session EXCEPT ![s] = row]
    BY DEF LoginInserts
  <1>2. stage[r] = "insert" /\ Ends(r) /\ UNCHANGED <<now, account, enrollment, shell>>
    BY DEF LoginInserts
  <1>3. q \in RequestRows /\ IsFormed("insert", q)
    BY <1>2 DEF IInv, TypeOK, RequestsAreFormed
  <1>4. q.who \in Accounts /\ role[q.who] # None /\ q.at \in 0..MaxTime
    BY <1>3, AuthAssumption DEF IsFormed, RequestRows, Times
  <1>5. FALSE \in BOOLEAN
    BY Zenon
  <1>6. row \in SessionRows /\ row.user = q.who /\ row.revoked = FALSE
    BY <1>4, <1>5, TimesOfClock DEF SessionRows
  <1>7. /\ AccountsHold' /\ RolesStay /\ DisabledStay
        /\ \A a \in Accounts : role[a] # None /\ state'[a] = "ACTIVE" => state[a] = "ACTIVE"
    BY <1>2, AccountsUnchanged
  <1> HIDE DEF row
  <1>8. /\ session \in [Sessions -> SessionRows] /\ session' \in [Sessions -> SessionRows]
        /\ session'[s] = row /\ \A z \in Sessions \ {s} : session'[z] = session[z]
    BY <1>1, <1>6 DEF IInv, TypeOK
  <1>9. UsersStay /\ RevokedStay
    BY <1>1, <1>8 DEF UsersStay, RevokedStay, IInv, SessionsAreOwned
  <1>10. SessionsAreOwned'
    <2> SUFFICES ASSUME NEW z \in Sessions
                 PROVE  IF session'[z].user = None THEN ~session'[z].revoked
                                                   ELSE role'[session'[z].user] # None
      BY DEF SessionsAreOwned
    <2>1. CASE z = s
      BY <1>4, <1>6, <1>7, <1>8, <2>1, AuthAssumption DEF RolesStay
    <2>2. CASE z # s
      <3>1. session'[z] = session[z] /\ session[z].user \in Accounts \cup {None}
        BY <1>8, <2>2 DEF SessionRows
      <3> QED
        BY <1>7, <3>1 DEF RolesStay, IInv, SessionsAreOwned
    <2> QED
      BY <2>1, <2>2
  <1>11. /\ stage' \in [Requests -> Stages] /\ req' \in [Requests -> RequestRows]
         /\ RequestsAreFormed' /\ LoopIsOne' /\ ActiveIsValid'
    BY <1>2, <1>7, <1>9, RequestEnds
  <1>12. TypeOK'
    BY <1>2, <1>8, <1>11 DEF IInv, TypeOK, account, enrollment
  <1> QED
    BY <1>7, <1>9, <1>10, <1>11, <1>12 DEF IInv, AccountsHold

(* The conditional updates of an activation; no other request is between its *)
(* select and its decision.                                                  *)
LEMMA ActivateStep ==
  ASSUME IInv, NEW r \in Requests, Activate(r)
  PROVE  IInv' /\ DisabledStay /\ RevokedStay
  <1> DEFINE a == req[r].who
  <1>1. /\ stage[r] = "activate" /\ Ends(r)
        /\ UNCHANGED <<now, role, bound, expires, withdrawn, session, shell>>
    BY DEF Activate
  <1>2. a \in Accounts /\ \A q \in Requests \ {r} : stage[q] # "user"
    BY <1>1 DEF IInv, RequestsAreFormed, IsFormed, LoopIsOne, LoopStages
  <1>3. RolesStay
    BY <1>1 DEF RolesStay
  <1>4. /\ state' \in [Accounts -> {"NONE", "PENDING_APPROVAL", "ACTIVE", "REVOKED"}]
        /\ used' \in [Accounts -> BOOLEAN] /\ activations' \in [Accounts -> Nat]
        /\ AccountsHold' /\ DisabledStay
    <2>1. CASE ~(Open(a) /\ state[a] = "PENDING_APPROVAL")
      <3>1. UNCHANGED account /\ UNCHANGED enrollment
        BY <1>1, <2>1 DEF Activate, account, enrollment
      <3> QED
        BY <3>1, AccountsUnchanged DEF account, enrollment, IInv, TypeOK
    <2>2. CASE Open(a) /\ state[a] = "PENDING_APPROVAL"
      <3>1. /\ used' = [used EXCEPT ![a] = TRUE]
            /\ state' = [state EXCEPT ![a] = "ACTIVE"]
            /\ activations' = [activations EXCEPT ![a] = @ + 1]
        BY <2>2 DEF Activate
      <3>2. ~used[a] /\ ~withdrawn[a] /\ activations[a] = 0 /\ role[a] # None
        BY <1>2, <2>2 DEF Open, IInv, ConsumedIsActivated, StrangersAreBlank
      <3>3. /\ state' \in [Accounts -> {"NONE", "PENDING_APPROVAL", "ACTIVE", "REVOKED"}]
            /\ used' \in [Accounts -> BOOLEAN] /\ activations' \in [Accounts -> Nat]
        BY <3>1, <1>2 DEF IInv, TypeOK
      <3>4. OwnersAgree' /\ (\A b \in Owners : state[b] = "ACTIVE")'
        BY <1>1, <1>2, <3>1 DEF IInv, TypeOK, OwnersAgree, Owners
      <3>5. ConsumedIsActivated'
        BY <1>1, <1>2, <3>1, <3>2 DEF IInv, TypeOK, ConsumedIsActivated
      <3>6. StrangersAreBlank'
        BY <1>1, <1>2, <3>1, <3>2 DEF IInv, TypeOK, StrangersAreBlank
      <3>7. DisabledStay
        BY <1>2, <2>2, <3>1 DEF IInv, TypeOK, DisabledStay
      <3> QED
        BY <3>3, <3>4, <3>5, <3>6, <3>7 DEF AccountsHold
    <2> QED
      BY <2>1, <2>2
  <1>5. session' \in [Sessions -> SessionRows] /\ SessionsAreOwned' /\ UsersStay /\ RevokedStay
    BY <1>1, <1>3, SessionsUnchanged
  <1>6. /\ stage' \in [Requests -> Stages] /\ req' \in [Requests -> RequestRows]
        /\ RequestsAreFormed' /\ LoopIsOne' /\ ActiveIsValid'
    BY <1>1, <1>2, <1>3, <1>5, RequestEnds
  <1>7. TypeOK'
    BY <1>1, <1>4, <1>5, <1>6 DEF IInv, TypeOK
  <1> QED
    BY <1>4, <1>5, <1>6, <1>7 DEF IInv, AccountsHold

(* A new account: nobody was using its name.                                 *)
LEMMA InviteStep ==
  ASSUME IInv, NEW r \in Requests, Invite(r)
  PROVE  IInv' /\ DisabledStay /\ RevokedStay
  <1> DEFINE a == req[r].about
  <1>1. /\ stage[r] = "handle" /\ req[r].op = "invite" /\ Ends(r)
        /\ role[a] = None
        /\ role' = [role EXCEPT ![a] = "ADMIN"]
        /\ state' = [state EXCEPT ![a] = "PENDING_APPROVAL"]
        /\ bound' = [bound EXCEPT ![a] = TRUE]
        /\ expires' = [expires EXCEPT ![a] = now + TTL]
        /\ UNCHANGED <<now, used, withdrawn, activations, session, shell>>
    BY DEF Invite, Handles
  <1>2. a \in Accounts
    BY <1>1 DEF IInv, RequestsAreFormed, IsFormed, PreAuth
  <1>3. now + TTL \in Times /\ TRUE \in BOOLEAN
    BY TimesOfClock, Zenon DEF IInv, TypeOK
  <1>4. /\ role' \in [Accounts -> {"OWNER", "ADMIN", None}]
        /\ state' \in [Accounts -> {"NONE", "PENDING_APPROVAL", "ACTIVE", "REVOKED"}]
        /\ bound' \in [Accounts -> BOOLEAN] /\ expires' \in [Accounts -> Times]
    BY <1>1, <1>2, <1>3 DEF IInv, TypeOK
  <1>5. /\ RolesStay
        /\ \A b \in Accounts : role[b] # None /\ state'[b] = "ACTIVE" => state[b] = "ACTIVE"
    BY <1>1, <1>2 DEF RolesStay, IInv, TypeOK
  <1>6. state[a] = "NONE" /\ ~used[a] /\ ~withdrawn[a] /\ activations[a] = 0
    BY <1>1, <1>2 DEF IInv, StrangersAreBlank
  <1>7. OwnersAgree' /\ (\A b \in Owners : state[b] = "ACTIVE")'
    BY <1>1, <1>2 DEF IInv, TypeOK, OwnersAgree, Owners
  <1>8. ConsumedIsActivated' /\ StrangersAreBlank' /\ DisabledStay
    BY <1>1, <1>2, <1>6, AuthAssumption
       DEF IInv, TypeOK, ConsumedIsActivated, StrangersAreBlank, DisabledStay
  <1>9. session' \in [Sessions -> SessionRows] /\ SessionsAreOwned' /\ UsersStay /\ RevokedStay
    BY <1>1, <1>5, SessionsUnchanged
  <1>10. /\ stage' \in [Requests -> Stages] /\ req' \in [Requests -> RequestRows]
         /\ RequestsAreFormed' /\ LoopIsOne' /\ ActiveIsValid'
    BY <1>1, <1>5, <1>9, RequestEnds
  <1>11. TypeOK'
    BY <1>1, <1>4, <1>9, <1>10 DEF IInv, TypeOK
  <1> QED
    BY <1>7, <1>8, <1>9, <1>10, <1>11 DEF IInv

(* The writes of a disabling: only an ADMIN reaches them.                    *)
LEMMA DisableWritesStep ==
  ASSUME IInv, NEW r \in Requests, DisableWrites(r)
  PROVE  IInv' /\ DisabledStay /\ RevokedStay
  <1> DEFINE a == req[r].about
  <1>1. /\ stage[r] = "writes" /\ Ends(r)
        /\ state' = [state EXCEPT ![a] = "REVOKED"]
        /\ withdrawn' = [withdrawn EXCEPT ![a] = @ \/ Open(a)]
        /\ session' = Revoked(req[r].sessions)
        /\ UNCHANGED <<now, role, bound, expires, used, activations, shell>>
    BY DEF DisableWrites
  <1>2. /\ a \in Accounts /\ role[a] = "ADMIN"
        /\ req[r].sessions \in SUBSET Sessions
        /\ \A s \in req[r].sessions : session[s].user # None
    BY <1>1 DEF IInv, TypeOK, RequestRows, RequestsAreFormed, IsFormed
  <1>3. /\ RolesStay
        /\ \A b \in Accounts : role[b] # None /\ state'[b] = "ACTIVE" => state[b] = "ACTIVE"
    BY <1>1, <1>2 DEF RolesStay, IInv, TypeOK
  <1>4. state' \in [Accounts -> {"NONE", "PENDING_APPROVAL", "ACTIVE", "REVOKED"}]
    BY <1>1, <1>2 DEF IInv, TypeOK
  <1>5. withdrawn' \in [Accounts -> BOOLEAN] /\ \A b \in Accounts \ {a} : withdrawn'[b] = withdrawn[b]
    <2>1. withdrawn \in [Accounts -> BOOLEAN] /\ (withdrawn[a] \/ Open(a)) \in BOOLEAN
      BY Zenon DEF IInv, TypeOK
    <2> HIDE DEF a
    <2> QED
      BY <1>1, <1>2, <2>1, Zenon
  <1>6. OwnersAgree' /\ (\A b \in Owners : state[b] = "ACTIVE")'
    BY <1>1, <1>2 DEF IInv, TypeOK, OwnersAgree, Owners
  <1>7. ConsumedIsActivated' /\ StrangersAreBlank' /\ DisabledStay
    BY <1>1, <1>2, <1>5, AuthAssumption
       DEF IInv, TypeOK, ConsumedIsActivated, StrangersAreBlank, DisabledStay
  <1>8. session' \in [Sessions -> SessionRows] /\ SessionsAreOwned' /\ UsersStay /\ RevokedStay
    BY <1>1, <1>2, <1>3, SessionsRevoked
  <1>9. /\ stage' \in [Requests -> Stages] /\ req' \in [Requests -> RequestRows]
        /\ RequestsAreFormed' /\ LoopIsOne' /\ ActiveIsValid'
    BY <1>1, <1>3, <1>8, RequestEnds
  <1>10. TypeOK'
    BY <1>1, <1>4, <1>5, <1>8, <1>9 DEF IInv, TypeOK
  <1> QED
    BY <1>6, <1>7, <1>8, <1>9, <1>10 DEF IInv

(* The operations that revoke sessions, and nothing else.                    *)
LEMMA RevokingStep ==
  ASSUME IInv, NEW r \in Requests, RevokeAll(r) \/ Revoke(r) \/ Logout(r)
  PROVE  IInv' /\ DisabledStay /\ RevokedStay
  <1> DEFINE q == req[r]
  <1>1. /\ stage[r] = "handle" /\ Ends(r) /\ UNCHANGED <<now, account, enrollment, shell>>
        /\ q.op \notin PreAuth
    BY DEF RevokeAll, Revoke, Logout, Handles, PreAuth
  <1>2. /\ q.about \in Accounts /\ q.s \in Sessions /\ session[q.s].user # None
        /\ SessionsOf(q.about) \subseteq Sessions
        /\ \A s \in SessionsOf(q.about) : session[s].user # None
    BY <1>1, AuthAssumption DEF IInv, RequestsAreFormed, IsFormed, SessionsOf
  <1>3. \/ session' = Revoked(SessionsOf(q.about))
        \/ \E s \in SessionsOf(q.about) : session' = Revoked({s})
        \/ session' = Revoked({q.s})
    BY DEF RevokeAll, Revoke, Logout
  <1>4. PICK those \in SUBSET Sessions :
          session' = Revoked(those) /\ \A s \in those : session[s].user # None
    <2>1. ASSUME NEW s \in Sessions, session[s].user # None, session' = Revoked({s})
          PROVE  \E those \in SUBSET Sessions :
                   session' = Revoked(those) /\ \A z \in those : session[z].user # None
      <3> WITNESS {s} \in SUBSET Sessions
      <3> QED
        BY <2>1
    <2> QED
      BY <1>2, <1>3, <2>1
  <1> QED
    BY <1>1, <1>4, OnlySessionsRevoked

(* A terminal inserts the OWNER; the unique index makes it the first one.    *)
LEMMA BootstrapInsertStep ==
  ASSUME IInv, NEW t \in Shells, BootstrapInsert(t)
  PROVE  IInv' /\ DisabledStay /\ RevokedStay
  <1>1. /\ shell' = [shell EXCEPT ![t] = "idle"]
        /\ UNCHANGED <<now, enrollment, session, request>>
    BY DEF BootstrapInsert
  <1>2. shell' \in [Shells -> {"idle", "checked"}]
    BY <1>1 DEF IInv, TypeOK
  <1>3. CASE UNCHANGED account
    <2>1. AccountsHold' /\ RolesStay /\ DisabledStay
      BY <1>1, <1>3, AccountsUnchanged
    <2>2. session' \in [Sessions -> SessionRows] /\ SessionsAreOwned' /\ UsersStay /\ RevokedStay
      BY <1>1, <2>1, SessionsUnchanged
    <2>3. TypeOK' /\ RequestsAreFormed' /\ LoopIsOne' /\ ActiveIsValid'
      BY <1>1, <1>2, <1>3
         DEF IInv, TypeOK, account, enrollment, request, RequestsAreFormed, IsFormed, LoopIsOne,
             ActiveIsValid, HasSeen
    <2> QED
      BY <2>1, <2>2, <2>3 DEF IInv, AccountsHold
  <1>4. CASE Owners = {} /\ ~UNCHANGED account
    <2>1. PICK a \in Accounts, right \in BOOLEAN :
             /\ role[a] = None
             /\ role' = [role EXCEPT ![a] = "OWNER"]
             /\ state' = [state EXCEPT ![a] = "ACTIVE"]
             /\ bound' = [bound EXCEPT ![a] = right]
      BY <1>4 DEF BootstrapInsert
    <2>2. /\ role' \in [Accounts -> {"OWNER", "ADMIN", None}]
          /\ state' \in [Accounts -> {"NONE", "PENDING_APPROVAL", "ACTIVE", "REVOKED"}]
          /\ bound' \in [Accounts -> BOOLEAN]
      BY <2>1 DEF IInv, TypeOK
    <2>3. /\ RolesStay
          /\ \A b \in Accounts : role[b] # None => state'[b] = state[b]
      BY <2>1 DEF RolesStay, IInv, TypeOK
    <2>4. state[a] = "NONE" /\ ~used[a] /\ ~withdrawn[a] /\ activations[a] = 0
      BY <2>1 DEF IInv, StrangersAreBlank
    <2>5. OwnersAgree' /\ (\A b \in Owners : state[b] = "ACTIVE")'
      BY <1>4, <2>1 DEF IInv, TypeOK, OwnersAgree, Owners
    <2>6. ConsumedIsActivated' /\ StrangersAreBlank' /\ DisabledStay
      BY <1>1, <2>1, <2>4, AuthAssumption
         DEF IInv, TypeOK, enrollment, ConsumedIsActivated, StrangersAreBlank, DisabledStay
    <2>7. session' \in [Sessions -> SessionRows] /\ SessionsAreOwned' /\ UsersStay /\ RevokedStay
      BY <1>1, <2>3, SessionsUnchanged
    <2>8. RequestsAreFormed'
      BY <1>1, <2>3, AuthAssumption
         DEF IInv, RequestsAreFormed, IsFormed, request, RolesStay
    <2>9. LoopIsOne' /\ ActiveIsValid'
      BY <1>1, <2>3 DEF IInv, LoopIsOne, ActiveIsValid, HasSeen, request, RolesStay
    <2>10. TypeOK'
      BY <1>1, <1>2, <2>2, <2>7 DEF IInv, TypeOK, enrollment, request
    <2> QED
      BY <2>5, <2>6, <2>7, <2>8, <2>9, <2>10 DEF IInv
  <1> QED
    BY <1>3, <1>4 DEF BootstrapInsert

(* The clock, the first half of a bootstrap, and the repaired identity.      *)
LEMMA PlainStep ==
  ASSUME IInv, \/ Tick \/ CorrectIdentity \/ UNCHANGED vars
               \/ \E t \in Shells : BootstrapCheck(t)
  PROVE  IInv' /\ DisabledStay /\ RevokedStay
  <1>1. /\ UNCHANGED <<role, state, enrollment, session, request>>
        /\ now' \in 0..MaxTime /\ bound' \in [Accounts -> BOOLEAN]
        /\ shell' \in [Shells -> {"idle", "checked"}]
    <2>1. CASE Tick
      BY <2>1, AuthAssumption DEF Tick, IInv, TypeOK, account
    <2>2. CASE CorrectIdentity
      <3>1. PICK a \in Owners : bound' = [bound EXCEPT ![a] = TRUE]
        BY <2>2 DEF CorrectIdentity
      <3>2. bound' \in [Accounts -> BOOLEAN]
        BY <3>1 DEF IInv, TypeOK, Owners
      <3> QED
        BY <2>2, <3>2 DEF CorrectIdentity, IInv, TypeOK
    <2>3. CASE UNCHANGED vars
      BY <2>3 DEF vars, account, IInv, TypeOK
    <2>4. CASE \E t \in Shells : BootstrapCheck(t)
      BY <2>4 DEF BootstrapCheck, account, IInv, TypeOK
    <2> QED
      BY <2>1, <2>2, <2>3, <2>4
  <1>2. TypeOK' /\ OwnersAgree' /\ (\A b \in Owners : state[b] = "ACTIVE")'
    BY <1>1 DEF IInv, TypeOK, OwnersAgree, Owners, enrollment, request
  <1>3. ConsumedIsActivated' /\ StrangersAreBlank' /\ DisabledStay
    BY <1>1 DEF IInv, ConsumedIsActivated, StrangersAreBlank, DisabledStay, enrollment
  <1>4. SessionsAreOwned' /\ RevokedStay
    BY <1>1 DEF IInv, SessionsAreOwned, RevokedStay
  <1>5. RequestsAreFormed' /\ LoopIsOne' /\ ActiveIsValid'
    BY <1>1 DEF IInv, RequestsAreFormed, IsFormed, LoopIsOne, ActiveIsValid, HasSeen, request
  <1> QED
    BY <1>2, <1>3, <1>4, <1>5 DEF IInv

(* What every step keeps: the invariant, and the two final decisions.        *)
LEMMA EveryStep ==
  ASSUME IInv, [Next]_vars
  PROVE  IInv' /\ DisabledStay /\ RevokedStay
  BY ArriveStep, AuthenticateStep, CheckStep, LoginInsertsStep, ActivateStep, InviteStep,
     DisableWritesStep, RevokingStep, BootstrapInsertStep, PlainStep DEF Next, Progress

(* -------------------------------- theorems ------------------------------- *)

(* The inductive invariant of accounts, enrollments, sessions and requests.  *)
THEOREM Invariance == Spec => []IInv
<1>1. ASSUME Init PROVE IInv
  <2>1. /\ role = [a \in Accounts |-> None] /\ state = [a \in Accounts |-> "NONE"]
        /\ used = [a \in Accounts |-> FALSE] /\ withdrawn = [a \in Accounts |-> FALSE]
        /\ activations = [a \in Accounts |-> 0]
    BY <1>1 DEF Init
  <2>2. TypeOK
    <3>1. FALSE \in BOOLEAN /\ 0 \in Times /\ 0 \in 0..MaxTime /\ "idle" \in Stages
      BY AuthAssumption DEF Times, Stages
    <3> QED
      BY <1>1, <3>1, BlankRows DEF Init, TypeOK
  <2>3. Owners = {} /\ OwnersAgree
    BY <2>1, AuthAssumption DEF Owners, OwnersAgree
  <2>4. ConsumedIsActivated /\ StrangersAreBlank
    BY <2>1 DEF ConsumedIsActivated, StrangersAreBlank
  <2>5. SessionsAreOwned
    BY <1>1 DEF Init, SessionsAreOwned, NoSession
  <2>6. RequestsAreFormed /\ LoopIsOne /\ ActiveIsValid
    BY <1>1, AuthAssumption
       DEF Init, RequestsAreFormed, IsFormed, NoRequest, LoopIsOne, LoopStages, ActiveIsValid
  <2> QED
    BY <2>2, <2>3, <2>4, <2>5, <2>6 DEF IInv
<1>2. IInv /\ [Next]_vars => IInv'
  BY EveryStep
<1> QED
  BY <1>1, <1>2, PTL DEF Spec

(* There is at most one OWNER and it is ACTIVE, however many terminals race, *)
(* and an enrollment is consumed once, by the activation of its account.     *)
THEOREM AccountsStaySound == Spec => []AccountsAreSound
<1>1. ASSUME IInv PROVE AccountsAreSound
  <2>1. Cardinality(Owners) <= 1
    <3>1. CASE Owners = {}
      BY <3>1, FS_EmptySet
    <3>2. CASE Owners # {}
      <4>1. PICK a \in Owners : Owners = {a}
        BY <1>1, <3>2 DEF IInv, OwnersAgree
      <4> QED
        BY <4>1, FS_Singleton, SMTT(30)
    <3> QED
      BY <3>1, <3>2
  <2> QED
    BY <1>1, <2>1 DEF IInv, OneOwner, AccountsAreSound
<1> QED
  BY <1>1, Invariance, PTL

(* No step, whatever request or terminal takes it, brings a disabled account *)
(* or a revoked session back.                                                *)
THEOREM RefusalsStand == Spec => RefusalIsFinal
<1>1. IInv /\ [Next]_vars =>
        /\ [\A a \in Accounts : state[a] = "REVOKED" => state'[a] = "REVOKED"]_vars
        /\ [\A s \in Sessions : session[s].revoked => session'[s].revoked]_vars
  BY EveryStep DEF DisabledStay, RevokedStay
<1> QED
  BY <1>1, Invariance, PTL DEF Spec, RefusalIsFinal, DisabledIsFinal, RevocationIsFinal

(* A request is served only if its account was ACTIVE when it arrived: what  *)
(* it reads later can only be worse.                                         *)
THEOREM DisabledIsNotServed == Spec => NoServiceAfterDisabling
<1>1. IInv /\ [Next]_vars =>
        [\A r \in Requests : stage[r] = "user" /\ stage'[r] = "handle" => req[r].valid]_vars
  <2> SUFFICES ASSUME IInv, Next, NEW r \in Requests, stage[r] = "user", stage'[r] = "handle"
               PROVE  req[r].valid
    OBVIOUS
  <2>1. stage \in [Requests -> Stages]
    BY DEF IInv, TypeOK
  <2>2. PICK q \in Requests : Progress(q) \/ ArrivePreAuth(q) \/ Arrive(q)
    <3>1. Tick \/ CorrectIdentity \/ (\E t \in Shells : BootstrapCheck(t) \/ BootstrapInsert(t))
          => stage'[r] = stage[r]
      BY SMTT(30) DEF Tick, CorrectIdentity, BootstrapCheck, BootstrapInsert, request
    <3> QED
      BY <3>1 DEF Next
  <2>3. q = r
    BY <2>1, <2>2 DEF Progress, Authenticate, Answer, Login, LoginInserts, Enroll, Activate, Invite,
       Disable, DisableWrites, RevokeAll, Revoke, Logout, ArrivePreAuth, Arrive, Ends, Goes
  <2>4. Authenticate(r)
    BY <2>2, <2>3 DEF Progress, Answer, Login, LoginInserts, Enroll, Activate, Invite, Disable,
       DisableWrites, RevokeAll, Revoke, Logout, ArrivePreAuth, Arrive, Handles
  <2>5. state[req[r].row.user] = "ACTIVE"
    BY <2>1, <2>4 DEF Authenticate, Ends, MayUse
  <2> QED
    BY <2>5 DEF IInv, ActiveIsValid, HasSeen
<1> QED
  BY <1>1, Invariance, PTL DEF Spec, NoServiceAfterDisabling
==============================================================================
