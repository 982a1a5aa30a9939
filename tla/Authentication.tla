---------------------------- MODULE Authentication ----------------------------
(* services/authentication.py and its routes in api/app.py: the dashboard's  *)
(* accounts, enrollments and sessions in one SQLite database.                *)
(*                                                                           *)
(* Database.session opens a transaction at its first write, so a select and  *)
(* the write that depends on it are two steps; all writes of a session       *)
(* commit as one.  Handlers declared async, and the middleware, run in the   *)
(* event loop, one at a time; the others run in threads beside it.  Clocks   *)
(* count in units of the shortest timeout.                                   *)
EXTENDS Naturals, FiniteSets

CONSTANTS
  Accounts,   \* logins; each person's Tailscale identity is the account's
  Sessions,   \* ids of auth_sessions
  Requests,   \* HTTP requests in progress
  Shells,     \* terminals that run scripts/bootstrap_owner
  None,
  Idle, Absolute, Touch, TTL,   \* auth_session_*, ENROLLMENT_TTL
  MaxTime     \* bound: the clock

ASSUME AuthAssumption ==
  /\ None \notin Accounts \cup Sessions \cup {"OWNER", "ADMIN"}
  /\ {Idle, Absolute, Touch, TTL} \subseteq Nat \ {0}
  /\ MaxTime \in Nat
  /\ IsFiniteSet(Accounts)

VARIABLES
  now,
  role,         \* auth_users.role, None when there is no such account
  state,        \* auth_users.state
  bound,        \* bound_tailscale_login is the person's identity, not a typo
  expires,      \* auth_enrollments.expires_at
  used,         \* auth_enrollments.consumed_at is set
  withdrawn,    \* auth_enrollments.revoked_at is set
  activations,  \* ACCOUNT_ACTIVATED rows of auth_audit_events
  session,      \* auth_sessions
  shell,        \* where each bootstrap is
  stage,        \* where each request is
  req           \* what each request asks, and has read

account == <<role, state, bound>>
enrollment == <<expires, used, withdrawn, activations>>
request == <<stage, req>>
vars == <<now, account, enrollment, session, shell, request>>

Times == 0..(MaxTime + Absolute + TTL)
NoSession == [user |-> None, revoked |-> FALSE, seen |-> 0, idle |-> 0, absolute |-> 0]
SessionRows == [user : Accounts \cup {None}, revoked : BOOLEAN,
                seen : Times, idle : Times, absolute : Times]

(* classify_mutation: routes with a session and a CSRF token, without        *)
(* either, and routes that change nothing.                                   *)
OwnerOps == {"invite", "disable", "revoke", "revokeAll"}
CsrfRequired == OwnerOps \cup {"logout"}
PreAuth == {"login", "enroll"}
Ops == CsrfRequired \cup PreAuth \cup {"read"}

Stages == {"idle", "user", "handle", "insert", "activate", "writes"}
NoRequest == [op |-> "read", who |-> None, about |-> None, s |-> None,
              at |-> 0, row |-> NoSession, sessions |-> {}, valid |-> FALSE]
RequestRows == [op : Ops, who : Accounts \cup {None}, about : Accounts \cup {None},
                s : Sessions \cup {None}, at : Times, row : SessionRows,
                sessions : SUBSET Sessions, valid : BOOLEAN]

TypeOK ==
  /\ now \in 0..MaxTime
  /\ role \in [Accounts -> {"OWNER", "ADMIN", None}]
  /\ state \in [Accounts -> {"NONE", "PENDING_APPROVAL", "ACTIVE", "REVOKED"}]
  /\ bound \in [Accounts -> BOOLEAN]
  /\ expires \in [Accounts -> Times]
  /\ used \in [Accounts -> BOOLEAN]
  /\ withdrawn \in [Accounts -> BOOLEAN]
  /\ activations \in [Accounts -> Nat]
  /\ session \in [Sessions -> SessionRows]
  /\ shell \in [Shells -> {"idle", "checked"}]
  /\ stage \in [Requests -> Stages]
  /\ req \in [Requests -> RequestRows]

Init ==
  /\ now = 0
  /\ role = [a \in Accounts |-> None]
  /\ state = [a \in Accounts |-> "NONE"]
  /\ bound = [a \in Accounts |-> FALSE]
  /\ expires = [a \in Accounts |-> 0]
  /\ used = [a \in Accounts |-> FALSE]
  /\ withdrawn = [a \in Accounts |-> FALSE]
  /\ activations = [a \in Accounts |-> 0]
  /\ session = [s \in Sessions |-> NoSession]
  /\ shell = [t \in Shells |-> "idle"]
  /\ stage = [r \in Requests |-> "idle"]
  /\ req = [r \in Requests |-> NoRequest]
------------------------------------------------------------------------------
Owners == {a \in Accounts : role[a] = "OWNER"}

Tick ==
  /\ now < MaxTime
  /\ now' = now + 1
  /\ UNCHANGED <<account, enrollment, session, shell, request>>

(* bootstrap_owner finds no OWNER.                                           *)
BootstrapCheck(t) ==
  /\ shell[t] = "idle"
  /\ Owners = {}
  /\ shell' = [shell EXCEPT ![t] = "checked"]
  /\ UNCHANGED <<now, account, enrollment, session, request>>

(* Mutant: no unique index over the OWNER role.                              *)
BootstrapInsertUnguarded(t) ==
  /\ shell[t] = "checked"
  /\ shell' = [shell EXCEPT ![t] = "idle"]
  /\ \E a \in Accounts, right \in BOOLEAN :
       /\ role[a] = None
       /\ role' = [role EXCEPT ![a] = "OWNER"]
       /\ state' = [state EXCEPT ![a] = "ACTIVE"]
       /\ bound' = [bound EXCEPT ![a] = right]
  /\ UNCHANGED <<now, enrollment, session, request>>

(* ... and inserts one, with an identity that may be mistyped.  The unique   *)
(* indexes refuse a second OWNER and a login that exists.                    *)
BootstrapInsert(t) ==
  /\ shell[t] = "checked"
  /\ shell' = [shell EXCEPT ![t] = "idle"]
  /\ \/ /\ Owners = {}
        /\ \E a \in Accounts, right \in BOOLEAN :
             /\ role[a] = None
             /\ role' = [role EXCEPT ![a] = "OWNER"]
             /\ state' = [state EXCEPT ![a] = "ACTIVE"]
             /\ bound' = [bound EXCEPT ![a] = right]
     \/ Owners # {} /\ UNCHANGED account
  /\ UNCHANGED <<now, enrollment, session, request>>

(* correct_owner_identity repairs the mistyped identity, and nothing else.   *)
CorrectIdentity ==
  /\ \E a \in Owners : state[a] = "ACTIVE" /\ ~bound[a] /\ bound' = [bound EXCEPT ![a] = TRUE]
  /\ UNCHANGED <<now, role, state, enrollment, session, shell, request>>
------------------------------------------------------------------------------
(* The event loop runs nothing else between a select of these handlers and   *)
(* their write.                                                              *)
LoopFree == \A r \in Requests : stage[r] \notin {"user", "insert", "activate"}

Ends(r) == stage' = [stage EXCEPT ![r] = "idle"] /\ req' = [req EXCEPT ![r] = NoRequest]
Goes(r, next, what) == stage' = [stage EXCEPT ![r] = next] /\ req' = [req EXCEPT ![r] = what]

(* enforce_private_dashboard_boundary lets login and enrollment through ...  *)
ArrivePreAuth(r) ==
  /\ stage[r] = "idle"
  /\ \E op \in PreAuth, who \in Accounts :
       Goes(r, "handle", [NoRequest EXCEPT !.op = op, !.who = who])
  /\ UNCHANGED <<now, account, enrollment, session, shell>>

(* ... and looks up the session of the cookie for everything else; a CSRF    *)
(* token of another session is refused below.                                *)
Arrive(r) ==
  /\ stage[r] = "idle" /\ LoopFree
  /\ \E op \in Ops \ PreAuth, who, about \in Accounts, s \in Sessions :
       /\ session[s].user # None /\ ~session[s].revoked
       /\ Goes(r, "user",
               [op |-> op, who |-> who, about |-> about, s |-> s, at |-> now,
                row |-> session[s], sessions |-> {},
                valid |-> state[session[s].user] = "ACTIVE"])
  /\ UNCHANGED <<now, account, enrollment, session, shell>>

Expired(row, at) == row.absolute <= at \/ row.idle <= at
Min2(m, n) == IF m < n THEN m ELSE n

Touched(row, at) ==
  IF at - row.seen >= Touch THEN [seen |-> at, idle |-> Min2(at + Idle, row.absolute)]
                            ELSE [seen |-> row.seen, idle |-> row.idle]

MayUse(a, who) == state[a] = "ACTIVE" /\ role[a] # None /\ bound[a] /\ a = who

(* Mutant: the whole row that was read is written back.                      *)
AuthenticateRewriting(r) ==
  /\ stage[r] = "user"
  /\ LET q == req[r] IN
     /\ ~Expired(q.row, q.at) /\ MayUse(q.row.user, q.who)
     /\ Goes(r, "handle", q)
     /\ session' = [session EXCEPT ![q.s] = [q.row EXCEPT !.seen = Touched(q.row, q.at).seen,
                                                          !.idle = Touched(q.row, q.at).idle]]
  /\ UNCHANGED <<now, account, enrollment, shell>>

(* Mutant: the state of the account is not looked at.                        *)
AuthenticateAnyState(r) ==
  /\ stage[r] = "user"
  /\ LET q == req[r] IN
     /\ ~Expired(q.row, q.at) /\ bound[q.row.user] /\ q.row.user = q.who
     /\ Goes(r, "handle", q)
  /\ UNCHANGED <<now, account, enrollment, session, shell>>

(* authenticate selects the user and decides: an expired session is revoked, *)
(* an unusable account is refused, a session in use is touched (only the     *)
(* touched columns are written).                                             *)
Authenticate(r) ==
  /\ stage[r] = "user"
  /\ LET q == req[r] IN
     \/ /\ Expired(q.row, q.at)
        /\ session' = [session EXCEPT ![q.s].revoked = TRUE]
        /\ Ends(r)
     \/ /\ ~Expired(q.row, q.at) /\ ~MayUse(q.row.user, q.who)
        /\ Ends(r) /\ UNCHANGED session
     \/ /\ ~Expired(q.row, q.at) /\ MayUse(q.row.user, q.who)
        /\ session' = [session EXCEPT ![q.s].seen = Touched(q.row, q.at).seen,
                                      ![q.s].idle = Touched(q.row, q.at).idle]
        /\ Goes(r, "handle", q)
  /\ UNCHANGED <<now, account, enrollment, shell>>

(* Whatever reaches the handler of its route.                                *)
Handles(r, op) == stage[r] = "handle" /\ req[r].op = op

(* Any mutation may lack the CSRF token of its session.                      *)
Unconfirmed(r) == req[r].op \in CsrfRequired

(* _owner_actor refuses everybody else.                                      *)
NotTheOwner(r) == req[r].op \in OwnerOps /\ role[req[r].who] # "OWNER"

(* A read is answered, and what the routes refuse.                           *)
Answer(r) ==
  /\ stage[r] = "handle"
  /\ req[r].op = "read" \/ Unconfirmed(r) \/ NotTheOwner(r)
  /\ Ends(r)
  /\ UNCHANGED <<now, account, enrollment, session, shell>>

(* _owner_in_session, which every owner's operation repeats.                 *)
ByOwner(r) == role[req[r].who] = "OWNER" /\ MayUse(req[r].who, req[r].who)
------------------------------------------------------------------------------
(* login checks the account; a wrong password is refused like the rest.      *)
Login(r) ==
  /\ Handles(r, "login") /\ LoopFree
  /\ \/ /\ MayUse(req[r].who, req[r].who)
        /\ \E s \in Sessions : session[s].user = None   \* bound: the ids
        /\ Goes(r, "insert", [req[r] EXCEPT !.at = now])
     \/ Ends(r)
  /\ UNCHANGED <<now, account, enrollment, session, shell>>

LoginInserts(r) ==
  /\ stage[r] = "insert"
  /\ \E s \in Sessions :
       /\ session[s].user = None
       /\ session' = [session EXCEPT ![s] =
            [user |-> req[r].who, revoked |-> FALSE, seen |-> req[r].at,
             idle |-> req[r].at + Min2(Idle, Absolute), absolute |-> req[r].at + Absolute]]
  /\ Ends(r)
  /\ UNCHANGED <<now, account, enrollment, shell>>

Open(a) == ~used[a] /\ ~withdrawn[a]

(* activate_enrollment: the secret, and the identity that must match.        *)
Enroll(r) ==
  /\ Handles(r, "enroll") /\ LoopFree
  /\ LET a == req[r].who IN
     \/ /\ state[a] = "PENDING_APPROVAL" /\ bound[a] /\ Open(a) /\ now < expires[a]
        /\ Goes(r, "activate", [req[r] EXCEPT !.at = now])
     \/ Ends(r)
  /\ UNCHANGED <<now, account, enrollment, session, shell>>

(* Mutant: the updates are by id only.                                       *)
ActivateById(r) ==
  /\ stage[r] = "activate"
  /\ LET a == req[r].who IN
     /\ used' = [used EXCEPT ![a] = TRUE]
     /\ state' = [state EXCEPT ![a] = "ACTIVE"]
     /\ activations' = [activations EXCEPT ![a] = @ + 1]
  /\ Ends(r)
  /\ UNCHANGED <<now, role, bound, expires, withdrawn, session, shell>>

(* Mutant: the enrollment is consumed although the account has changed.      *)
ActivateKeepingConsumption(r) ==
  /\ stage[r] = "activate"
  /\ LET a == req[r].who IN
     /\ used' = [used EXCEPT ![a] = TRUE]
     /\ IF state[a] = "PENDING_APPROVAL"
        THEN /\ state' = [state EXCEPT ![a] = "ACTIVE"]
             /\ activations' = [activations EXCEPT ![a] = @ + 1]
        ELSE UNCHANGED <<state, activations>>
  /\ Ends(r)
  /\ UNCHANGED <<now, role, bound, expires, withdrawn, session, shell>>

(* The conditional updates of enrollment and account, in one transaction:    *)
(* both, or nothing.                                                         *)
Activate(r) ==
  /\ stage[r] = "activate"
  /\ LET a == req[r].who IN
     IF Open(a) /\ state[a] = "PENDING_APPROVAL"
     THEN /\ used' = [used EXCEPT ![a] = TRUE]
          /\ state' = [state EXCEPT ![a] = "ACTIVE"]
          /\ activations' = [activations EXCEPT ![a] = @ + 1]
     ELSE UNCHANGED <<used, state, activations>>
  /\ Ends(r)
  /\ UNCHANGED <<now, role, bound, expires, withdrawn, session, shell>>

(* create_invitation: a pending ADMIN and its enrollment, or a login that    *)
(* exists already.                                                           *)
Invite(r) ==
  /\ Handles(r, "invite") /\ LoopFree /\ ByOwner(r)
  /\ LET a == req[r].about IN
     /\ role[a] = None
     /\ role' = [role EXCEPT ![a] = "ADMIN"]
     /\ state' = [state EXCEPT ![a] = "PENDING_APPROVAL"]
     /\ bound' = [bound EXCEPT ![a] = TRUE]
     /\ expires' = [expires EXCEPT ![a] = now + TTL]
  /\ Ends(r)
  /\ UNCHANGED <<now, used, withdrawn, activations, session, shell>>

(* Mutant: the OWNER may be disabled too.                                    *)
DisableAnyone(r) ==
  /\ Handles(r, "disable") /\ ByOwner(r)
  /\ LET a == req[r].about IN
     /\ role[a] # None /\ state[a] # "REVOKED"
     /\ Goes(r, "writes", req[r])
  /\ UNCHANGED <<now, account, enrollment, session, shell>>

SessionsOf(a) == {s \in Sessions : session[s].user = a /\ ~session[s].revoked}
Revoked(those) == [s \in Sessions |-> IF s \in those THEN [session[s] EXCEPT !.revoked = TRUE]
                                                     ELSE session[s]]

(* disable_account selects the account and its open sessions ...             *)
Disable(r) ==
  /\ Handles(r, "disable") /\ ByOwner(r)
  /\ LET a == req[r].about IN
     /\ role[a] = "ADMIN" /\ state[a] # "REVOKED"
     /\ Goes(r, "writes", [req[r] EXCEPT !.sessions = SessionsOf(a)])
  /\ UNCHANGED <<now, account, enrollment, session, shell>>

(* Mutant: the name the API shows is written.                                *)
DisableWritesShownState(r) ==
  /\ stage[r] = "writes"
  /\ LET a == req[r].about IN
     /\ state' = [state EXCEPT ![a] = "DISABLED"]
     /\ withdrawn' = [withdrawn EXCEPT ![a] = @ \/ Open(a)]
     /\ session' = Revoked(req[r].sessions)
  /\ Ends(r)
  /\ UNCHANGED <<now, role, bound, expires, used, activations, shell>>

(* ... and writes the account, those sessions and the open enrollment.  A    *)
(* session that a login inserted in between stays open, and is of no use.    *)
DisableWrites(r) ==
  /\ stage[r] = "writes"
  /\ LET a == req[r].about IN
     /\ state' = [state EXCEPT ![a] = "REVOKED"]
     /\ withdrawn' = [withdrawn EXCEPT ![a] = @ \/ Open(a)]
     /\ session' = Revoked(req[r].sessions)
  /\ Ends(r)
  /\ UNCHANGED <<now, role, bound, expires, used, activations, shell>>

(* revoke_all_account_sessions: one conditional update.                      *)
RevokeAll(r) ==
  /\ Handles(r, "revokeAll") /\ ByOwner(r)
  /\ session' = Revoked(SessionsOf(req[r].about))
  /\ Ends(r)
  /\ UNCHANGED <<now, account, enrollment, shell>>

(* revoke_account_session and logout set revoked_at of one row: a row that   *)
(* somebody else revokes meanwhile is revoked either way.                    *)
Revoke(r) ==
  /\ Handles(r, "revoke") /\ ByOwner(r)
  /\ \E s \in SessionsOf(req[r].about) : session' = Revoked({s})
  /\ Ends(r)
  /\ UNCHANGED <<now, account, enrollment, shell>>

Logout(r) ==
  /\ Handles(r, "logout") /\ bound[req[r].who]
  /\ session' = Revoked({req[r].s})
  /\ Ends(r)
  /\ UNCHANGED <<now, account, enrollment, shell>>
------------------------------------------------------------------------------
Progress(r) ==
  \/ Authenticate(r) \/ Answer(r)
  \/ Login(r) \/ LoginInserts(r) \/ Enroll(r) \/ Activate(r)
  \/ Invite(r) \/ Disable(r) \/ DisableWrites(r)
  \/ RevokeAll(r) \/ Revoke(r) \/ Logout(r)

Next ==
  \/ Tick \/ CorrectIdentity
  \/ \E t \in Shells : BootstrapCheck(t) \/ BootstrapInsert(t)
  \/ \E r \in Requests : ArrivePreAuth(r) \/ Arrive(r) \/ Progress(r)

Spec == Init /\ [][Next]_vars
------------------------------------------------------------------------------
(* There is at most one OWNER, whatever terminals race, and nothing takes    *)
(* its account away.                                                         *)
OneOwner == Cardinality(Owners) <= 1 /\ \A a \in Owners : state[a] = "ACTIVE"

(* An enrollment is consumed exactly when it activates its account: never    *)
(* for nothing, never twice, whatever happens to the account meanwhile.      *)
ConsumedIsActivated ==
  \A a \in Accounts :
    /\ activations[a] = IF used[a] THEN 1 ELSE 0
    /\ used[a] => state[a] \in {"ACTIVE", "REVOKED"}
    /\ state[a] = "PENDING_APPROVAL" => ~used[a] /\ ~withdrawn[a]

(* A disabled account stays disabled: no activation in progress brings it    *)
(* back.                                                                     *)
DisabledIsFinal == [][\A a \in Accounts : state[a] = "REVOKED" => state'[a] = "REVOKED"]_vars

(* A revoked session stays revoked: no request that read it before writes it *)
(* back.                                                                     *)
RevocationIsFinal == [][\A s \in Sessions : session[s].revoked => session'[s].revoked]_vars

(* No request that arrives after its account was disabled is served, the     *)
(* sessions that the disabling missed included.                              *)
NoServiceAfterDisabling ==
  [][\A r \in Requests : stage[r] = "user" /\ stage'[r] = "handle" => req[r].valid]_vars

(* What makes these inductive: owners are one, an account that does not      *)
(* exist is blank, and so is a free session id ...                           *)
OwnersAgree == \A a, b \in Owners : a = b
StrangersAreBlank ==
  \A a \in Accounts :
    role[a] = None => state[a] = "NONE" /\ ~used[a] /\ ~withdrawn[a] /\ activations[a] = 0
SessionsAreOwned ==
  \A s \in Sessions : IF session[s].user = None THEN ~session[s].revoked
                                                ELSE role[session[s].user] # None

(* ... a request past its arrival is about accounts and sessions that exist, *)
(* the event loop is in one handler, and a session's request that finds its  *)
(* account ACTIVE has found it so since it arrived.                          *)
IsFormed(place, q) ==
  /\ q.at <= MaxTime
  /\ place # "idle" => q.who \in Accounts
  /\ place \in {"user", "writes"} => q.op \notin PreAuth
  /\ place # "idle" /\ q.op \notin PreAuth =>
       q.about \in Accounts /\ q.s \in Sessions /\ session[q.s].user # None
  /\ \A s \in q.sessions : session[s].user # None
  /\ place = "insert" => role[q.who] # None
  /\ place = "writes" => role[q.about] = "ADMIN"
HasSeen(q) ==
  LET a == q.row.user IN
  a \in Accounts /\ role[a] # None /\ (state[a] = "ACTIVE" => q.valid)

LoopStages == {"user", "insert", "activate"}
RequestsAreFormed == \A r \in Requests : IsFormed(stage[r], req[r])
ActiveIsValid == \A r \in Requests : stage[r] = "user" => HasSeen(req[r])
LoopIsOne == \A r, q \in Requests : stage[r] \in LoopStages /\ stage[q] \in LoopStages => r = q

IInv ==
  /\ TypeOK
  /\ OwnersAgree /\ \A a \in Owners : state[a] = "ACTIVE"
  /\ ConsumedIsActivated
  /\ StrangersAreBlank /\ SessionsAreOwned
  /\ RequestsAreFormed /\ LoopIsOne /\ ActiveIsValid

(* What holds in every state: one owner, and an enrollment that is consumed  *)
(* activated its account.                                                    *)
AccountsAreSound == TypeOK /\ OneOwner /\ ConsumedIsActivated

(* Neither a disabled account nor a revoked session ever comes back.         *)
RefusalIsFinal == DisabledIsFinal /\ RevocationIsFinal
==============================================================================
