-------------------------------- MODULE Access --------------------------------
(***************************************************************************)
(* Who the server answers: login, refresh and the tokens of the web app    *)
(* and of paired desktop apps (auth.service.ts), and the checks of every   *)
(* request that carries an access token (jwt.strategy.ts, roles.guard.ts). *)
(*                                                                         *)
(* Tokens are signed claims: what an access token says of its employee is  *)
(* as old as the row it was built from, while the employee's standing and  *)
(* the device session are read at every request.  Time only shows in how   *)
(* long a token has left.  A step of a worker is one database call, or the *)
(* wait for bcrypt, with the code up to the next one.                      *)
(***************************************************************************)
EXTENDS RowStore, Integers, Sequences, FiniteSets

CONSTANTS
    Workers,        \* request contexts of the server
    Employees,
    Clients,        \* browsers and desktop apps,
    Apps,           \* the latter
    Roles, Passwords,
    Endpoints,      \* the arguments of @Roles() on the handlers
    Signatures,     \* what tells refresh tokens of one session apart
    AccessTtl, RefreshTtl,  \* JWT_ACCESS_EXPIRES_IN, JWT_REFRESH_EXPIRES_IN
    MaxSessions     \* bound on device sessions

ASSUME AccessAssumption ==
    /\ IsFiniteSet(Workers)
    /\ Apps \subseteq Clients
    /\ Endpoints \subseteq SUBSET Roles
    /\ {AccessTtl, RefreshTtl} \subseteq Nat \ {0}
    /\ MaxSessions \in Nat
    /\ Null \notin Nat \cup Signatures

VARIABLES
    account,    \* table employees
    sessions,   \* table device_sessions, by id
    held,       \* the tokens each client keeps
    pc,         \* the call each worker waits for next
    req,        \* the request of each worker
    ent,        \* the employee each worker holds in memory,
    sess,       \* its device session,
    reply,      \* and the tokens it signed
    shutOut     \* history: why each request was to be refused since it arrived

db == <<account, sessions>>
memory == <<ent, sess, reply>>
vars == <<account, sessions, held, pc, req, ent, sess, reply, shutOut>>

-----------------------------------------------------------------------------
(* Rows, tokens and requests. *)

Standing == {"active", "locked", "deleted"}
Account == [standing: Standing, role: Roles, password: Passwords]
SessionIds == 1 .. MaxSessions
SessionRow == [employee: Employees, hash: Signatures \cup {Null}, active: BOOLEAN]
SessionColumns == {"hash", "active"}

(* The claims of both tokens; life is the time left.  A token of the web   *)
(* app has no session.                                                     *)
AccessToken == [employee: Employees, role: Roles, session: SessionIds \cup {Null},
                life: 1 .. AccessTtl]
RefreshToken == [employee: Employees, role: Roles, session: SessionIds \cup {Null},
                 sign: Signatures \cup {Null}, life: 1 .. RefreshTtl]
Tokens == [access: AccessToken \cup {Null}, refresh: RefreshToken \cup {Null}]
NoTokens == [access |-> Null, refresh |-> Null]

NoRequest == [kind |-> "none"]
Held(id, e) == [id |-> id, ent |-> e, dirty |-> {}]
Nothing == Held(Null, Null)

Idle(w) == pc[w] = "idle"
Kind(w) == req[w].kind
Goto(w, label) == pc' = [pc EXCEPT ![w] = label]
Active(e) == account[e].standing = "active"

Begin(w, r, label) ==
    /\ Idle(w)
    /\ req' = [req EXCEPT ![w] = r]
    /\ Goto(w, label)

Finish(w) ==
    /\ Goto(w, "idle")
    /\ req' = [req EXCEPT ![w] = NoRequest]
    /\ ent' = [ent EXCEPT ![w] = Null]
    /\ sess' = [sess EXCEPT ![w] = Nothing]
    /\ reply' = [reply EXCEPT ![w] = NoTokens]

(* buildAccessToken() and buildRefreshToken() *)
MutantSigned(e, role, s, n) ==
    [access |-> [employee |-> e, role |-> role, session |-> s, life |-> RefreshTtl],
     refresh |-> [employee |-> e, role |-> role, session |-> s, sign |-> n,
                  life |-> RefreshTtl]]
Signed(e, role, s, n) ==
    [access |-> [employee |-> e, role |-> role, session |-> s, life |-> AccessTtl],
     refresh |-> [employee |-> e, role |-> role, session |-> s, sign |-> n,
                  life |-> RefreshTtl]]

Answer(w, role, s, n) ==
    /\ Goto(w, "answer")
    /\ reply' = [reply EXCEPT ![w] = Signed(req[w].employee, role, s, n)]

-----------------------------------------------------------------------------
(* login(): validateCredentials() compares the password with the row it    *)
(* read before.                                                            *)

Login(w, c, e, password) ==
    /\ Begin(w, [kind |-> "login", client |-> c, employee |-> e,
                 password |-> password, session |-> Null], "credentials")
    /\ UNCHANGED <<db, held, memory>>

FindCredentials(w) ==
    /\ pc[w] = "credentials"
    /\ LET e == req[w].employee
       IN  IF Active(e)
           THEN /\ ent' = [ent EXCEPT ![w] = account[e]]
                /\ Goto(w, "compare")
                /\ UNCHANGED <<req, sess, reply>>
           ELSE Finish(w)
    /\ UNCHANGED <<db, held>>

Compare(w) ==
    /\ pc[w] = "compare"
    /\ IF ent[w].password = req[w].password
       THEN Answer(w, ent[w].role, Null, Null) /\ UNCHANGED <<req, ent, sess>>
       ELSE Finish(w)
    /\ UNCHANGED <<db, held>>

-----------------------------------------------------------------------------
(* poll() of a code that employee e confirmed, and issueDeviceTokens().    *)
(* The employee was joined to the code: a deleted one is not found, a      *)
(* locked one is.                                                          *)

SessionRoom ==
    Len(sessions) + Cardinality({v \in Workers : pc[v] = "insertSession"}) < MaxSessions

Pair(w, c, e) ==
    /\ SessionRoom
    /\ account[e].standing # "deleted"
    /\ Begin(w, [kind |-> "pair", client |-> c, employee |-> e, session |-> Null],
             "insertSession")
    /\ ent' = [ent EXCEPT ![w] = account[e]]
    /\ UNCHANGED <<db, held, sess, reply>>

Opened(e) == [employee |-> e, hash |-> Null, active |-> TRUE]

InsertSession(w) ==
    /\ pc[w] = "insertSession"
    /\ LET row == Opened(req[w].employee)
       IN  /\ sessions' = Append(sessions, row)
           /\ \E n \in Signatures :
                 sess' = [sess EXCEPT ![w] = Held(Len(sessions) + 1, [row EXCEPT !.hash = n])]
    /\ Goto(w, "reload")
    /\ UNCHANGED <<account, held, req, ent, reply>>

(* save() of the session with the hash of the new refresh token.  Tokens   *)
(* signed in one second are the same token.                                *)
Reload(w) ==
    /\ pc[w] = "reload"
    /\ sess' = [sess EXCEPT ![w].dirty =
                   Dirty(sess[w].ent, sessions[sess[w].id], SessionColumns)]
    /\ Goto(w, "write")
    /\ UNCHANGED <<db, held, req, ent, reply>>

Updated(row, h) == [col \in DOMAIN row |-> IF col \in h.dirty THEN h.ent[col] ELSE row[col]]

WriteSession(w) ==
    /\ pc[w] = "write"
    /\ sessions' = [sessions EXCEPT ![sess[w].id] = Updated(@, sess[w])]
    /\ Answer(w, ent[w].role, sess[w].id, sess[w].ent.hash)
    /\ UNCHANGED <<account, held, req, ent, sess>>

-----------------------------------------------------------------------------
(* refresh(): the employee, the session of a device, and new tokens with   *)
(* the claims of the employee's row.                                       *)

Refresh(w, c) ==
    /\ held[c].refresh # Null
    /\ LET t == held[c].refresh
       IN  Begin(w, [kind |-> "refresh", client |-> c, employee |-> t.employee,
                     session |-> t.session, token |-> t], "refreshEmployee")
    /\ UNCHANGED <<db, held, memory>>

MutantClaims(w) == req[w].token.role
Claims(w) == account[req[w].employee].role

RefreshEmployee(w) ==
    /\ pc[w] = "refreshEmployee"
    /\ IF ~Active(req[w].employee) THEN Finish(w)
       ELSE IF req[w].session = Null
       THEN Answer(w, Claims(w), Null, Null) /\ UNCHANGED <<req, ent, sess>>
       ELSE /\ ent' = [ent EXCEPT ![w] = [account[req[w].employee] EXCEPT !.role = Claims(w)]]
            /\ Goto(w, "refreshSession")
            /\ UNCHANGED <<req, sess, reply>>
    /\ UNCHANGED <<db, held>>

TokenAccepted(t) == sessions[t.session].active /\ sessions[t.session].hash = t.sign

RefreshSession(w) ==
    /\ pc[w] = "refreshSession"
    /\ LET s == req[w].session
       IN  IF TokenAccepted(req[w].token)
           THEN /\ \E n \in Signatures :
                      sess' = [sess EXCEPT ![w] = Held(s, [sessions[s] EXCEPT !.hash = n])]
                /\ Goto(w, "reload")
                /\ UNCHANGED <<req, ent, reply>>
           ELSE Finish(w)
    /\ UNCHANGED <<db, held>>

-----------------------------------------------------------------------------
(* A request with an access token: JwtStrategy.validate() reads the        *)
(* employee and the device session, RolesGuard compares the claims.        *)

Call(w, c, roles) ==
    /\ held[c].access # Null
    /\ LET t == held[c].access
       IN  Begin(w, [kind |-> "call", client |-> c, employee |-> t.employee,
                     session |-> t.session, role |-> t.role, needs |-> roles], "validate")
    /\ UNCHANGED <<db, held, memory>>

(* RolesGuard, then the handler. *)
Guarded(w) ==
    IF req[w].needs = {} \/ req[w].role \in req[w].needs
    THEN Goto(w, "answer") /\ UNCHANGED <<req, memory>>
    ELSE Finish(w)

MutantAdmitted(e) == account[e].standing # "locked"
Admitted(e) == Active(e)

Validate(w) ==
    /\ pc[w] = "validate"
    /\ IF ~Admitted(req[w].employee) THEN Finish(w)
       ELSE IF req[w].session = Null THEN Guarded(w)
       ELSE Goto(w, "validateSession") /\ UNCHANGED <<req, memory>>
    /\ UNCHANGED <<db, held>>

ValidateSession(w) ==
    /\ pc[w] = "validateSession"
    /\ IF sessions[req[w].session].active THEN Guarded(w) ELSE Finish(w)
    /\ UNCHANGED <<db, held>>

(* The answer reaches the client, which keeps the tokens in it. *)
Deliver(w) ==
    /\ pc[w] = "answer"
    /\ IF Kind(w) = "call" THEN UNCHANGED held
       ELSE held' = [held EXCEPT ![req[w].client] = reply[w]]
    /\ Finish(w)
    /\ UNCHANGED db

(* A call that rejects, a restart, or an answer that is lost. *)
Fail(w) ==
    /\ ~Idle(w)
    /\ Finish(w)
    /\ UNCHANGED <<db, held>>

-----------------------------------------------------------------------------
(* The environment: time, and what HR does (Catalog and DevicePairing have *)
(* the steps of its requests).                                             *)

(* ignoreExpiration: false in both strategies *)
Aged(t) == IF t = Null \/ t.life = 1 THEN Null ELSE [t EXCEPT !.life = @ - 1]

Expired(tokens) == [access |-> Aged(tokens.access), refresh |-> Aged(tokens.refresh)]

Tick ==
    /\ held' = [c \in Clients |-> Expired(held[c])]
    /\ reply' = [w \in Workers |-> Expired(reply[w])]
    /\ UNCHANGED <<db, pc, req, ent, sess>>

Change(e, col, value) ==
    /\ account' = [account EXCEPT ![e][col] = value]
    /\ UNCHANGED <<sessions, held, pc, req, memory>>

Revoke(s) ==
    /\ sessions' = [sessions EXCEPT ![s].active = FALSE]
    /\ UNCHANGED <<account, held, pc, req, memory>>

-----------------------------------------------------------------------------
(* The reasons to refuse a request: its employee is not active, its device *)
(* session is revoked, its password is wrong.  The history variable keeps  *)
(* those that were there all the time since the request arrived.           *)
Reasons(w) ==
    {r \in {"employee", "session", "password"} :
        CASE r = "employee" -> ~Active(req[w].employee)
          [] r = "session"  -> req[w].session # Null /\ ~sessions[req[w].session].active
          [] r = "password" -> /\ Kind(w) = "login"
                               /\ account[req[w].employee].password # req[w].password}

Observe ==
    shutOut' = [w \in Workers |->
                   IF Idle(w)' THEN {}
                   ELSE IF Idle(w) THEN Reasons(w)' ELSE shutOut[w] \cap Reasons(w)']

Init ==
    /\ account \in [Employees -> [standing: {"active"}, role: Roles, password: Passwords]]
    /\ sessions = <<>>
    /\ held = [c \in Clients |-> NoTokens]
    /\ pc = [w \in Workers |-> "idle"]
    /\ req = [w \in Workers |-> NoRequest]
    /\ ent = [w \in Workers |-> Null]
    /\ sess = [w \in Workers |-> Nothing]
    /\ reply = [w \in Workers |-> NoTokens]
    /\ shutOut = [w \in Workers |-> {}]

Arrive(w) ==
    \/ \E c \in Clients \ Apps, e \in Employees, p \in Passwords : Login(w, c, e, p)
    \/ \E c \in Apps, e \in Employees : Pair(w, c, e)
    \/ \E c \in Clients : Refresh(w, c) \/ \E roles \in Endpoints : Call(w, c, roles)

Serve(w) ==
    \/ FindCredentials(w) \/ Compare(w)
    \/ InsertSession(w) \/ Reload(w) \/ WriteSession(w)
    \/ RefreshEmployee(w) \/ RefreshSession(w)
    \/ Validate(w) \/ ValidateSession(w) \/ Deliver(w)

HR ==
    \/ \E e \in Employees :
          \/ \E s \in Standing : Change(e, "standing", s)
          \/ \E r \in Roles : Change(e, "role", r)
          \/ \E p \in Passwords : Change(e, "password", p)
    \/ \E s \in DOMAIN sessions : Revoke(s)

Next ==
    /\ Tick \/ HR \/ \E w \in Workers : Arrive(w) \/ Serve(w) \/ Fail(w)
    /\ Observe

(* Time passes, and the event loop resumes every handler. *)
Spec ==
    /\ Init /\ [][Next]_vars
    /\ WF_vars(Tick /\ Observe)
    /\ \A w \in Workers : WF_vars(Serve(w) /\ Observe)

-----------------------------------------------------------------------------
(* Properties. *)

(* Type invariant: among the rest, tokens never outlive their time, and    *)
(* those with a session were signed for a row that exists.                 *)
TypeOK ==
    /\ account \in [Employees -> Account]
    /\ sessions \in Seq(SessionRow) /\ Len(sessions) <= MaxSessions
    /\ held \in [Clients -> Tokens]
    /\ reply \in [Workers -> Tokens]
    /\ \A c \in Clients : held[c].refresh # Null /\ held[c].refresh.session # Null
                          => /\ held[c].refresh.session \in DOMAIN sessions
                             /\ sessions[held[c].refresh.session].employee
                                   = held[c].refresh.employee
    /\ \A w \in Workers : Idle(w) => shutOut[w] = {}

(* Locking, deleting and revoking take effect immediately (the comment on  *)
(* JwtStrategy.validate()), and so does a new password: a login, refresh   *)
(* or call that arrives afterwards is not answered, whatever tokens it     *)
(* carries and however its checks interleave with HR.  Pairing still       *)
(* answers a locked employee's app; its tokens are refused.                *)
CutOff ==
    \A w \in Workers : pc[w] = "answer" /\ shutOut[w] # {} => Kind(w) = "pair"

(* Claims are as old as the row they were built from, but not for ever:    *)
(* when HR has changed a role for good, calls are in the end only answered *)
(* under the new role, though clients keep refreshing older tokens.        *)
RoleCatchesUp ==
    \A e \in Employees, r \in Roles :
       <>[](account[e].role = r)
       => <>[](\A w \in Workers :
                  pc[w] = "answer" /\ Kind(w) = "call" /\ req[w].employee = e
                  => req[w].role = r)
=============================================================================
