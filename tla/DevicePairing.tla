---------------------------- MODULE DevicePairing ----------------------------
(***************************************************************************)
(* Pairing of desktop apps and the life of their device sessions: codes    *)
(* (pairing.service.ts), sessions (device-sessions.service.ts) and their   *)
(* refresh tokens (auth.service.ts).                                       *)
(*                                                                         *)
(* As in TimeEntries, a step of a worker is one database call with the     *)
(* code up to the next one, and save() is a second read and an UPDATE of   *)
(* the columns that differ from it.                                        *)
(*                                                                         *)
(* A pairing code's id stands for its random device code.  A refresh token *)
(* is the session it names and the second it was signed in: signing the    *)
(* same claims twice in one second gives the same token, so the second is  *)
(* also what the stored hash tells apart.  lastActive, access tokens and   *)
(* the expiry of refresh tokens (days) are left out.                       *)
(***************************************************************************)
EXTENDS RowStore, Integers, Sequences, FiniteSets

CONSTANTS
    Workers,        \* request contexts of the server
    Employees,
    UserCodes,      \* the short codes randomUserCode() may draw
    Volatile,       \* employees that HR may lock, delete and reinstate
    Ttl,            \* PAIRING_CODE_TTL_MINUTES, in seconds of the model
    PollInterval,   \* PAIRING_POLL_INTERVAL_SECONDS
    MaxInterval,    \* largest value of the int column pollIntervalSeconds
    MaxTime, MaxCodes, MaxSessions, MaxFailures     \* bounds

Status == {"pending", "confirmed", "expired"}

ASSUME PairingAssumption ==
    /\ {Ttl, PollInterval, MaxInterval, MaxTime, MaxCodes, MaxSessions,
        MaxFailures} \subseteq Nat
    /\ PollInterval \in 1 .. MaxInterval
    /\ {Null, Undef} \cap Employees = {}
    /\ Null \notin Nat /\ Undef \notin Nat \cup BOOLEAN \cup Status
    /\ Volatile \subseteq Employees

VARIABLES
    codes,      \* table pairing_codes, by id
    sessions,   \* table device_sessions, by id
    standing,   \* what each employee's row says: active, locked or deleted
    now,        \* the clock
    tokens,     \* refresh tokens that reached a device
    pc,         \* the database call each worker makes next
    req,        \* what each worker is doing
    code,       \* the pairing code each worker holds in memory
    sess,       \* the device session each worker holds in memory
    failures    \* database calls that failed

db == <<codes, sessions>>
world == <<standing, now, failures>>
vars == <<codes, sessions, standing, now, tokens, pc, req, code, sess, failures>>

-----------------------------------------------------------------------------
(* Rows, entities and requests. *)

CodeRow == [user: UserCodes, status: Status, employee: Employees \cup {Null},
            expires: Nat, polled: Nat \cup {Null}, interval: 0 .. MaxInterval,
            session: Nat \cup {Null}]
CodeColumns == {"status", "employee", "polled", "interval", "session"}

(* refreshTokenHash is '' (Null) until the first token is signed. *)
SessionRow == [employee: Employees, code: Nat, hash: Nat \cup {Null}, active: BOOLEAN]
MutantSessionColumns == {"active"}
SessionColumns == {"hash", "active"}

Token == [session: Nat, iat: Nat]

(* An entity in memory, the id of its row and the columns save() writes. *)
Held(id, e) == [id |-> id, ent |-> e, dirty |-> {}]
Nothing == Held(0, Null)

NoRequest == [kind |-> "none"]
Kind(w) == req[w].kind
Idle(w) == pc[w] = "idle"
Goto(w, label) == pc' = [pc EXCEPT ![w] = label]
Begin(w, r) == req' = [req EXCEPT ![w] = r]

Finish(w) ==
    /\ Goto(w, "idle")
    /\ Begin(w, NoRequest)
    /\ code' = [code EXCEPT ![w] = Nothing]
    /\ sess' = [sess EXCEPT ![w] = Nothing]

SaveCode(w, c, e) ==
    /\ Goto(w, "reloadCode")
    /\ code' = [code EXCEPT ![w] = Held(c, e)]

SaveSession(w, s, e) ==
    /\ Goto(w, "reloadSession")
    /\ sess' = [sess EXCEPT ![w] = Held(s, e)]

CodesOf(user) == {c \in DOMAIN codes : codes[c].user = user}
Overdue(c) == codes[c].expires < now

-----------------------------------------------------------------------------
(* createDeviceCode() *)

NewCode(user) ==
    [user |-> user, status |-> "pending", employee |-> Null, expires |-> now + Ttl,
     polled |-> Null, interval |-> PollInterval, session |-> Null]

(* A user code that is taken is drawn again. *)
CreateDeviceCode(w, user) ==
    /\ Idle(w)
    /\ Len(codes) + Cardinality({v \in Workers : pc[v] = "insertCode"}) < MaxCodes
    /\ CodesOf(user) = {}
    /\ Goto(w, "insertCode")
    /\ Begin(w, [kind |-> "create"])
    /\ code' = [code EXCEPT ![w] = Held(0, NewCode(user))]
    /\ UNCHANGED <<db, world, tokens, sess>>

(* The unique index on userCode *)
MutantUserCodeFree(user) == TRUE
UserCodeFree(user) == CodesOf(user) = {}

InsertCode(w) ==
    /\ pc[w] = "insertCode"
    /\ IF UserCodeFree(code[w].ent.user)
       THEN codes' = Append(codes, code[w].ent)
       ELSE UNCHANGED codes
    /\ Finish(w)
    /\ UNCHANGED <<sessions, world, tokens>>

-----------------------------------------------------------------------------
(* confirm(), for an employee JwtStrategy lets through.  A code that was   *)
(* confirmed already is answered 409 and left alone.                       *)

(* findOne() without relations: employee is not loaded. *)
Bare(row) == [row EXCEPT !.employee = Undef]

(* Handlers that find a code overdue mark it so and answer 410. *)
Expire(w, c, e) ==
    /\ Begin(w, [kind |-> "expire"])
    /\ SaveCode(w, c, [e EXCEPT !.status = "expired"])

MutantConfirmable(c) == codes[c].status # "confirmed" /\ ~Overdue(c)
Confirmable(c) == codes[c].status = "pending" /\ ~Overdue(c)

MutantTooLate(c) == codes[c].status # "pending" \/ Overdue(c)
TooLate(c) == codes[c].status = "expired" \/ Overdue(c)

Confirm(w, c, employee) ==
    /\ Idle(w)
    /\ standing[employee] = "active"
    /\ Confirmable(c)
    /\ Begin(w, [kind |-> "confirm"])
    /\ SaveCode(w, c, [codes[c] EXCEPT !.status = "confirmed", !.employee = employee])
    /\ UNCHANGED <<db, world, tokens, sess>>

ConfirmTooLate(w, c, employee) ==
    /\ Idle(w)
    /\ standing[employee] = "active"
    /\ TooLate(c)
    /\ Expire(w, c, Bare(codes[c]))
    /\ UNCHANGED <<db, world, tokens, sess>>

-----------------------------------------------------------------------------
(* poll().  The cases that only answer an error, and change nothing: an    *)
(* expired code that is overdue or has no session, and a confirmed code    *)
(* whose employee is deleted.                                              *)

(* findOne({relations: employee}): a deleted employee joins as null. *)
Joined(row) ==
    [row EXCEPT !.employee = IF @ # Null /\ standing[@] = "deleted" THEN Null ELSE @]

Employee(c) == Joined(codes[c]).employee

PollOverdue(w, c) ==
    /\ Idle(w)
    /\ Overdue(c)
    /\ codes[c].status # "expired"
    /\ Expire(w, c, Joined(codes[c]))
    /\ UNCHANGED <<db, world, tokens, sess>>

(* A code that has been redeemed and not yet overdue gives another session *)
(* to a device that lost the answer.                                       *)
Retriable(c) ==
    /\ ~Overdue(c)
    /\ codes[c].status = "expired" /\ codes[c].session # Null /\ Employee(c) # Null

(* issueDeviceTokens(): a session for the employee loaded with the code *)
IssueTokens(w, c, kind, e) ==
    /\ Goto(w, "insertSession")
    /\ Begin(w, [kind |-> kind, employee |-> Employee(c), code |-> c])
    /\ code' = [code EXCEPT ![w] = Held(c, e)]

SessionRoom ==
    Len(sessions) + Cardinality({v \in Workers : pc[v] = "insertSession"}) < MaxSessions

PollRetry(w, c) ==
    /\ Idle(w)
    /\ SessionRoom
    /\ Retriable(c)
    /\ IssueTokens(w, c, "retry", Joined(codes[c]))
    /\ UNCHANGED <<db, world, tokens, sess>>

MutantTooEarly(c) == codes[c].polled # Null /\ now < codes[c].polled + PollInterval
TooEarly(c) == codes[c].polled # Null /\ now < codes[c].polled + codes[c].interval

MutantOpen(c) == codes[c].status # "expired"
Open(c) == ~Overdue(c) /\ codes[c].status # "expired"

PollTooEarly(w, c) ==
    /\ Idle(w)
    /\ Open(c)
    /\ TooEarly(c)
    /\ Begin(w, [kind |-> "slowDown"])
    /\ SaveCode(w, c, [Joined(codes[c]) EXCEPT !.interval = @ * 2])
    /\ UNCHANGED <<db, world, tokens, sess>>

PollPending(w, c) ==
    /\ Idle(w)
    /\ Open(c) /\ ~TooEarly(c)
    /\ codes[c].status = "pending"
    /\ Begin(w, [kind |-> "pending"])
    /\ SaveCode(w, c, [Joined(codes[c]) EXCEPT !.polled = now])
    /\ UNCHANGED <<db, world, tokens, sess>>

PollConfirmed(w, c) ==
    /\ Idle(w)
    /\ SessionRoom
    /\ Open(c) /\ ~TooEarly(c)
    /\ codes[c].status = "confirmed"
    /\ Employee(c) # Null
    /\ IssueTokens(w, c, "redeem", [Joined(codes[c]) EXCEPT !.polled = now])
    /\ UNCHANGED <<db, world, tokens, sess>>

-----------------------------------------------------------------------------
(* Device sessions: issueDeviceTokens(), refresh() and revoke(). *)

(* The INSERT of the session; its first refresh token is signed right      *)
(* after, and its hash saved.                                              *)
NewSession(r) == [employee |-> r.employee, code |-> r.code, hash |-> Null, active |-> TRUE]

InsertSession(w) ==
    /\ pc[w] = "insertSession"
    /\ sessions' = Append(sessions, NewSession(req[w]))
    /\ SaveSession(w, Len(sessions) + 1, [NewSession(req[w]) EXCEPT !.hash = now])
    /\ UNCHANGED <<codes, world, tokens, req, code>>

(* refresh() reads the employee, then the session. *)
Refresh(w, t) ==
    /\ Idle(w)
    /\ standing[sessions[t.session].employee] = "active"
    /\ Goto(w, "findSession")
    /\ Begin(w, [kind |-> "refresh", token |-> t])
    /\ UNCHANGED <<db, world, tokens, code, sess>>

MutantTokenAccepted(t) == sessions[t.session].hash = t.iat
TokenAccepted(t) == sessions[t.session].active /\ sessions[t.session].hash = t.iat

FindSession(w) ==
    /\ pc[w] = "findSession"
    /\ LET t == req[w].token
       IN  IF TokenAccepted(t)
           THEN /\ SaveSession(w, t.session, [sessions[t.session] EXCEPT !.hash = now])
                /\ UNCHANGED <<req, code>>
           ELSE Finish(w)
    /\ UNCHANGED <<db, world, tokens>>

Revoke(w, s) ==
    /\ Idle(w)
    /\ Begin(w, [kind |-> "revoke"])
    /\ SaveSession(w, s, [sessions[s] EXCEPT !.active = FALSE])
    /\ UNCHANGED <<db, world, tokens, code>>

-----------------------------------------------------------------------------
(* save() of a code and of a session. *)

Updated(row, h) == [col \in DOMAIN row |-> IF col \in h.dirty THEN h.ent[col] ELSE row[col]]

ReloadCode(w) ==
    /\ pc[w] = "reloadCode"
    /\ code' = [code EXCEPT ![w].dirty = Dirty(code[w].ent, codes[code[w].id], CodeColumns)]
    /\ Goto(w, "writeCode")
    /\ UNCHANGED <<db, world, tokens, req, sess>>

ReloadSession(w) ==
    /\ pc[w] = "reloadSession"
    /\ sess' = [sess EXCEPT ![w].dirty =
                   Dirty(sess[w].ent, sessions[sess[w].id], SessionColumns)]
    /\ Goto(w, "writeSession")
    /\ UNCHANGED <<db, world, tokens, req, code>>

(* The refresh token of the session in memory reaches the device. *)
Deliver(w) == tokens' = tokens \cup {[session |-> sess[w].id, iat |-> sess[w].ent.hash]}

(* An interval that outgrows its column is refused by Postgres. *)
MutantStorable(row) == TRUE
Storable(row) == row.interval <= MaxInterval

WriteCode(w) ==
    /\ pc[w] = "writeCode"
    /\ LET row == Updated(codes[code[w].id], code[w])
       IN  IF Storable(row)
           THEN /\ codes' = [codes EXCEPT ![code[w].id] = row]
                /\ IF Kind(w) = "redeem" THEN Deliver(w) ELSE UNCHANGED tokens
           ELSE UNCHANGED <<codes, tokens>>
    /\ Finish(w)
    /\ UNCHANGED <<sessions, world>>

(* The first session of a code is then noted on the code, which expires. *)
Redeemed(w) ==
    SaveCode(w, code[w].id, [code[w].ent EXCEPT !.status = "expired", !.session = sess[w].id])

WriteSession(w) ==
    /\ pc[w] = "writeSession"
    /\ sessions' = [sessions EXCEPT ![sess[w].id] = Updated(@, sess[w])]
    /\ IF Kind(w) = "redeem"
       THEN Redeemed(w) /\ UNCHANGED <<tokens, req, sess>>
       ELSE /\ IF Kind(w) \in {"retry", "refresh"} THEN Deliver(w) ELSE UNCHANGED tokens
            /\ Finish(w)
    /\ UNCHANGED <<codes, world>>

-----------------------------------------------------------------------------
(* The environment: a failed call or a restart, time, and what HR does to  *)
(* an employee's row elsewhere.                                            *)

Fail(w) ==
    /\ ~Idle(w)
    /\ failures < MaxFailures
    /\ failures' = failures + 1
    /\ Finish(w)
    /\ UNCHANGED <<db, standing, now, tokens>>

Tick ==
    /\ now < MaxTime
    /\ now' = now + 1
    /\ UNCHANGED <<db, standing, failures, tokens, pc, req, code, sess>>

SetStanding(e, s) ==
    /\ standing[e] # s
    /\ standing' = [standing EXCEPT ![e] = s]
    /\ UNCHANGED <<db, now, failures, tokens, pc, req, code, sess>>

-----------------------------------------------------------------------------
Init ==
    /\ codes = <<>> /\ sessions = <<>>
    /\ standing = [e \in Employees |-> "active"]
    /\ now = 0
    /\ tokens = {}
    /\ pc = [w \in Workers |-> "idle"]
    /\ req = [w \in Workers |-> NoRequest]
    /\ code = [w \in Workers |-> Nothing]
    /\ sess = [w \in Workers |-> Nothing]
    /\ failures = 0

Arrive(w) ==
    \/ \E user \in UserCodes : CreateDeviceCode(w, user)
    \/ \E c \in DOMAIN codes, e \in Employees : Confirm(w, c, e) \/ ConfirmTooLate(w, c, e)
    \/ \E c \in DOMAIN codes :
          \/ PollOverdue(w, c) \/ PollRetry(w, c) \/ PollTooEarly(w, c)
          \/ PollPending(w, c) \/ PollConfirmed(w, c)
    \/ \E t \in tokens : Refresh(w, t)
    \/ \E s \in DOMAIN sessions : Revoke(w, s)

Serve(w) ==
    \/ InsertCode(w) \/ InsertSession(w) \/ FindSession(w)
    \/ ReloadCode(w) \/ WriteCode(w) \/ ReloadSession(w) \/ WriteSession(w)

Environment == Tick \/ \E e \in Volatile, s \in {"active", "locked", "deleted"} : SetStanding(e, s)

Next == Environment \/ \E w \in Workers : Arrive(w) \/ Serve(w) \/ Fail(w)

Spec == Init /\ [][Next]_vars

-----------------------------------------------------------------------------
(* Properties.  TypeOK, UserCodesUnique and OverdueCodesClose hold however *)
(* requests interleave and fail; the others need requests that do not      *)
(* overlap.                                                                *)

(* Type invariant: among the rest, the interval, doubled by every early    *)
(* poll, never outgrows its int column.                                    *)
TypeOK ==
    /\ codes \in Seq(CodeRow)
    /\ sessions \in Seq(SessionRow)
    /\ standing \in [Employees -> {"active", "locked", "deleted"}]
    /\ now \in Nat
    /\ tokens \subseteq Token
    /\ \A w \in Workers : pc[w] = "idle" <=> req[w] = NoRequest
    /\ failures \in Nat

(* Two codes shown to users never coincide, also when two requests draw    *)
(* the same one at once.                                                   *)
UserCodesUnique == \A c, d \in DOMAIN codes : codes[c].user = codes[d].user => c = d

Issuing(c) == {w \in Workers : pc[w] = "insertSession" /\ req[w].code = c}

(* A code closes: once it is overdue and the polls that found it in time   *)
(* are over, it never gives another session, neither to a poll whose       *)
(* confirmation comes late nor to a device that redeemed it and retries.   *)
SessionsOf(c) == {s \in DOMAIN sessions : sessions[s].code = c}
Closed(c) == c \in DOMAIN codes /\ Overdue(c) /\ Issuing(c) = {}

OverdueCodesClose ==
    \A c \in 1 .. MaxCodes, n \in 0 .. MaxSessions :
       [](Closed(c) /\ Cardinality(SessionsOf(c)) = n => [](Cardinality(SessionsOf(c)) = n))

(* One person stands behind a code: every session it gave belongs to the   *)
(* same employee, the one its row still names unless that one was deleted. *)
OneOwner ==
    /\ \A s, t \in DOMAIN sessions :
          sessions[s].code = sessions[t].code => sessions[s].employee = sessions[t].employee
    /\ \A s \in DOMAIN sessions :
          codes[sessions[s].code].employee \in {sessions[s].employee, Null}

(* A confirmation stands, and stays with who gave it, until the device     *)
(* redeems it or it is overdue.  One step takes the employee away: a poll  *)
(* that came too early while the employee was deleted writes the relation  *)
(* it found empty back.  HR may reinstate the employee, the code then      *)
(* stays confirmed for nobody, and its polls answer 404 until it expires.  *)
OwnerDropped(c) ==
    \E w \in Workers : /\ Kind(w) = "slowDown" /\ pc[w] = "writeCode"
                       /\ code[w].id = c /\ code[w].ent.employee = Null

ConfirmationStands ==
    [][\A c \in DOMAIN codes :
          codes[c].status = "confirmed" =>
             LET same == codes'[c].employee = codes[c].employee
             IN  \/ codes'[c].status = "confirmed" /\ (same \/ OwnerDropped(c))
                 \/ codes'[c].status = "expired" /\ codes'[c].session # Null /\ same
                 \/ codes'[c].status = "expired" /\ Overdue(c)]_vars

(* The polls that count are an interval apart. *)
PollsSpaced ==
    [][\A c \in DOMAIN codes :
          codes[c].polled # Null /\ codes'[c].polled # codes[c].polled
          => codes'[c].polled >= codes[c].polled + codes[c].interval]_vars

(* The device that keeps its newest refresh token stays logged in: as long *)
(* as no database call failed, a token is accepted until a newer one was   *)
(* delivered or the session is revoked.                                    *)
NewestTokenAccepted ==
    failures = 0 =>
       \A t \in tokens :
          \/ ~sessions[t.session].active
          \/ \E w \in Workers : pc[w] # "idle" /\ sess[w].id = t.session
          \/ \E u \in tokens : u.session = t.session /\ TokenAccepted(u) /\ u.iat >= t.iat

(* HR's revocation is final (the note on device_sessions in the ERD). *)
RevocationFinal ==
    [][\A s \in DOMAIN sessions : ~sessions[s].active => ~sessions'[s].active]_vars

(* When requests do not overlap, the sessions keep the promises of         *)
(* SessionLifecycle.                                                       *)
SessionIds == 1 .. MaxSessions

Lifecycle == INSTANCE SessionLifecycle WITH
    Ids <- SessionIds,
    Times <- 0 .. MaxTime,
    NoToken <- Null,
    status <- [s \in SessionIds |->
                  IF s \notin DOMAIN sessions THEN "none"
                  ELSE IF sessions[s].active THEN "open" ELSE "revoked"],
    token <- [s \in SessionIds |->
                  IF s \in DOMAIN sessions THEN sessions[s].hash ELSE Null]

ImplementsLifecycle == Lifecycle!Spec
=============================================================================
