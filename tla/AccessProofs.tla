----------------------------- MODULE AccessProofs -----------------------------
(***************************************************************************)
(* Theorems of Access for every set of workers, employees, clients, roles, *)
(* passwords and endpoints, and every lifetime of the tokens.  Two         *)
(* inductive invariants: what a worker holds at each call it waits for     *)
(* (Phase), and which reasons to refuse its request it has found absent    *)
(* by then (Cleared).                                                      *)
(***************************************************************************)
EXTENDS Access, SequenceTheorems, FiniteSetTheorems, TLAPS

Labels == {"idle", "credentials", "compare", "insertSession", "reload", "write",
           "refreshEmployee", "refreshSession", "validate", "validateSession", "answer"}

LoginRequest == [kind: {"login"}, client: Clients, employee: Employees,
                 password: Passwords, session: {Null}]
PairRequest == [kind: {"pair"}, client: Clients, employee: Employees, session: {Null}]
RefreshRequest ==
    {r \in [kind: {"refresh"}, client: Clients, employee: Employees,
            session: SessionIds \cup {Null}, token: RefreshToken] :
        r.token.session = r.session}
CallRequest == [kind: {"call"}, client: Clients, employee: Employees,
                session: SessionIds \cup {Null}, role: Roles, needs: SUBSET Roles]
Request == LoginRequest \cup PairRequest \cup RefreshRequest \cup CallRequest

HeldSession == [id: SessionIds \cup {Null}, ent: SessionRow \cup {Null},
                dirty: SUBSET SessionColumns]

(* The claims c of a token or of a request with one name a session of rows *)
(* that is the same employee's.                                            *)
Backed(c, rows) ==
    c.session # Null => /\ c.session \in DOMAIN rows
                        /\ rows[c.session].employee = c.employee
BackedTokens(t, rows) ==
    /\ t.access # Null => Backed(t.access, rows)
    /\ t.refresh # Null => Backed(t.refresh, rows)

(* A worker about to make call p, with its request r, employee e, device   *)
(* session s and tokens t, over the rows of device_sessions.               *)
Phase(p, r, e, s, t, rows) ==
    /\ p # "idle" => r \in Request /\ Backed(r, rows)
    /\ p \in {"credentials", "compare"} => r \in LoginRequest
    /\ p = "insertSession" => r \in PairRequest
    /\ p \in {"refreshEmployee", "refreshSession"} => r \in RefreshRequest
    /\ p = "refreshSession" => r.session # Null
    /\ p \in {"validate", "validateSession"} => r \in CallRequest
    /\ p = "validateSession" => r.session # Null
    /\ p \in {"compare", "insertSession", "refreshSession", "reload", "write"} => e \in Account
    /\ p \in {"reload", "write"} =>
          /\ r \in PairRequest \cup RefreshRequest
          /\ s.id \in DOMAIN rows /\ s.ent \in SessionRow
          /\ rows[s.id].employee = r.employee
    /\ BackedTokens(t, rows)

MemoryOK ==
    /\ pc \in [Workers -> Labels]
    /\ req \in [Workers -> Request \cup {NoRequest}]
    /\ ent \in [Workers -> Account \cup {Null}]
    /\ sess \in [Workers -> HeldSession]
    /\ reply \in [Workers -> Tokens]

TablesOK ==
    /\ account \in [Employees -> Account]
    /\ sessions \in Seq(SessionRow)

HeldOK ==
    /\ held \in [Clients -> Tokens]
    /\ \A c \in Clients : BackedTokens(held[c], sessions)

WorkersOK ==
    \A w \in Workers : Phase(pc[w], req[w], ent[w], sess[w], reply[w], sessions)

(* The rows there are, and those that the pairings under way will insert. *)
Inserting == {w \in Workers : pc[w] = "insertSession"}
CapacityOK == Len(sessions) + Cardinality(Inserting) <= MaxSessions

IdleOK == \A w \in Workers : Idle(w) => shutOut[w] = {}

IInv == TablesOK /\ HeldOK /\ MemoryOK /\ WorkersOK /\ CapacityOK /\ IdleOK

(* No reason is in the history that is not there now; and by the time it   *)
(* waits for a later call, a worker has found the reason that a check      *)
(* looks for absent at least once.                                         *)
Cleared(w) ==
    /\ ~Idle(w) => shutOut[w] \subseteq Reasons(w)
    /\ /\ pc[w] \in {"compare", "refreshSession", "reload", "write", "validateSession", "answer"}
       /\ Kind(w) # "pair"
       => "employee" \notin shutOut[w]
    /\ pc[w] \in {"reload", "write", "answer"} /\ Kind(w) # "pair" => "session" \notin shutOut[w]
    /\ pc[w] = "compare" /\ "password" \in shutOut[w] => ent[w].password # req[w].password
    /\ pc[w] = "answer" => "password" \notin shutOut[w]

ClearedOK == \A w \in Workers : Cleared(w)

-----------------------------------------------------------------------------
(* Tokens, rows and requests. *)

LEMMA NullFacts == Null \notin Nat /\ Null \notin SessionIds /\ SessionIds \subseteq Nat
BY AccessAssumption DEF SessionIds

LEMMA SignedOK ==
  ASSUME NEW e \in Employees, NEW role \in Roles, NEW s \in SessionIds \cup {Null},
         NEW n \in Signatures \cup {Null}, NEW rows,
         s # Null => s \in DOMAIN rows /\ rows[s].employee = e
  PROVE  Signed(e, role, s, n) \in Tokens /\ BackedTokens(Signed(e, role, s, n), rows)
BY AccessAssumption
   DEF Signed, Tokens, AccessToken, RefreshToken, BackedTokens, Backed

LEMMA NoTokensOK == NoTokens \in Tokens /\ \A rows : BackedTokens(NoTokens, rows)
BY DEF NoTokens, Tokens, BackedTokens

(* A token ages, or expires. *)
LEMMA AgedAccess ==
  ASSUME NEW t \in AccessToken \cup {Null}
  PROVE  /\ Aged(t) \in AccessToken \cup {Null}
         /\ Aged(t) # Null =>
               t # Null /\ Aged(t).session = t.session /\ Aged(t).employee = t.employee
BY AccessAssumption DEF Aged, AccessToken

LEMMA AgedRefresh ==
  ASSUME NEW t \in RefreshToken \cup {Null}
  PROVE  /\ Aged(t) \in RefreshToken \cup {Null}
         /\ Aged(t) # Null =>
               t # Null /\ Aged(t).session = t.session /\ Aged(t).employee = t.employee
BY AccessAssumption DEF Aged, RefreshToken

LEMMA ExpiredOK ==
  ASSUME NEW t \in Tokens, NEW rows
  PROVE  /\ Expired(t) \in Tokens
         /\ BackedTokens(t, rows) => BackedTokens(Expired(t), rows)
<1>1. t.access \in AccessToken \cup {Null} /\ t.refresh \in RefreshToken \cup {Null}
  BY DEF Tokens
<1>2. Expired(t).access = Aged(t.access) /\ Expired(t).refresh = Aged(t.refresh)
  BY DEF Expired
<1>3. Expired(t) \in Tokens
  BY <1>1, AgedAccess, AgedRefresh DEF Expired, Tokens
<1>4. ASSUME BackedTokens(t, rows) PROVE BackedTokens(Expired(t), rows)
  BY <1>1, <1>2, <1>4, AgedAccess, AgedRefresh DEF BackedTokens, Backed
<1> QED
  BY <1>3, <1>4

(* Nobody's session disappears or changes hands. *)
Grows == /\ DOMAIN sessions \subseteq DOMAIN sessions'
         /\ \A i \in DOMAIN sessions : sessions'[i].employee = sessions[i].employee

LEMMA BackedGrows ==
  ASSUME Grows
  PROVE  /\ \A c : Backed(c, sessions) => Backed(c, sessions')
         /\ \A t : BackedTokens(t, sessions) => BackedTokens(t, sessions')
BY DEF Grows, Backed, BackedTokens

LEMMA PhaseGrows ==
  ASSUME Grows, NEW p, NEW r, NEW e, NEW s, NEW t, Phase(p, r, e, s, t, sessions)
  PROVE  Phase(p, r, e, s, t, sessions')
BY BackedGrows DEF Grows, Phase

(* Requests of different kinds are different. *)
LEMMA Kinds ==
  /\ \A r \in LoginRequest : r.kind = "login"
  /\ \A r \in PairRequest : r.kind = "pair"
  /\ \A r \in RefreshRequest : r.kind = "refresh"
  /\ \A r \in CallRequest : r.kind = "call"
BY DEF LoginRequest, PairRequest, RefreshRequest, CallRequest

-----------------------------------------------------------------------------
(* The inductive step of WorkersOK, TablesOK and HeldOK: one lemma per     *)
(* action or group of actions.                                             *)

TypePart == TablesOK /\ HeldOK /\ MemoryOK /\ WorkersOK

(* A step of worker w that leaves it in phase p, r, e, s, t and loses no   *)
(* session preserves the invariant's parts about workers.                  *)
LEMMA WorkerStep ==
  ASSUME MemoryOK, WorkersOK, NEW w \in Workers, NEW p \in Labels,
         NEW r \in Request \cup {NoRequest}, NEW e \in Account \cup {Null},
         NEW s \in HeldSession, NEW t \in Tokens,
         pc' = [pc EXCEPT ![w] = p], req' = [req EXCEPT ![w] = r],
         ent' = [ent EXCEPT ![w] = e], sess' = [sess EXCEPT ![w] = s],
         reply' = [reply EXCEPT ![w] = t],
         Grows, Phase(p, r, e, s, t, sessions')
  PROVE  MemoryOK' /\ WorkersOK'
<1>1. MemoryOK'
  BY DEF MemoryOK
<1>2. ASSUME NEW v \in Workers
      PROVE  Phase(pc'[v], req'[v], ent'[v], sess'[v], reply'[v], sessions')
  <2>1. CASE v = w
    <3>1. pc'[v] = p /\ req'[v] = r /\ ent'[v] = e /\ sess'[v] = s /\ reply'[v] = t
      BY <2>1 DEF MemoryOK
    <3> QED
      BY <3>1
  <2>2. CASE v # w
    <3>1. /\ pc'[v] = pc[v] /\ req'[v] = req[v] /\ ent'[v] = ent[v]
          /\ sess'[v] = sess[v] /\ reply'[v] = reply[v]
      BY <2>2 DEF MemoryOK
    <3>2. Phase(pc[v], req[v], ent[v], sess[v], reply[v], sessions)
      BY DEF WorkersOK
    <3> QED
      BY <3>1, <3>2, PhaseGrows
  <2> QED
    BY <2>1, <2>2
<1> QED
  BY <1>1, <1>2 DEF WorkersOK

(* What a step leaves alone keeps its value. *)
LEMMA Kept ==
  ASSUME MemoryOK, NEW w \in Workers
  PROVE  /\ req[w] \in Request \cup {NoRequest} /\ ent[w] \in Account \cup {Null}
         /\ sess[w] \in HeldSession /\ reply[w] \in Tokens
         /\ UNCHANGED req => req' = [req EXCEPT ![w] = req[w]]
         /\ UNCHANGED ent => ent' = [ent EXCEPT ![w] = ent[w]]
         /\ UNCHANGED sess => sess' = [sess EXCEPT ![w] = sess[w]]
         /\ UNCHANGED reply => reply' = [reply EXCEPT ![w] = reply[w]]
BY DEF MemoryOK

LEMMA SameRows == ASSUME UNCHANGED sessions PROVE Grows
BY DEF Grows

LEMMA HeldGrows ==
  ASSUME HeldOK, Grows, UNCHANGED held
  PROVE  HeldOK'
BY BackedGrows DEF HeldOK

LEMMA PhaseOf ==
  ASSUME WorkersOK, NEW w \in Workers
  PROVE  Phase(pc[w], req[w], ent[w], sess[w], reply[w], sessions)
BY DEF WorkersOK

(* Finish leaves the worker idle and free. *)
LEMMA FinishStep ==
  ASSUME MemoryOK, WorkersOK, NEW w \in Workers, Finish(w), Grows
  PROVE  MemoryOK' /\ WorkersOK'
<1>1. Nothing \in HeldSession
  BY DEF Nothing, Held, HeldSession, SessionColumns
<1>2. Phase("idle", NoRequest, Null, Nothing, NoTokens, sessions')
  BY NoTokensOK DEF Phase
<1> QED
  BY <1>1, <1>2, NoTokensOK, WorkerStep DEF Finish, Goto, Labels

(* A request r arrives. *)
LEMMA BeginStep ==
  ASSUME MemoryOK, WorkersOK, NEW w \in Workers, NEW r \in Request, NEW p \in Labels,
         Begin(w, r, p), UNCHANGED <<sessions, memory>>, Backed(r, sessions),
         \/ p = "credentials" /\ r \in LoginRequest
         \/ p = "refreshEmployee" /\ r \in RefreshRequest
         \/ p = "validate" /\ r \in CallRequest
  PROVE  MemoryOK' /\ WorkersOK'
<1>1. BackedTokens(reply[w], sessions)
  BY PhaseOf DEF Phase
<1>2. Phase(p, r, ent[w], sess[w], reply[w], sessions')
  BY <1>1 DEF Phase
<1>3. /\ pc' = [pc EXCEPT ![w] = p] /\ req' = [req EXCEPT ![w] = r]
      /\ ent' = [ent EXCEPT ![w] = ent[w]] /\ sess' = [sess EXCEPT ![w] = sess[w]]
      /\ reply' = [reply EXCEPT ![w] = reply[w]]
  BY Kept DEF Begin, Goto, memory
<1> QED
  BY <1>2, <1>3, WorkerStep, Kept, SameRows

(* A worker keeps its request and goes on with employee e and session s. *)
LEMMA GoStep ==
  ASSUME MemoryOK, WorkersOK, NEW w \in Workers, NEW p \in Labels,
         NEW e \in Account \cup {Null}, NEW s \in HeldSession,
         Goto(w, p), UNCHANGED <<sessions, req, reply>>,
         ent' = [ent EXCEPT ![w] = e], sess' = [sess EXCEPT ![w] = s],
         Phase(p, req[w], e, s, reply[w], sessions)
  PROVE  MemoryOK' /\ WorkersOK'
<1>1. Phase(p, req[w], e, s, reply[w], sessions') /\ Grows
  BY SameRows, PhaseGrows
<1>2. /\ pc' = [pc EXCEPT ![w] = p] /\ req' = [req EXCEPT ![w] = req[w]]
      /\ reply' = [reply EXCEPT ![w] = reply[w]]
      /\ req[w] \in Request \cup {NoRequest} /\ reply[w] \in Tokens
  BY Kept DEF Goto
<1> QED
  BY <1>1, <1>2, WorkerStep

(* A worker is about to answer with tokens of session s. *)
LEMMA AnswerStep ==
  ASSUME MemoryOK, WorkersOK, NEW w \in Workers, Grows,
         NEW role \in Roles, NEW s \in SessionIds \cup {Null},
         NEW n \in Signatures \cup {Null},
         Answer(w, role, s, n), UNCHANGED <<req, ent, sess>>, pc[w] # "idle",
         s # Null => /\ s \in DOMAIN sessions
                     /\ sessions[s].employee = req[w].employee
  PROVE  MemoryOK' /\ WorkersOK'
<1> DEFINE t == Signed(req[w].employee, role, s, n)
<1>1. /\ req[w] \in Request /\ Backed(req[w], sessions')
      /\ req[w].employee \in Employees
  BY PhaseOf, BackedGrows
     DEF Phase, Request, LoginRequest, PairRequest, RefreshRequest, CallRequest
<1>2. s # Null => s \in DOMAIN sessions' /\ sessions'[s].employee = req[w].employee
  BY DEF Grows
<1>3. t \in Tokens /\ BackedTokens(t, sessions')
  BY <1>1, <1>2, SignedOK
<1>4. pc' = [pc EXCEPT ![w] = "answer"] /\ reply' = [reply EXCEPT ![w] = t]
  BY DEF Answer, Goto
<1> HIDE DEF t
<1>5. Phase("answer", req[w], ent[w], sess[w], t, sessions')
  BY <1>1, <1>3 DEF Phase
<1>6. /\ req' = [req EXCEPT ![w] = req[w]] /\ ent' = [ent EXCEPT ![w] = ent[w]]
      /\ sess' = [sess EXCEPT ![w] = sess[w]]
      /\ req[w] \in Request \cup {NoRequest} /\ ent[w] \in Account \cup {Null}
      /\ sess[w] \in HeldSession /\ "answer" \in Labels
  BY Kept DEF Labels
<1> QED
  BY <1>3, <1>4, <1>5, <1>6, WorkerStep

-----------------------------------------------------------------------------
(* login() *)

LEMMA LoginStep ==
  ASSUME TypePart, NEW w \in Workers, NEW c \in Clients, NEW e \in Employees,
         NEW password \in Passwords, Login(w, c, e, password)
  PROVE  TypePart'
<1> DEFINE r == [kind |-> "login", client |-> c, employee |-> e,
                 password |-> password, session |-> Null]
<1>1. r \in LoginRequest /\ r \in Request /\ Backed(r, sessions)
  BY DEF LoginRequest, Request, Backed
<1>2. Begin(w, r, "credentials") /\ UNCHANGED <<account, sessions, held, memory>>
  BY DEF Login, db
<1> HIDE DEF r
<1>3. MemoryOK' /\ WorkersOK'
  BY <1>1, <1>2, BeginStep DEF TypePart, Labels
<1> QED
  BY <1>2, <1>3, HeldGrows, SameRows DEF TypePart, TablesOK

LEMMA FindCredentialsStep ==
  ASSUME TypePart, NEW w \in Workers, FindCredentials(w)
  PROVE  TypePart'
<1>1. UNCHANGED <<account, sessions, held>> /\ pc[w] = "credentials"
  BY DEF FindCredentials, db
<1>2. Phase("credentials", req[w], ent[w], sess[w], reply[w], sessions)
  BY <1>1, PhaseOf DEF TypePart
<1>3. CASE Active(req[w].employee)
  <2> DEFINE e == account[req[w].employee]
  <2>1. e \in Account
    BY <1>2 DEF Phase, LoginRequest, TypePart, TablesOK
  <2>2. Phase("compare", req[w], e, sess[w], reply[w], sessions)
    BY <1>2, <2>1 DEF Phase
  <2>3. /\ ent' = [ent EXCEPT ![w] = e] /\ Goto(w, "compare")
        /\ UNCHANGED <<req, sess, reply>>
    BY <1>3 DEF FindCredentials
  <2>4. sess' = [sess EXCEPT ![w] = sess[w]] /\ sess[w] \in HeldSession
    BY <2>3, Kept DEF TypePart
  <2> QED
    BY <1>1, <2>1, <2>2, <2>3, <2>4, GoStep, HeldGrows, SameRows
       DEF TypePart, TablesOK, Labels
<1>4. CASE ~Active(req[w].employee)
  BY <1>1, <1>4, FinishStep, HeldGrows, SameRows DEF TypePart, TablesOK, FindCredentials
<1> QED
  BY <1>3, <1>4

LEMMA CompareStep ==
  ASSUME TypePart, NEW w \in Workers, Compare(w)
  PROVE  TypePart'
<1>1. UNCHANGED <<account, sessions, held>> /\ pc[w] = "compare"
  BY DEF Compare, db
<1>2. ent[w].role \in Roles
  BY <1>1, PhaseOf DEF TypePart, Phase, Account
<1>3. CASE Answer(w, ent[w].role, Null, Null) /\ UNCHANGED <<req, ent, sess>>
  <2>1. MemoryOK' /\ WorkersOK'
    BY <1>1, <1>2, <1>3, AnswerStep, SameRows DEF TypePart
  <2> QED
    BY <1>1, <2>1, HeldGrows, SameRows DEF TypePart, TablesOK
<1>4. CASE Finish(w)
  BY <1>1, <1>4, FinishStep, HeldGrows, SameRows DEF TypePart, TablesOK
<1> QED
  BY <1>3, <1>4 DEF Compare

-----------------------------------------------------------------------------
(* poll() of a confirmed code *)

LEMMA PairStep ==
  ASSUME TypePart, NEW w \in Workers, NEW c \in Clients, NEW e \in Employees, Pair(w, c, e)
  PROVE  TypePart'
<1> DEFINE r == [kind |-> "pair", client |-> c, employee |-> e, session |-> Null]
<1>1. r \in PairRequest /\ r \in Request /\ Backed(r, sessions) /\ account[e] \in Account
  BY DEF PairRequest, Request, Backed, TypePart, TablesOK
<1>2. /\ pc' = [pc EXCEPT ![w] = "insertSession"] /\ req' = [req EXCEPT ![w] = r]
      /\ ent' = [ent EXCEPT ![w] = account[e]]
      /\ UNCHANGED <<account, sessions, held, sess, reply>>
  BY DEF Pair, Begin, Goto, db
<1> HIDE DEF r
<1>3. BackedTokens(reply[w], sessions)
  BY PhaseOf DEF TypePart, Phase
<1>4. Phase("insertSession", r, account[e], sess[w], reply[w], sessions')
  BY <1>1, <1>2, <1>3 DEF Phase
<1>5. /\ sess' = [sess EXCEPT ![w] = sess[w]] /\ sess[w] \in HeldSession
      /\ reply' = [reply EXCEPT ![w] = reply[w]] /\ reply[w] \in Tokens
  BY <1>2, Kept DEF TypePart
<1>6. MemoryOK' /\ WorkersOK'
  BY <1>1, <1>2, <1>4, <1>5, WorkerStep, SameRows DEF TypePart, Labels
<1> QED
  BY <1>2, <1>6, HeldGrows, SameRows DEF TypePart, TablesOK

(* A new session row leaves the others in place. *)
LEMMA AppendGrows ==
  ASSUME TablesOK, NEW row \in SessionRow, sessions' = Append(sessions, row)
  PROVE  /\ sessions' \in Seq(SessionRow) /\ Grows
         /\ Len(sessions) + 1 \in DOMAIN sessions'
         /\ sessions'[Len(sessions) + 1] = row
         /\ Len(sessions') = Len(sessions) + 1
BY AppendProperties DEF TablesOK, Grows

LEMMA InsertSessionStep ==
  ASSUME TypePart, CapacityOK, NEW w \in Workers, InsertSession(w)
  PROVE  TypePart'
<1> DEFINE row == Opened(req[w].employee)
           id == Len(sessions) + 1
<1>1. /\ pc[w] = "insertSession" /\ sessions' = Append(sessions, row)
      /\ Goto(w, "reload") /\ UNCHANGED <<account, held, req, ent, reply>>
  BY DEF InsertSession
<1>2. PICK n \in Signatures :
         sess' = [sess EXCEPT ![w] = Held(Len(sessions) + 1, [row EXCEPT !.hash = n])]
  BY DEF InsertSession
<1> DEFINE s == Held(id, [row EXCEPT !.hash = n])
<1>3. Phase("insertSession", req[w], ent[w], sess[w], reply[w], sessions)
  BY <1>1, PhaseOf DEF TypePart
<1>4. row \in SessionRow /\ row.employee = req[w].employee
  BY <1>3 DEF Phase, PairRequest, Opened, SessionRow
<1>5. [row EXCEPT !.hash = n] \in SessionRow
  BY <1>4 DEF SessionRow
<1>6. id \in SessionIds
  <2>1. w \in Inserting /\ IsFiniteSet(Inserting)
    BY <1>1, FS_Subset, AccessAssumption DEF Inserting
  <2>2. Cardinality(Inserting) \in Nat /\ Cardinality(Inserting) # 0
    BY <2>1, FS_CardinalityType, FS_EmptySet
  <2>3. Len(sessions) \in Nat
    BY DEF TypePart, TablesOK
  <2> QED
    BY <2>2, <2>3, AccessAssumption DEF CapacityOK, SessionIds
<1>7. /\ Grows /\ sessions' \in Seq(SessionRow) /\ id \in DOMAIN sessions'
      /\ sessions'[id].employee = req[w].employee
  BY <1>1, <1>4, AppendGrows DEF TypePart
<1> HIDE DEF row, id
<1>8. s \in HeldSession /\ s.id = id /\ s.ent \in SessionRow
  BY <1>5, <1>6 DEF Held, HeldSession, SessionColumns
<1>9. Phase("reload", req[w], ent[w], s, reply[w], sessions')
  BY <1>3, <1>7, <1>8, BackedGrows DEF Phase
<1>10. /\ pc' = [pc EXCEPT ![w] = "reload"] /\ sess' = [sess EXCEPT ![w] = s]
       /\ req' = [req EXCEPT ![w] = req[w]] /\ req[w] \in Request \cup {NoRequest}
       /\ ent' = [ent EXCEPT ![w] = ent[w]] /\ ent[w] \in Account \cup {Null}
       /\ reply' = [reply EXCEPT ![w] = reply[w]] /\ reply[w] \in Tokens
  BY <1>1, <1>2, Kept DEF TypePart, Goto, id
<1> HIDE DEF s
<1>11. MemoryOK' /\ WorkersOK'
  BY <1>7, <1>8, <1>9, <1>10, WorkerStep DEF TypePart, Labels
<1> QED
  BY <1>1, <1>7, <1>11, HeldGrows DEF TypePart, TablesOK

LEMMA ReloadStep ==
  ASSUME TypePart, NEW w \in Workers, Reload(w)
  PROVE  TypePart'
<1> DEFINE d == Dirty(sess[w].ent, sessions[sess[w].id], SessionColumns)
           s == [sess[w] EXCEPT !.dirty = d]
<1>1. /\ pc[w] = "reload" /\ Goto(w, "write")
      /\ UNCHANGED <<account, sessions, held, req, ent, reply>>
      /\ sess' = [sess EXCEPT ![w].dirty = d]
  BY DEF Reload, db
<1>2. d \subseteq SessionColumns
  BY DEF Dirty
<1> HIDE DEF d
<1>3. Phase("reload", req[w], ent[w], sess[w], reply[w], sessions)
  BY <1>1, PhaseOf DEF TypePart
<1>4. sess[w] \in HeldSession
  BY Kept DEF TypePart
<1>5. s \in HeldSession /\ s.id = sess[w].id /\ s.ent = sess[w].ent
  BY <1>2, <1>4 DEF HeldSession
<1>6. sess' = [sess EXCEPT ![w] = s]
  BY <1>1 DEF TypePart, MemoryOK
<1> HIDE DEF s
<1>7. Phase("write", req[w], ent[w], s, reply[w], sessions)
  BY <1>3, <1>5 DEF Phase
<1>8. ent' = [ent EXCEPT ![w] = ent[w]] /\ ent[w] \in Account \cup {Null}
  BY <1>1, Kept DEF TypePart
<1>9. MemoryOK' /\ WorkersOK'
  BY <1>1, <1>5, <1>6, <1>7, <1>8, GoStep DEF TypePart, Labels
<1> QED
  BY <1>1, <1>9, HeldGrows, SameRows DEF TypePart, TablesOK

(* What UPDATE leaves of a session row: another hash, the same employee. *)
LEMMA UpdatedSession ==
  ASSUME NEW row \in SessionRow, NEW h \in HeldSession, h.ent \in SessionRow
  PROVE  Updated(row, h) \in SessionRow /\ Updated(row, h).employee = row.employee
BY DEF Updated, SessionRow, HeldSession, SessionColumns

(* Replacing a row by one of the same employee. *)
LEMMA ReplaceGrows ==
  ASSUME TablesOK, NEW i \in DOMAIN sessions, NEW row \in SessionRow,
         row.employee = sessions[i].employee,
         sessions' = [sessions EXCEPT ![i] = row]
  PROVE  sessions' \in Seq(SessionRow) /\ Grows /\ Len(sessions') = Len(sessions)
BY DEF TablesOK, Grows

LEMMA WriteSessionStep ==
  ASSUME TypePart, NEW w \in Workers, WriteSession(w)
  PROVE  TypePart'
<1> DEFINE id == sess[w].id
           row == Updated(sessions[id], sess[w])
<1>1. /\ pc[w] = "write" /\ Answer(w, ent[w].role, sess[w].id, sess[w].ent.hash)
      /\ UNCHANGED <<account, held, req, ent, sess>>
      /\ sessions' = [sessions EXCEPT ![id] = row]
  BY DEF WriteSession
<1>2. Phase("write", req[w], ent[w], sess[w], reply[w], sessions)
  BY <1>1, PhaseOf DEF TypePart
<1>3. id \in DOMAIN sessions /\ sess[w].ent \in SessionRow
      /\ sessions[id].employee = req[w].employee /\ ent[w] \in Account
  BY <1>2 DEF Phase
<1>4. sess[w] \in HeldSession /\ sessions[id] \in SessionRow
  BY <1>3, Kept DEF TypePart, TablesOK
<1>5. row \in SessionRow /\ row.employee = sessions[id].employee
  BY <1>3, <1>4, UpdatedSession
<1> HIDE DEF row
<1>6. sessions' \in Seq(SessionRow) /\ Grows
  BY <1>1, <1>3, <1>5, ReplaceGrows DEF TypePart
<1>7. /\ id \in SessionIds \cup {Null} /\ ent[w].role \in Roles
      /\ sess[w].ent.hash \in Signatures \cup {Null}
  BY <1>3, <1>4 DEF HeldSession, Account, SessionRow
<1>8. MemoryOK' /\ WorkersOK'
  BY <1>1, <1>3, <1>6, <1>7, AnswerStep DEF TypePart
<1> QED
  BY <1>1, <1>6, <1>8, HeldGrows DEF TypePart, TablesOK

-----------------------------------------------------------------------------
(* refresh() *)

LEMMA RefreshStep ==
  ASSUME TypePart, NEW w \in Workers, NEW c \in Clients, Refresh(w, c)
  PROVE  TypePart'
<1> DEFINE t == held[c].refresh
           r == [kind |-> "refresh", client |-> c, employee |-> t.employee,
                 session |-> t.session, token |-> t]
<1>1. t \in RefreshToken /\ Backed(t, sessions)
  BY DEF Refresh, TypePart, HeldOK, BackedTokens, Tokens
<1>2. r \in RefreshRequest /\ r \in Request /\ Backed(r, sessions)
  BY <1>1 DEF RefreshRequest, Request, Backed, RefreshToken
<1>3. Begin(w, r, "refreshEmployee") /\ UNCHANGED <<account, sessions, held, memory>>
  BY DEF Refresh, db
<1> HIDE DEF r
<1>4. MemoryOK' /\ WorkersOK'
  BY <1>2, <1>3, BeginStep DEF TypePart, Labels
<1> QED
  BY <1>3, <1>4, HeldGrows, SameRows DEF TypePart, TablesOK

LEMMA RefreshEmployeeStep ==
  ASSUME TypePart, NEW w \in Workers, RefreshEmployee(w)
  PROVE  TypePart'
<1> DEFINE u == req[w].employee
           e == [account[u] EXCEPT !.role = Claims(w)]
<1>1. UNCHANGED <<account, sessions, held>> /\ pc[w] = "refreshEmployee"
  BY DEF RefreshEmployee, db
<1>2. Phase("refreshEmployee", req[w], ent[w], sess[w], reply[w], sessions)
  BY <1>1, PhaseOf DEF TypePart
<1>3. account[u] \in Account /\ Claims(w) \in Roles /\ e \in Account
  BY <1>2 DEF Phase, RefreshRequest, TypePart, TablesOK, Claims, Account
<1>4. CASE ~Active(u)
  BY <1>1, <1>4, FinishStep, HeldGrows, SameRows DEF TypePart, TablesOK, RefreshEmployee
<1>5. CASE Active(u) /\ req[w].session = Null
  <2>1. Answer(w, Claims(w), Null, Null) /\ UNCHANGED <<req, ent, sess>>
    BY <1>5 DEF RefreshEmployee
  <2>2. MemoryOK' /\ WorkersOK'
    BY <1>1, <1>3, <2>1, AnswerStep, SameRows DEF TypePart
  <2> QED
    BY <1>1, <2>2, HeldGrows, SameRows DEF TypePart, TablesOK
<1>6. CASE Active(u) /\ req[w].session # Null
  <2>1. ent' = [ent EXCEPT ![w] = e] /\ Goto(w, "refreshSession") /\ UNCHANGED <<req, sess, reply>>
    BY <1>6 DEF RefreshEmployee
  <2> HIDE DEF e
  <2>2. Phase("refreshSession", req[w], e, sess[w], reply[w], sessions)
    BY <1>2, <1>3, <1>6 DEF Phase
  <2>3. sess' = [sess EXCEPT ![w] = sess[w]] /\ sess[w] \in HeldSession
    BY <2>1, Kept DEF TypePart
  <2>4. MemoryOK' /\ WorkersOK'
    BY <1>1, <1>3, <2>1, <2>2, <2>3, GoStep DEF TypePart, Labels
  <2> QED
    BY <1>1, <2>4, HeldGrows, SameRows DEF TypePart, TablesOK
<1> QED
  BY <1>4, <1>5, <1>6

LEMMA RefreshSessionStep ==
  ASSUME TypePart, NEW w \in Workers, RefreshSession(w)
  PROVE  TypePart'
<1> DEFINE id == req[w].session
<1>1. UNCHANGED <<account, sessions, held>> /\ pc[w] = "refreshSession"
  BY DEF RefreshSession, db
<1>2. Phase("refreshSession", req[w], ent[w], sess[w], reply[w], sessions)
  BY <1>1, PhaseOf DEF TypePart
<1>3. /\ id \in DOMAIN sessions /\ sessions[id] \in SessionRow /\ id \in SessionIds
      /\ sessions[id].employee = req[w].employee /\ req[w] \in RefreshRequest
  BY <1>2 DEF Phase, Backed, RefreshRequest, TypePart, TablesOK
<1>4. CASE TokenAccepted(req[w].token)
  <2>1. PICK n \in Signatures :
           sess' = [sess EXCEPT ![w] = Held(id, [sessions[id] EXCEPT !.hash = n])]
    BY <1>4 DEF RefreshSession
  <2> DEFINE s == Held(id, [sessions[id] EXCEPT !.hash = n])
  <2>2. [sessions[id] EXCEPT !.hash = n] \in SessionRow
    BY <1>3 DEF SessionRow
  <2> HIDE DEF id
  <2>3. s \in HeldSession /\ s.id = id /\ s.ent \in SessionRow
    BY <1>3, <2>2 DEF Held, HeldSession, SessionColumns
  <2>4. sess' = [sess EXCEPT ![w] = s]
    BY <2>1
  <2> HIDE DEF s
  <2>5. Phase("reload", req[w], ent[w], s, reply[w], sessions)
    BY <1>2, <1>3, <2>3 DEF Phase
  <2>6. Goto(w, "reload") /\ UNCHANGED <<req, ent, reply>>
    BY <1>4 DEF RefreshSession
  <2>7. ent' = [ent EXCEPT ![w] = ent[w]] /\ ent[w] \in Account \cup {Null}
    BY <2>6, Kept DEF TypePart
  <2>8. MemoryOK' /\ WorkersOK'
    BY <1>1, <2>3, <2>4, <2>5, <2>6, <2>7, GoStep DEF TypePart, Labels
  <2> QED
    BY <1>1, <2>8, HeldGrows, SameRows DEF TypePart, TablesOK
<1>5. CASE ~TokenAccepted(req[w].token)
  BY <1>1, <1>5, FinishStep, HeldGrows, SameRows DEF TypePart, TablesOK, RefreshSession
<1> QED
  BY <1>4, <1>5

-----------------------------------------------------------------------------
(* A request with an access token *)

LEMMA CallStep ==
  ASSUME TypePart, NEW w \in Workers, NEW c \in Clients, NEW roles \in Endpoints,
         Call(w, c, roles)
  PROVE  TypePart'
<1> DEFINE t == held[c].access
           r == [kind |-> "call", client |-> c, employee |-> t.employee,
                 session |-> t.session, role |-> t.role, needs |-> roles]
<1>1. t \in AccessToken /\ Backed(t, sessions)
  BY DEF Call, TypePart, HeldOK, BackedTokens, Tokens
<1>2. r \in CallRequest /\ r \in Request /\ Backed(r, sessions)
  BY <1>1, AccessAssumption DEF CallRequest, Request, Backed, AccessToken
<1>3. Begin(w, r, "validate") /\ UNCHANGED <<account, sessions, held, memory>>
  BY DEF Call, db
<1> HIDE DEF r
<1>4. MemoryOK' /\ WorkersOK'
  BY <1>2, <1>3, BeginStep DEF TypePart, Labels
<1> QED
  BY <1>3, <1>4, HeldGrows, SameRows DEF TypePart, TablesOK

(* A worker that goes on with all it has in memory. *)
LEMMA PassStep ==
  ASSUME TypePart, NEW w \in Workers, NEW p \in {"validateSession", "answer"},
         pc[w] \in {"validate", "validateSession"},
         p = "validateSession" => req[w].session # Null,
         Goto(w, p), UNCHANGED <<account, sessions, held, req, memory>>
  PROVE  TypePart'
<1>1. Phase(p, req[w], ent[w], sess[w], reply[w], sessions) /\ p \in Labels
  BY PhaseOf DEF TypePart, Phase, Labels
<1>2. /\ ent' = [ent EXCEPT ![w] = ent[w]] /\ ent[w] \in Account \cup {Null}
      /\ sess' = [sess EXCEPT ![w] = sess[w]] /\ sess[w] \in HeldSession
      /\ UNCHANGED <<sessions, req, reply>>
  BY Kept DEF TypePart, memory
<1>3. MemoryOK' /\ WorkersOK'
  BY <1>1, <1>2, GoStep DEF TypePart
<1> QED
  BY <1>3, HeldGrows, SameRows DEF TypePart, TablesOK

(* A worker that gives up, or has answered, without a write. *)
LEMMA GiveUpStep ==
  ASSUME TypePart, NEW w \in Workers, Finish(w), UNCHANGED <<account, sessions, held>>
  PROVE  TypePart'
BY FinishStep, HeldGrows, SameRows DEF TypePart, TablesOK

LEMMA ValidateStep ==
  ASSUME TypePart, NEW w \in Workers, Validate(w)
  PROVE  TypePart'
<1>1. UNCHANGED <<account, sessions, held>> /\ pc[w] = "validate"
  BY DEF Validate, db
<1>2. \/ Finish(w)
      \/ Goto(w, "answer") /\ UNCHANGED <<req, memory>>
      \/ Goto(w, "validateSession") /\ UNCHANGED <<req, memory>> /\ req[w].session # Null
  BY DEF Validate, Guarded
<1> QED
  BY <1>1, <1>2, GiveUpStep, PassStep

LEMMA ValidateSessionStep ==
  ASSUME TypePart, NEW w \in Workers, ValidateSession(w)
  PROVE  TypePart'
<1>1. UNCHANGED <<account, sessions, held>> /\ pc[w] = "validateSession"
  BY DEF ValidateSession, db
<1>2. \/ Finish(w)
      \/ Goto(w, "answer") /\ UNCHANGED <<req, memory>>
  BY DEF ValidateSession, Guarded
<1> QED
  BY <1>1, <1>2, GiveUpStep, PassStep

LEMMA DeliverStep ==
  ASSUME TypePart, NEW w \in Workers, Deliver(w)
  PROVE  TypePart'
<1>1. /\ pc[w] = "answer" /\ Finish(w) /\ UNCHANGED <<account, sessions>>
      /\ held' = held \/ held' = [held EXCEPT ![req[w].client] = reply[w]]
  BY DEF Deliver, db
<1>2. BackedTokens(reply[w], sessions) /\ req[w].client \in Clients /\ reply[w] \in Tokens
  BY <1>1, PhaseOf, Kept
     DEF TypePart, Phase, Request, LoginRequest, PairRequest, RefreshRequest, CallRequest
<1>3. HeldOK'
  BY <1>1, <1>2 DEF TypePart, HeldOK
<1> QED
  BY <1>1, <1>3, FinishStep, SameRows DEF TypePart, TablesOK

-----------------------------------------------------------------------------
(* The environment *)

LEMMA TickStep ==
  ASSUME TypePart, Tick
  PROVE  TypePart'
<1>1. /\ held' = [c \in Clients |-> Expired(held[c])]
      /\ reply' = [w \in Workers |-> Expired(reply[w])]
      /\ UNCHANGED <<account, sessions, pc, req, ent, sess>>
  BY DEF Tick, db
<1>2. HeldOK'
  BY <1>1, ExpiredOK DEF TypePart, HeldOK
<1>3. MemoryOK'
  BY <1>1, ExpiredOK DEF TypePart, MemoryOK
<1>4. ASSUME NEW w \in Workers
      PROVE  Phase(pc[w], req[w], ent[w], sess[w], reply'[w], sessions)
  <2>1. Phase(pc[w], req[w], ent[w], sess[w], reply[w], sessions) /\ reply[w] \in Tokens
    BY PhaseOf, Kept DEF TypePart
  <2>2. BackedTokens(reply'[w], sessions)
    BY <1>1, <2>1, ExpiredOK DEF Phase
  <2> QED
    BY <2>1, <2>2 DEF Phase
<1> QED
  BY <1>1, <1>2, <1>3, <1>4 DEF TypePart, TablesOK, WorkersOK

LEMMA EnvironmentStep ==
  ASSUME TypePart, account' \in [Employees -> Account], sessions' \in Seq(SessionRow), Grows,
         UNCHANGED <<held, pc, req, memory>>
  PROVE  TypePart'
<1>1. MemoryOK'
  BY DEF TypePart, MemoryOK, memory
<1>2. WorkersOK'
  BY PhaseGrows DEF TypePart, WorkersOK, memory
<1> QED
  BY <1>1, <1>2, HeldGrows DEF TypePart, TablesOK

LEMMA HRStep ==
  ASSUME TypePart, HR
  PROVE  TypePart' /\ Len(sessions') = Len(sessions)
<1>1. CASE \E e \in Employees :
             \/ \E s \in Standing : Change(e, "standing", s)
             \/ \E r \in Roles : Change(e, "role", r)
             \/ \E p \in Passwords : Change(e, "password", p)
  <2>1. /\ account' \in [Employees -> Account]
        /\ UNCHANGED <<sessions, held, pc, req, memory>>
    BY <1>1 DEF Change, TypePart, TablesOK, Account
  <2> QED
    BY <2>1, EnvironmentStep, SameRows DEF TypePart, TablesOK
<1>2. CASE \E s \in DOMAIN sessions : Revoke(s)
  <2>1. PICK s \in DOMAIN sessions : Revoke(s)
    BY <1>2
  <2> DEFINE row == [sessions[s] EXCEPT !.active = FALSE]
  <2>2. sessions[s] \in SessionRow
    BY DEF TypePart, TablesOK
  <2>3. row \in SessionRow /\ row.employee = sessions[s].employee
    BY <2>2 DEF SessionRow
  <2>4. sessions' = [sessions EXCEPT ![s] = row] /\ UNCHANGED <<account, held, pc, req, memory>>
    BY <2>1 DEF Revoke
  <2> HIDE DEF row
  <2>5. sessions' \in Seq(SessionRow) /\ Grows /\ Len(sessions') = Len(sessions)
    BY <2>3, <2>4, ReplaceGrows DEF TypePart
  <2> QED
    BY <2>4, <2>5, EnvironmentStep DEF TypePart, TablesOK
<1> QED
  BY <1>1, <1>2 DEF HR

-----------------------------------------------------------------------------
(* The rows that pairings under way will insert have room. *)

LEMMA CapacityKept ==
  ASSUME CapacityOK, sessions \in Seq(SessionRow), Len(sessions') = Len(sessions),
         Inserting' \subseteq Inserting
  PROVE  CapacityOK'
<1>1. /\ IsFiniteSet(Inserting) /\ Cardinality(Inserting) \in Nat
      /\ Cardinality(Inserting') \in Nat /\ Cardinality(Inserting') <= Cardinality(Inserting)
  BY AccessAssumption, FS_Subset, FS_CardinalityType DEF Inserting
<1> QED
  BY <1>1, AccessAssumption DEF CapacityOK

LEMMA GotoInserting ==
  ASSUME MemoryOK, NEW w \in Workers, NEW p, Goto(w, p), p # "insertSession"
  PROVE  Inserting' \subseteq Inserting \ {w}
BY DEF MemoryOK, Goto, Inserting

LEMMA PairCapacity ==
  ASSUME TypePart, NEW w \in Workers, NEW c, NEW e, Pair(w, c, e)
  PROVE  CapacityOK'
<1>1. /\ Len(sessions) + Cardinality(Inserting) < MaxSessions
      /\ UNCHANGED sessions /\ pc' = [pc EXCEPT ![w] = "insertSession"]
  BY DEF Pair, SessionRoom, Begin, Goto, Inserting, db
<1>2. Inserting' = Inserting \cup {w}
  BY <1>1 DEF Inserting, TypePart, MemoryOK
<1>3. /\ IsFiniteSet(Inserting) /\ Cardinality(Inserting) \in Nat
  BY AccessAssumption, FS_Subset, FS_CardinalityType DEF Inserting
<1>4. Cardinality(Inserting') \in {Cardinality(Inserting), Cardinality(Inserting) + 1}
  BY <1>2, <1>3, FS_AddElement
<1>5. Len(sessions) \in Nat /\ Len(sessions') = Len(sessions)
  BY <1>1 DEF TypePart, TablesOK
<1> QED
  BY <1>1, <1>3, <1>4, <1>5, AccessAssumption DEF CapacityOK

LEMMA InsertCapacity ==
  ASSUME TypePart, CapacityOK, NEW w \in Workers, InsertSession(w)
  PROVE  CapacityOK'
<1>1. /\ pc[w] = "insertSession" /\ Goto(w, "reload")
      /\ sessions' = Append(sessions, Opened(req[w].employee))
  BY DEF InsertSession
<1>2. Opened(req[w].employee) \in SessionRow
  BY <1>1, PhaseOf DEF TypePart, Phase, PairRequest, Opened, SessionRow
<1>3. Len(sessions') = Len(sessions) + 1 /\ Len(sessions) \in Nat
  BY <1>1, <1>2, AppendGrows DEF TypePart, TablesOK
<1>4. Inserting' \subseteq Inserting \ {w} /\ w \in Inserting
  BY <1>1, GotoInserting DEF TypePart, Inserting
<1>5. IsFiniteSet(Inserting)
  BY AccessAssumption, FS_Subset DEF Inserting
<1>6. /\ IsFiniteSet(Inserting \ {w})
      /\ Cardinality(Inserting \ {w}) = Cardinality(Inserting) - 1
      /\ Cardinality(Inserting) \in Nat
  BY <1>4, <1>5, FS_RemoveElement, FS_CardinalityType
<1>7. Cardinality(Inserting') <= Cardinality(Inserting) - 1 /\ Cardinality(Inserting') \in Nat
  BY <1>4, <1>6, FS_Subset, FS_CardinalityType
<1> QED
  BY <1>3, <1>6, <1>7, AccessAssumption DEF CapacityOK

(* The steps that leave the number of rows alone and begin no pairing *)
LEMMA OtherCapacity ==
  ASSUME TypePart, CapacityOK, NEW w \in Workers,
         \/ \E c, e, p : Login(w, c, e, p)
         \/ \E c : Refresh(w, c) \/ \E roles : Call(w, c, roles)
         \/ FindCredentials(w) \/ Compare(w) \/ Reload(w) \/ WriteSession(w)
         \/ RefreshEmployee(w) \/ RefreshSession(w)
         \/ Validate(w) \/ ValidateSession(w) \/ Deliver(w) \/ Fail(w)
  PROVE  CapacityOK'
<1>1. sessions \in Seq(SessionRow)
  BY DEF TypePart, TablesOK
<1>2. \E p \in Labels \ {"insertSession"} : Goto(w, p)
  BY DEF Labels, Login, Refresh, Call, Begin, FindCredentials, Compare, Reload, WriteSession,
         RefreshEmployee, RefreshSession, Validate, ValidateSession, Guarded, Deliver,
         Fail, Finish, Answer
<1>3. Inserting' \subseteq Inserting
  BY <1>2, GotoInserting DEF TypePart
<1>4. Len(sessions') = Len(sessions)
  <2>1. CASE WriteSession(w)
    <3>1. sessions' = [sessions EXCEPT ![sess[w].id] = Updated(sessions[sess[w].id], sess[w])]
      BY <2>1 DEF WriteSession
    <3> QED
      BY <3>1, <1>1
  <2>2. CASE UNCHANGED sessions
    BY <2>2
  <2> QED
    BY <2>1, <2>2
       DEF Login, Refresh, Call, FindCredentials, Compare, Reload, RefreshEmployee,
           RefreshSession, Validate, ValidateSession, Deliver, Fail, db
<1> QED
  BY <1>1, <1>3, <1>4, CapacityKept

-----------------------------------------------------------------------------
(* The type invariant. *)

LEMMA ObserveIdle == ASSUME Observe PROVE IdleOK'
BY DEF Observe, IdleOK, Idle

LEMMA InitOK == ASSUME Init PROVE IInv /\ ClearedOK
<1>1. TablesOK /\ HeldOK
  BY NoTokensOK DEF Init, TablesOK, HeldOK, Account, Standing
<1>2. MemoryOK
  BY NoTokensOK DEF Init, MemoryOK, Labels, Nothing, Held, HeldSession
<1>3. WorkersOK
  BY NoTokensOK DEF Init, WorkersOK, Phase
<1>4. CapacityOK
  <2>1. Inserting = {} /\ Len(sessions) = 0
    BY DEF Init, Inserting
  <2> QED
    BY <2>1, FS_EmptySet, AccessAssumption DEF CapacityOK
<1>5. IdleOK /\ ClearedOK
  BY DEF Init, IdleOK, ClearedOK, Cleared, Idle
<1> QED
  BY <1>1, <1>2, <1>3, <1>4, <1>5 DEF IInv

LEMMA TypeStep == ASSUME IInv, Next PROVE IInv'
<1>1. TypePart /\ CapacityOK
  BY DEF IInv, TypePart
<1>2. Observe /\ (Tick \/ HR \/ \E w \in Workers : Arrive(w) \/ Serve(w) \/ Fail(w))
  BY DEF Next
<1>3. IdleOK'
  BY <1>2, ObserveIdle
<1>4. CASE Tick
  <2>1. UNCHANGED <<sessions, pc>>
    BY <1>4 DEF Tick, db
  <2>2. CapacityOK'
    BY <1>1, <2>1 DEF CapacityOK, Inserting
  <2> QED
    BY <1>1, <1>3, <1>4, <2>2, TickStep DEF IInv, TypePart
<1>5. CASE HR
  <2>1. UNCHANGED pc
    BY <1>5 DEF HR, Change, Revoke
  <2>2. TypePart' /\ Len(sessions') = Len(sessions)
    BY <1>1, <1>5, HRStep
  <2>3. CapacityOK'
    BY <1>1, <2>1, <2>2 DEF CapacityOK, Inserting
  <2> QED
    BY <1>3, <2>2, <2>3 DEF IInv, TypePart
<1>6. ASSUME NEW w \in Workers, Arrive(w) \/ Serve(w) \/ Fail(w)
      PROVE  TypePart' /\ CapacityOK'
  <2>1. CASE Arrive(w)
    <3>1. CASE \E c \in Clients \ Apps, e \in Employees, p \in Passwords : Login(w, c, e, p)
      BY <1>1, <3>1, LoginStep, OtherCapacity
    <3>2. CASE \E c \in Apps, e \in Employees : Pair(w, c, e)
      BY <1>1, <3>2, PairStep, PairCapacity, AccessAssumption
    <3>3. CASE \E c \in Clients : Refresh(w, c)
      BY <1>1, <3>3, RefreshStep, OtherCapacity
    <3>4. CASE \E c \in Clients, roles \in Endpoints : Call(w, c, roles)
      BY <1>1, <3>4, CallStep, OtherCapacity
    <3> QED
      BY <2>1, <3>1, <3>2, <3>3, <3>4 DEF Arrive
  <2>2. CASE FindCredentials(w) \/ Compare(w)
    BY <1>1, <2>2, FindCredentialsStep, CompareStep, OtherCapacity
  <2>3. CASE InsertSession(w)
    BY <1>1, <2>3, InsertSessionStep, InsertCapacity
  <2>4. CASE Reload(w) \/ WriteSession(w)
    BY <1>1, <2>4, ReloadStep, WriteSessionStep, OtherCapacity
  <2>5. CASE RefreshEmployee(w) \/ RefreshSession(w)
    BY <1>1, <2>5, RefreshEmployeeStep, RefreshSessionStep, OtherCapacity
  <2>6. CASE Validate(w) \/ ValidateSession(w)
    BY <1>1, <2>6, ValidateStep, ValidateSessionStep, OtherCapacity
  <2>7. CASE Deliver(w)
    BY <1>1, <2>7, DeliverStep, OtherCapacity
  <2>8. CASE Fail(w)
    BY <1>1, <2>8, GiveUpStep, OtherCapacity DEF Fail, db
  <2> QED
    BY <1>6, <2>1, <2>2, <2>3, <2>4, <2>5, <2>6, <2>7, <2>8 DEF Serve
<1>7. CASE \E w \in Workers : Arrive(w) \/ Serve(w) \/ Fail(w)
  BY <1>3, <1>6, <1>7 DEF IInv, TypePart
<1> QED
  BY <1>2, <1>4, <1>5, <1>7

LEMMA StutterOK == ASSUME IInv, UNCHANGED vars PROVE IInv'
BY DEF IInv, TablesOK, HeldOK, MemoryOK, WorkersOK, CapacityOK, Inserting, IdleOK, Idle, vars

(* However many requests are served at once, and whatever HR changes       *)
(* between their calls: accounts, sessions and tokens keep their types,    *)
(* refresh tokens name sessions of their own employee (issueDeviceTokens() *)
(* and refresh() sign them for rows that exist), and there are never more  *)
(* sessions than pairings made room for.                                   *)
THEOREM TypeCorrect == Spec => []TypeOK
<1>1. Init => IInv
  BY InitOK
<1>2. IInv /\ [Next]_vars => IInv'
  BY TypeStep, StutterOK
<1>3. ASSUME IInv PROVE TypeOK
  <2>1. Cardinality(Inserting) \in Nat /\ Len(sessions) \in Nat
    BY <1>3, AccessAssumption, FS_Subset, FS_CardinalityType DEF Inserting, IInv, TablesOK
  <2>2. Len(sessions) <= MaxSessions
    BY <1>3, <2>1, AccessAssumption DEF IInv, CapacityOK
  <2> QED
    BY <1>3, <2>2
       DEF IInv, TypeOK, TablesOK, HeldOK, MemoryOK, BackedTokens, Backed, IdleOK
<1> QED
  BY <1>1, <1>2, <1>3, PTL DEF Spec

-----------------------------------------------------------------------------
(* The inductive step of ClearedOK. *)

LEMMA ReasonFacts ==
  ASSUME NEW w
  PROVE  /\ "employee" \in Reasons(w) <=> ~Active(req[w].employee)
         /\ "session" \in Reasons(w) <=>
               req[w].session # Null /\ ~sessions[req[w].session].active
         /\ "password" \in Reasons(w) <=>
               /\ Kind(w) = "login"
               /\ account[req[w].employee].password # req[w].password
BY DEF Reasons

LEMMA NextReasonFacts ==
  ASSUME NEW w
  PROVE  /\ "employee" \in Reasons(w)' <=> ~(Active(req[w].employee)')
         /\ "session" \in Reasons(w)' <=>
               req'[w].session # Null /\ ~sessions'[req'[w].session].active
         /\ "password" \in Reasons(w)' <=>
               /\ req'[w].kind = "login"
               /\ account'[req'[w].employee].password # req'[w].password
BY DEF Reasons, Kind, Active

(* What Observe makes of the history of worker w. *)
LEMMA Observed ==
  ASSUME Observe, IdleOK, NEW w \in Workers
  PROVE  /\ pc'[w] = "idle" => shutOut'[w] = {}
         /\ pc'[w] # "idle" => shutOut'[w] \subseteq Reasons(w)'
         /\ pc[w] # "idle" => shutOut'[w] \subseteq shutOut[w]
BY DEF Observe, Idle

(* Workers that do nothing in a step *)
LEMMA ClearedKept ==
  ASSUME Observe, IdleOK, NEW w \in Workers, Cleared(w),
         pc'[w] = pc[w], req'[w] = req[w], ent'[w] = ent[w]
  PROVE  Cleared(w)'
<1>1. CASE pc[w] = "idle"
  BY <1>1, Observed DEF Cleared, Idle
<1>2. CASE pc[w] # "idle"
  <2>1. shutOut'[w] \subseteq shutOut[w] /\ shutOut'[w] \subseteq Reasons(w)'
    BY <1>2, Observed
  <2> QED
    BY <1>2, <2>1 DEF Cleared, Idle, Kind
<1> QED
  BY <1>1, <1>2

(* A worker whose request arrives, or is over *)
LEMMA ClearedAfresh ==
  ASSUME Observe, IdleOK, NEW w \in Workers,
         pc'[w] \in {"idle", "credentials", "insertSession", "refreshEmployee", "validate"}
  PROVE  Cleared(w)'
BY Observed DEF Cleared, Idle

LEMMA ArriveCleared ==
  ASSUME IInv, Observe, NEW w \in Workers, Arrive(w)
  PROVE  Cleared(w)'
<1>1. pc'[w] \in {"credentials", "insertSession", "refreshEmployee", "validate"}
  BY DEF Arrive, Login, Pair, Refresh, Call, Begin, Goto, IInv, MemoryOK
<1> QED
  BY <1>1, ClearedAfresh DEF IInv

LEMMA FinishCleared ==
  ASSUME IInv, Observe, NEW w \in Workers, Finish(w)
  PROVE  Cleared(w)'
<1>1. pc'[w] = "idle"
  BY DEF Finish, Goto, IInv, MemoryOK
<1> QED
  BY <1>1, ClearedAfresh DEF IInv

(* A worker in the middle of its request *)
LEMMA Midway ==
  ASSUME IInv, Observe, NEW w \in Workers, pc[w] # "idle", NEW p \in Labels,
         Goto(w, p), p # "idle", UNCHANGED req
  PROVE  /\ pc'[w] = p /\ shutOut'[w] \subseteq shutOut[w] /\ shutOut'[w] \subseteq Reasons(w)'
         /\ req[w].kind # "login" => "password" \notin shutOut'[w]
         /\ req[w].session = Null => "session" \notin shutOut'[w]
<1>1. pc'[w] = p
  BY DEF Goto, IInv, MemoryOK
<1>2. shutOut'[w] \subseteq shutOut[w] /\ shutOut'[w] \subseteq Reasons(w)'
  BY <1>1, Observed DEF IInv
<1> QED
  BY <1>1, <1>2, NextReasonFacts

LEMMA FindCredentialsCleared ==
  ASSUME IInv, Observe, NEW w \in Workers, FindCredentials(w)
  PROVE  Cleared(w)'
<1>1. CASE Active(req[w].employee)
  <2>1. /\ pc[w] = "credentials" /\ Goto(w, "compare") /\ UNCHANGED <<req, account>>
        /\ ent' = [ent EXCEPT ![w] = account[req[w].employee]]
    BY <1>1 DEF FindCredentials, db
  <2>2. pc'[w] = "compare" /\ shutOut'[w] \subseteq Reasons(w)'
    BY <2>1, Midway DEF Labels
  <2>3. "employee" \notin shutOut'[w]
    BY <1>1, <2>1, <2>2, NextReasonFacts DEF Active
  <2>4. "password" \in shutOut'[w] => ent'[w].password # req'[w].password
    BY <2>1, <2>2, NextReasonFacts DEF IInv, MemoryOK
  <2> QED
    BY <2>2, <2>3, <2>4 DEF Cleared, Idle
<1>2. CASE ~Active(req[w].employee)
  BY <1>2, FinishCleared DEF FindCredentials
<1> QED
  BY <1>1, <1>2

LEMMA CompareCleared ==
  ASSUME IInv, ClearedOK, Observe, NEW w \in Workers, Compare(w)
  PROVE  Cleared(w)'
<1>1. CASE ent[w].password = req[w].password
  <2>1. pc[w] = "compare" /\ Goto(w, "answer") /\ UNCHANGED req
    BY <1>1 DEF Compare, Answer
  <2>2. req[w] \in LoginRequest /\ req[w].session = Null /\ req[w].kind = "login"
    BY <2>1, PhaseOf, Kinds DEF IInv, Phase, LoginRequest
  <2>3. /\ pc'[w] = "answer" /\ shutOut'[w] \subseteq shutOut[w]
        /\ shutOut'[w] \subseteq Reasons(w)' /\ "session" \notin shutOut'[w]
    BY <2>1, <2>2, Midway DEF Labels
  <2>4. "employee" \notin shutOut[w] /\ "password" \notin shutOut[w]
    BY <1>1, <2>1, <2>2 DEF ClearedOK, Cleared, Kind
  <2> QED
    BY <2>3, <2>4 DEF Cleared, Idle
<1>2. CASE ent[w].password # req[w].password
  BY <1>2, FinishCleared DEF Compare
<1> QED
  BY <1>1, <1>2

(* A worker that has its session row goes on to store and answer it. *)
LEMMA SessionCleared ==
  ASSUME IInv, ClearedOK, Observe, NEW w \in Workers,
         InsertSession(w) \/ Reload(w) \/ WriteSession(w)
  PROVE  Cleared(w)'
<1> DEFINE p == IF pc[w] = "insertSession" THEN "reload"
                ELSE IF pc[w] = "reload" THEN "write" ELSE "answer"
<1>1. /\ pc[w] \in {"insertSession", "reload", "write"} /\ Goto(w, p) /\ UNCHANGED req
  BY DEF InsertSession, Reload, WriteSession, Answer
<1>2. /\ req[w] \in PairRequest \cup RefreshRequest
      /\ pc[w] = "insertSession" => req[w].kind = "pair"
      /\ req[w].kind # "login"
  BY <1>1, PhaseOf, Kinds DEF IInv, Phase
<1>3. /\ pc'[w] = p /\ shutOut'[w] \subseteq shutOut[w]
      /\ shutOut'[w] \subseteq Reasons(w)' /\ "password" \notin shutOut'[w]
  BY <1>1, <1>2, Midway DEF Labels
<1>4. p \in {"reload", "write", "answer"}
  OBVIOUS
<1>5. req[w].kind # "pair" => "employee" \notin shutOut[w] /\ "session" \notin shutOut[w]
  BY <1>1, <1>2 DEF ClearedOK, Cleared, Kind
<1> HIDE DEF p
<1> QED
  BY <1>1, <1>3, <1>4, <1>5 DEF Cleared, Idle, Kind

LEMMA RefreshEmployeeCleared ==
  ASSUME IInv, Observe, NEW w \in Workers, RefreshEmployee(w)
  PROVE  Cleared(w)'
<1>1. CASE Active(req[w].employee)
  <2> DEFINE p == IF req[w].session = Null THEN "answer" ELSE "refreshSession"
  <2>1. /\ pc[w] = "refreshEmployee" /\ Goto(w, p) /\ UNCHANGED <<req, account>>
    BY <1>1 DEF RefreshEmployee, Answer, db
  <2>2. req[w].kind = "refresh"
    BY <2>1, PhaseOf, Kinds DEF IInv, Phase
  <2>3. /\ pc'[w] = p /\ shutOut'[w] \subseteq Reasons(w)' /\ "password" \notin shutOut'[w]
        /\ req[w].session = Null => "session" \notin shutOut'[w]
    BY <2>1, <2>2, Midway DEF Labels
  <2>4. "employee" \notin shutOut'[w]
    BY <1>1, <2>1, <2>3, NextReasonFacts DEF Active
  <2> QED
    BY <2>3, <2>4 DEF Cleared, Idle
<1>2. CASE ~Active(req[w].employee)
  BY <1>2, FinishCleared DEF RefreshEmployee
<1> QED
  BY <1>1, <1>2

LEMMA RefreshSessionCleared ==
  ASSUME IInv, ClearedOK, Observe, NEW w \in Workers, RefreshSession(w)
  PROVE  Cleared(w)'
<1>1. CASE TokenAccepted(req[w].token)
  <2>1. pc[w] = "refreshSession" /\ Goto(w, "reload") /\ UNCHANGED <<req, sessions>>
    BY <1>1 DEF RefreshSession, db
  <2>2. req[w].kind = "refresh" /\ req[w] \in RefreshRequest
    BY <2>1, PhaseOf, Kinds DEF IInv, Phase
  <2>3. /\ pc'[w] = "reload" /\ shutOut'[w] \subseteq shutOut[w]
        /\ shutOut'[w] \subseteq Reasons(w)'
    BY <2>1, Midway DEF Labels
  <2>4. "employee" \notin shutOut[w]
    BY <2>1, <2>2 DEF ClearedOK, Cleared, Kind
  <2>5. "session" \notin shutOut'[w]
    BY <1>1, <2>1, <2>2, <2>3, NextReasonFacts DEF TokenAccepted, RefreshRequest
  <2> QED
    BY <2>3, <2>4, <2>5 DEF Cleared, Idle
<1>2. CASE ~TokenAccepted(req[w].token)
  BY <1>2, FinishCleared DEF RefreshSession
<1> QED
  BY <1>1, <1>2

LEMMA ValidateCleared ==
  ASSUME IInv, Observe, NEW w \in Workers, Validate(w)
  PROVE  Cleared(w)'
<1>1. CASE Finish(w)
  BY <1>1, FinishCleared
<1>2. CASE ~Finish(w)
  <2> DEFINE p == IF req[w].session = Null THEN "answer" ELSE "validateSession"
  <2>1. /\ pc[w] = "validate" /\ Goto(w, p) /\ UNCHANGED <<req, account>>
        /\ Active(req[w].employee)
    BY <1>2 DEF Validate, Admitted, Guarded, db
  <2>2. req[w].kind = "call"
    BY <2>1, PhaseOf, Kinds DEF IInv, Phase
  <2>3. /\ pc'[w] = p /\ shutOut'[w] \subseteq Reasons(w)' /\ "password" \notin shutOut'[w]
        /\ req[w].session = Null => "session" \notin shutOut'[w]
    BY <2>1, <2>2, Midway DEF Labels
  <2>4. "employee" \notin shutOut'[w]
    BY <2>1, <2>3, NextReasonFacts DEF Active
  <2> QED
    BY <2>3, <2>4 DEF Cleared, Idle
<1> QED
  BY <1>1, <1>2

LEMMA ValidateSessionCleared ==
  ASSUME IInv, ClearedOK, Observe, NEW w \in Workers, ValidateSession(w)
  PROVE  Cleared(w)'
<1>1. CASE Finish(w)
  BY <1>1, FinishCleared
<1>2. CASE ~Finish(w)
  <2>1. /\ pc[w] = "validateSession" /\ Goto(w, "answer") /\ UNCHANGED <<req, sessions>>
        /\ sessions[req[w].session].active
    BY <1>2 DEF ValidateSession, Guarded, db
  <2>2. req[w].kind = "call"
    BY <2>1, PhaseOf, Kinds DEF IInv, Phase
  <2>3. /\ pc'[w] = "answer" /\ shutOut'[w] \subseteq shutOut[w]
        /\ shutOut'[w] \subseteq Reasons(w)' /\ "password" \notin shutOut'[w]
    BY <2>1, <2>2, Midway DEF Labels
  <2>4. "employee" \notin shutOut[w]
    BY <2>1, <2>2 DEF ClearedOK, Cleared, Kind
  <2>5. "session" \notin shutOut'[w]
    BY <2>1, <2>3, NextReasonFacts
  <2> QED
    BY <2>3, <2>4, <2>5 DEF Cleared, Idle
<1> QED
  BY <1>1, <1>2

(* A step of worker w leaves the others where they are. *)
LEMMA Others ==
  ASSUME IInv, NEW w \in Workers, Arrive(w) \/ Serve(w) \/ Fail(w),
         NEW v \in Workers, v # w
  PROVE  pc'[v] = pc[v] /\ req'[v] = req[v] /\ ent'[v] = ent[v]
<1>1. CASE Finish(w)
  BY <1>1 DEF Finish, Goto, IInv, MemoryOK
<1>2. CASE Arrive(w)
  BY <1>2 DEF Arrive, Login, Pair, Refresh, Call, Begin, Goto, memory, IInv, MemoryOK
<1>3. CASE FindCredentials(w) \/ Compare(w) \/ InsertSession(w) \/ Reload(w) \/ WriteSession(w)
  BY <1>1, <1>3
     DEF FindCredentials, Compare, InsertSession, Reload, WriteSession, Answer, Goto,
         IInv, MemoryOK
<1>4. CASE \/ RefreshEmployee(w) \/ RefreshSession(w) \/ Validate(w) \/ ValidateSession(w)
  BY <1>1, <1>4
     DEF RefreshEmployee, RefreshSession, Validate, ValidateSession, Guarded, Answer, Goto,
         memory, IInv, MemoryOK
<1>5. CASE Deliver(w) \/ Fail(w)
  BY <1>1, <1>5 DEF Deliver, Fail
<1> QED
  BY <1>2, <1>3, <1>4, <1>5 DEF Serve

LEMMA ClearedStep == ASSUME IInv, ClearedOK, Next PROVE ClearedOK'
<1>1. Observe /\ IdleOK /\ \A w \in Workers : Cleared(w)
  BY DEF Next, IInv, ClearedOK
<1>2. CASE Tick \/ HR
  <2>1. UNCHANGED <<pc, req, ent>>
    BY <1>2 DEF Tick, HR, Change, Revoke, memory
  <2> QED
    BY <1>1, <2>1, ClearedKept DEF ClearedOK
<1>3. ASSUME NEW w \in Workers, Arrive(w) \/ Serve(w) \/ Fail(w)
      PROVE  ClearedOK'
  <2>1. Cleared(w)'
    <3>1. CASE Arrive(w)
      BY <1>1, <3>1, ArriveCleared
    <3>2. CASE FindCredentials(w) \/ Compare(w)
      BY <1>1, <3>2, FindCredentialsCleared, CompareCleared
    <3>3. CASE InsertSession(w) \/ Reload(w) \/ WriteSession(w)
      BY <1>1, <3>3, SessionCleared
    <3>4. CASE RefreshEmployee(w) \/ RefreshSession(w)
      BY <1>1, <3>4, RefreshEmployeeCleared, RefreshSessionCleared
    <3>5. CASE Validate(w) \/ ValidateSession(w)
      BY <1>1, <3>5, ValidateCleared, ValidateSessionCleared
    <3>6. CASE Deliver(w) \/ Fail(w)
      BY <1>1, <3>6, FinishCleared DEF Deliver, Fail
    <3> QED
      BY <1>3, <3>1, <3>2, <3>3, <3>4, <3>5, <3>6 DEF Serve
  <2>2. \A v \in Workers \ {w} : Cleared(v)'
    BY <1>1, <1>3, Others, ClearedKept
  <2> QED
    BY <2>1, <2>2 DEF ClearedOK
<1> QED
  BY <1>2, <1>3 DEF Next

LEMMA ClearedStutter == ASSUME ClearedOK, UNCHANGED vars PROVE ClearedOK'
BY DEF ClearedOK, Cleared, Idle, Kind, Reasons, Active, vars

(* A login, refresh or call is never answered when a reason to refuse it   *)
(* was there from its arrival on, for any number of workers and tokens and *)
(* whatever happens between its database calls: JwtStrategy.validate(),    *)
(* refresh() and validateCredentials() each look for every reason once,    *)
(* after the request arrived, and a reason found absent is out of the      *)
(* history for good.                                                       *)
THEOREM CutOffHolds == Spec => []CutOff
<1>1. Init => IInv /\ ClearedOK
  BY InitOK
<1>2. IInv /\ ClearedOK /\ [Next]_vars => (IInv /\ ClearedOK)'
  BY TypeStep, StutterOK, ClearedStep, ClearedStutter
<1>3. ASSUME IInv, ClearedOK PROVE CutOff
  <2>1. ASSUME NEW w \in Workers, pc[w] = "answer", shutOut[w] # {}, Kind(w) # "pair"
        PROVE  FALSE
    <3>1. \A r \in shutOut[w] : r \in {"employee", "session", "password"}
      BY <1>3, <2>1 DEF ClearedOK, Cleared, Idle, Reasons
    <3> QED
      BY <1>3, <2>1, <3>1 DEF ClearedOK, Cleared
  <2> QED
    BY <2>1 DEF CutOff
<1> QED
  BY <1>1, <1>2, <1>3, PTL DEF Spec
=============================================================================
