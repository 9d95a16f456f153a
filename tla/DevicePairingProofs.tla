-------------------------- MODULE DevicePairingProofs --------------------------
(***************************************************************************)
(* Theorems of DevicePairing for every set of employees, user codes and    *)
(* workers, every lifetime and interval.  Phase is what a worker holds at  *)
(* each call it waits for, however requests overlap.  The invariants under *)
(* Alone add what holds when there is one worker: the entity it holds is   *)
(* an edit of the row as it still is.                                      *)
(***************************************************************************)
EXTENDS DevicePairing, SequenceTheorems, FiniteSetTheorems, TLAPS

Labels == {"idle", "insertCode", "insertSession", "findSession", "reloadCode", "writeCode",
           "reloadSession", "writeSession"}

PlainRequest == [kind: {"create", "confirm", "expire", "slowDown", "pending", "revoke"}]
IssueRequest == [kind: {"redeem", "retry"}, employee: Employees, code: Nat]
RefreshRequest == [kind: {"refresh"}, token: Token]
Request == PlainRequest \cup IssueRequest \cup RefreshRequest

(* A code in memory: its employee may not be loaded, and its interval may  *)
(* have outgrown the column.                                               *)
CodeEntity == [user: UserCodes, status: Status, employee: Employees \cup {Null, Undef},
               expires: Nat, polled: Nat \cup {Null}, interval: Nat,
               session: Nat \cup {Null}]
HeldCode == [id: Nat, ent: CodeEntity \cup {Null}, dirty: SUBSET CodeColumns]
HeldSession == [id: Nat, ent: SessionRow \cup {Null}, dirty: SUBSET SessionColumns]

(* The calls at which a worker with request r holds a code, a session.     *)
HoldsCode(p, r) == p \in {"reloadCode", "writeCode"} \/ r.kind = "redeem"
HoldsSession(p, r) == \/ p \in {"reloadSession", "writeSession"}
                      \/ p \in {"reloadCode", "writeCode"} /\ r.kind = "redeem"

(* A worker about to make call p, with its request r, code c and device    *)
(* session s, over the rows of both tables.                                *)
Phase(p, r, c, s, crows, srows) ==
    /\ IF p = "idle" THEN r = NoRequest ELSE r \in Request
    /\ p = "insertCode" => c.ent \in CodeRow
    /\ HoldsCode(p, r) => c.id \in DOMAIN crows /\ c.ent \in CodeEntity
    /\ p = "writeCode" => ("employee" \in c.dirty => c.ent.employee # Undef)
    /\ p = "insertSession" => r \in IssueRequest
    /\ p = "findSession" => r \in RefreshRequest /\ r.token.session \in DOMAIN srows
    /\ HoldsSession(p, r) => /\ s.id \in DOMAIN srows /\ s.ent \in SessionRow
                             /\ r.kind # "revoke" => s.ent.hash \in Nat

TablesOK ==
    /\ codes \in Seq(CodeRow)
    /\ sessions \in Seq(SessionRow)

MemoryOK ==
    /\ pc \in [Workers -> Labels]
    /\ req \in [Workers -> Request \cup {NoRequest}]
    /\ code \in [Workers -> HeldCode]
    /\ sess \in [Workers -> HeldSession]

WorldOK ==
    /\ standing \in [Employees -> {"active", "locked", "deleted"}]
    /\ now \in Nat /\ failures \in Nat

TokensOK == tokens \subseteq Token /\ \A t \in tokens : t.session \in DOMAIN sessions

WorkersOK == \A w \in Workers : Phase(pc[w], req[w], code[w], sess[w], codes, sessions)

IInv == TablesOK /\ MemoryOK /\ WorldOK /\ TokensOK /\ WorkersOK

-----------------------------------------------------------------------------
(* One worker. *)

(* Entity e, to be saved as code c, is an edit of its row: a code does not *)
(* become pending again or change hands, a confirmation only ends with a   *)
(* session or overdue and loses its employee only to an early poll, and a  *)
(* poll that counts kept the interval.                                     *)
Edit(kind, e, row, c) ==
    /\ row.status # "pending" => /\ e.status # "pending"
                                 /\ e.employee \in {row.employee, Null, Undef}
    /\ row.status = "confirmed" =>
          \/ /\ e.status = "confirmed"
             /\ e.employee = row.employee \/ (kind = "slowDown" /\ e.employee = Null)
          \/ e.status = "expired" /\ e.session \in Nat /\ e.employee = row.employee
          \/ e.status = "expired" /\ Overdue(c)
    /\ row.polled # Null /\ e.polled # row.polled => e.polled >= row.polled + row.interval

CodeAlone(w) ==
    /\ HoldsCode(pc[w], req[w]) =>
          /\ Edit(Kind(w), code[w].ent, codes[code[w].id], code[w].id)
          /\ Kind(w) = "redeem" => code[w].ent.interval = codes[code[w].id].interval
    /\ pc[w] = "writeCode" => code[w].dirty = Dirty(code[w].ent, codes[code[w].id], CodeColumns)

IssueAlone(w) ==
    pc[w] = "insertSession" =>
       /\ req[w].code \in DOMAIN codes
       /\ codes[req[w].code].status # "pending"
       /\ codes[req[w].code].employee = req[w].employee
       /\ Len(sessions) < MaxSessions

(* The session row before and after the hash of a new token is stored in   *)
(* it; no token of the session that reached the device is newer.           *)
Rotating(w, row) ==
    /\ row.active /\ sess[w].ent.active
    /\ sess[w].ent.hash <= now
    /\ row.hash # Null => row.hash <= sess[w].ent.hash
    /\ \A t \in tokens : t.session = sess[w].id => t.iat <= sess[w].ent.hash

SessionAlone(w) ==
    /\ pc[w] \in {"reloadSession", "writeSession"} =>
          Kind(w) \in {"redeem", "retry", "refresh", "revoke"}
    /\ pc[w] \in {"reloadSession", "writeSession"} =>
          IF Kind(w) = "revoke"
          THEN ~sess[w].ent.active /\ sess[w].ent.hash = sessions[sess[w].id].hash
          ELSE Rotating(w, sessions[sess[w].id])
    /\ pc[w] = "writeSession" =>
          sess[w].dirty = Dirty(sess[w].ent, sessions[sess[w].id], SessionColumns)
    /\ pc[w] \in {"reloadCode", "writeCode"} /\ Kind(w) = "redeem" =>
          /\ Rotating(w, sessions[sess[w].id])
          /\ sessions[sess[w].id].hash = sess[w].ent.hash
    /\ ~HoldsSession(pc[w], req[w]) => sess[w].id = 0

TimesOK ==
    /\ now <= MaxTime /\ Len(sessions) <= MaxSessions
    /\ \A s \in DOMAIN sessions : sessions[s].hash # Null => sessions[s].hash <= now
    /\ \A t \in tokens : t.iat <= now

OwnersOK ==
    \A s \in DOMAIN sessions :
       /\ sessions[s].code \in DOMAIN codes
       /\ codes[sessions[s].code].status # "pending"

AloneInv ==
    /\ \A w \in Workers : CodeAlone(w) /\ IssueAlone(w) /\ SessionAlone(w)
    /\ TimesOK /\ OwnersOK /\ OneOwner /\ NewestTokenAccepted

-----------------------------------------------------------------------------
(* Rows and entities. *)

LEMMA Bounds ==
  /\ Ttl \in Nat /\ PollInterval \in 0 .. MaxInterval /\ PollInterval > 0
  /\ MaxInterval \in Nat /\ MaxTime \in Nat /\ MaxSessions \in Nat /\ MaxFailures \in Nat
  /\ Null \notin Nat /\ Undef \notin Nat /\ Null \notin Employees /\ Undef \notin Employees
  /\ Undef \notin Status
  /\ Null # Undef
BY PairingAssumption, NullIsNotUndef

LEMMA RowIsEntity == CodeRow \subseteq CodeEntity
BY Bounds DEF CodeRow, CodeEntity

LEMMA LoadedCode ==
  ASSUME NEW row \in CodeRow
  PROVE  Joined(row) \in CodeRow /\ Bare(row) \in CodeEntity
BY Bounds DEF Joined, Bare, CodeRow, CodeEntity

LEMMA NewCodeOK ==
  ASSUME NEW user \in UserCodes, now \in Nat
  PROVE  NewCode(user) \in CodeRow
BY Bounds DEF NewCode, CodeRow, Status

LEMMA NewSessionOK ==
  ASSUME NEW r \in IssueRequest, now \in Nat
  PROVE  NewSession(r) \in SessionRow /\ [NewSession(r) EXCEPT !.hash = now] \in SessionRow
BY DEF NewSession, IssueRequest, SessionRow

(* A code and a session that no worker holds. *)
LEMMA NothingHeld == Nothing \in HeldCode /\ Nothing \in HeldSession
BY DEF Nothing, Held, HeldCode, HeldSession

LEMMA HeldOK ==
  /\ \A c \in Nat, e \in CodeEntity :
        /\ Held(c, e) \in HeldCode /\ Held(c, e).id = c
        /\ Held(c, e).ent = e /\ Held(c, e).dirty = {}
  /\ \A s \in Nat, e \in SessionRow :
        /\ Held(s, e) \in HeldSession /\ Held(s, e).id = s
        /\ Held(s, e).ent = e /\ Held(s, e).dirty = {}
BY DEF Held, HeldCode, HeldSession

(* What an UPDATE leaves of a code and of a session. *)
LEMMA UpdatedCode ==
  ASSUME NEW row \in CodeRow, NEW h \in HeldCode, h.ent \in CodeEntity
  PROVE  /\ \A col \in DOMAIN row :
               Updated(row, h)[col] = IF col \in h.dirty THEN h.ent[col] ELSE row[col]
         /\ Updated(row, h).user = row.user /\ Updated(row, h).expires = row.expires
         /\ ("employee" \in h.dirty => h.ent.employee # Undef) /\ Storable(Updated(row, h))
            => Updated(row, h) \in CodeRow
BY Bounds DEF Updated, CodeRow, CodeEntity, HeldCode, CodeColumns, Storable

LEMMA UpdatedSession ==
  ASSUME NEW row \in SessionRow, NEW h \in HeldSession, h.ent \in SessionRow
  PROVE  /\ Updated(row, h) \in SessionRow
         /\ Updated(row, h).code = row.code /\ Updated(row, h).employee = row.employee
         /\ Updated(row, h).hash = IF "hash" \in h.dirty THEN h.ent.hash ELSE row.hash
         /\ Updated(row, h).active = IF "active" \in h.dirty THEN h.ent.active ELSE row.active
BY DEF Updated, SessionRow, HeldSession, SessionColumns

(* Requests of different kinds are different. *)
LEMMA Kinds ==
  /\ \A r \in PlainRequest : r.kind \notin {"redeem", "retry", "refresh", "none"}
  /\ \A r \in IssueRequest : r.kind \in {"redeem", "retry"}
  /\ \A r \in RefreshRequest : r.kind = "refresh"
  /\ NoRequest.kind = "none" /\ NoRequest \notin Request
BY DEF PlainRequest, IssueRequest, RefreshRequest, NoRequest, Request

-----------------------------------------------------------------------------
(* The inductive step of IInv: one lemma per action or group of actions. *)

Grows == DOMAIN codes \subseteq DOMAIN codes' /\ DOMAIN sessions \subseteq DOMAIN sessions'

(* A step of worker w that leaves it in phase p, r, c, s and deletes no    *)
(* row preserves the invariant's parts about workers.                      *)
LEMMA WorkerStep ==
  ASSUME MemoryOK, WorkersOK, NEW w \in Workers, NEW p \in Labels,
         NEW r \in Request \cup {NoRequest}, NEW c \in HeldCode, NEW s \in HeldSession,
         pc' = [pc EXCEPT ![w] = p], req' = [req EXCEPT ![w] = r],
         code' = [code EXCEPT ![w] = c], sess' = [sess EXCEPT ![w] = s],
         Grows, Phase(p, r, c, s, codes', sessions')
  PROVE  MemoryOK' /\ WorkersOK'
<1>1. MemoryOK'
  BY DEF MemoryOK
<1>2. ASSUME NEW v \in Workers
      PROVE  Phase(pc'[v], req'[v], code'[v], sess'[v], codes', sessions')
  <2>1. CASE v = w
    <3>1. pc'[v] = p /\ req'[v] = r /\ code'[v] = c /\ sess'[v] = s
      BY <2>1 DEF MemoryOK
    <3> QED
      BY <3>1
  <2>2. CASE v # w
    <3>1. pc'[v] = pc[v] /\ req'[v] = req[v] /\ code'[v] = code[v] /\ sess'[v] = sess[v]
      BY <2>2 DEF MemoryOK
    <3>2. Phase(pc[v], req[v], code[v], sess[v], codes, sessions)
      BY DEF WorkersOK
    <3> QED
      BY <3>1, <3>2 DEF Phase, Grows
  <2> QED
    BY <2>1, <2>2
<1> QED
  BY <1>1, <1>2 DEF WorkersOK

LEMMA PhaseOf ==
  ASSUME WorkersOK, NEW w \in Workers
  PROVE  Phase(pc[w], req[w], code[w], sess[w], codes, sessions)
BY DEF WorkersOK

(* What a step leaves alone keeps its value. *)
LEMMA Kept ==
  ASSUME MemoryOK, NEW w \in Workers
  PROVE  /\ pc[w] \in Labels /\ req[w] \in Request \cup {NoRequest}
         /\ code[w] \in HeldCode /\ sess[w] \in HeldSession
         /\ UNCHANGED req => req' = [req EXCEPT ![w] = req[w]]
         /\ UNCHANGED code => code' = [code EXCEPT ![w] = code[w]]
         /\ UNCHANGED sess => sess' = [sess EXCEPT ![w] = sess[w]]
BY DEF MemoryOK

LEMMA Ids ==
  ASSUME TablesOK
  PROVE  /\ DOMAIN codes = 1 .. Len(codes) /\ DOMAIN codes \subseteq Nat /\ Len(codes) \in Nat
         /\ DOMAIN sessions = 1 .. Len(sessions) /\ DOMAIN sessions \subseteq Nat
         /\ Len(sessions) \in Nat
         /\ 0 \notin DOMAIN codes /\ 0 \notin DOMAIN sessions
         /\ \A c \in DOMAIN codes : codes[c] \in CodeRow
         /\ \A s \in DOMAIN sessions : sessions[s] \in SessionRow
BY DEF TablesOK

LEMMA SameTables == ASSUME UNCHANGED db PROVE Grows /\ codes' = codes /\ sessions' = sessions
BY DEF db, Grows

(* Finish leaves the worker idle and free. *)
LEMMA FinishStep ==
  ASSUME MemoryOK, WorkersOK, NEW w \in Workers, Finish(w), Grows
  PROVE  MemoryOK' /\ WorkersOK'
<1>1. Phase("idle", NoRequest, Nothing, Nothing, codes', sessions')
  BY Kinds DEF Phase, HoldsCode, HoldsSession
<1> QED
  BY <1>1, NothingHeld, WorkerStep DEF Finish, Goto, Begin, Labels

(* A request that starts to save an edit e of code c *)
LEMMA EditStep ==
  ASSUME IInv, NEW w \in Workers, NEW c \in DOMAIN codes, NEW e \in CodeEntity,
         NEW r \in PlainRequest,
         Begin(w, r), SaveCode(w, c, e), UNCHANGED <<db, world, tokens, sess>>
  PROVE  IInv'
<1>1. c \in Nat /\ Held(c, e) \in HeldCode /\ Held(c, e).id = c /\ Held(c, e).ent = e
  BY Ids, HeldOK DEF IInv
<1>2. r \in Request /\ r.kind # "redeem"
  BY Kinds DEF Request
<1>3. Phase("reloadCode", r, Held(c, e), sess[w], codes', sessions')
  BY <1>1, <1>2, SameTables DEF Phase, HoldsCode, HoldsSession, NoRequest
<1>4. /\ pc' = [pc EXCEPT ![w] = "reloadCode"] /\ req' = [req EXCEPT ![w] = r]
      /\ code' = [code EXCEPT ![w] = Held(c, e)]
      /\ sess' = [sess EXCEPT ![w] = sess[w]] /\ sess[w] \in HeldSession
  BY Kept DEF IInv, SaveCode, Goto, Begin
<1>5. MemoryOK' /\ WorkersOK'
  BY <1>1, <1>2, <1>3, <1>4, SameTables, WorkerStep DEF IInv, Labels
<1> QED
  BY <1>5, SameTables DEF IInv, TablesOK, WorldOK, TokensOK, db, world

(* A poll that starts to issue tokens *)
LEMMA IssueStep ==
  ASSUME IInv, NEW w \in Workers, NEW c \in DOMAIN codes, NEW e \in CodeEntity,
         NEW kind \in {"redeem", "retry"}, Employee(c) # Null,
         IssueTokens(w, c, kind, e), UNCHANGED <<db, world, tokens, sess>>
  PROVE  IInv'
<1> DEFINE r == [kind |-> kind, employee |-> Employee(c), code |-> c]
<1>1. c \in Nat /\ Held(c, e) \in HeldCode /\ Held(c, e).id = c /\ Held(c, e).ent = e
  BY Ids, HeldOK DEF IInv
<1>2. Employee(c) \in Employees
  BY Ids, LoadedCode DEF IInv, Employee, CodeRow
<1>3. r \in IssueRequest /\ r \in Request
  BY <1>1, <1>2 DEF IssueRequest, Request
<1>4. /\ pc' = [pc EXCEPT ![w] = "insertSession"] /\ req' = [req EXCEPT ![w] = r]
      /\ code' = [code EXCEPT ![w] = Held(c, e)]
      /\ sess' = [sess EXCEPT ![w] = sess[w]] /\ sess[w] \in HeldSession
  BY Kept DEF IInv, IssueTokens, Goto, Begin
<1> HIDE DEF r
<1>5. Phase("insertSession", r, Held(c, e), sess[w], codes', sessions')
  BY <1>1, <1>3, SameTables DEF Phase, HoldsCode, HoldsSession
<1>6. MemoryOK' /\ WorkersOK'
  BY <1>1, <1>3, <1>4, <1>5, SameTables, WorkerStep DEF IInv, Labels
<1> QED
  BY <1>6, SameTables DEF IInv, TablesOK, WorldOK, TokensOK, db, world

LEMMA CreateStep ==
  ASSUME IInv, NEW w \in Workers, NEW user \in UserCodes, CreateDeviceCode(w, user)
  PROVE  IInv'
<1> DEFINE c == Held(0, NewCode(user))
           r == [kind |-> "create"]
<1>1. NewCode(user) \in CodeRow /\ NewCode(user) \in CodeEntity
  BY NewCodeOK, RowIsEntity DEF IInv, WorldOK
<1>2. c \in HeldCode /\ c.ent \in CodeRow
  BY <1>1, HeldOK
<1>3. r \in Request /\ r.kind = "create"
  BY DEF Request, PlainRequest
<1>4. /\ pc' = [pc EXCEPT ![w] = "insertCode"] /\ req' = [req EXCEPT ![w] = r]
      /\ code' = [code EXCEPT ![w] = c] /\ UNCHANGED <<db, world, tokens>>
      /\ sess' = [sess EXCEPT ![w] = sess[w]] /\ sess[w] \in HeldSession
  BY Kept DEF IInv, CreateDeviceCode, Goto, Begin
<1> HIDE DEF c, r
<1>5. Phase("insertCode", r, c, sess[w], codes', sessions')
  BY <1>2, <1>3 DEF Phase, HoldsCode, HoldsSession
<1>6. MemoryOK' /\ WorkersOK'
  BY <1>2, <1>3, <1>4, <1>5, SameTables, WorkerStep DEF IInv, Labels
<1> QED
  BY <1>4, <1>6, SameTables DEF IInv, TablesOK, WorldOK, TokensOK, db, world

LEMMA ConfirmStep ==
  ASSUME IInv, NEW w \in Workers, NEW c \in DOMAIN codes, NEW e \in Employees,
         Confirm(w, c, e) \/ ConfirmTooLate(w, c, e)
  PROVE  IInv'
<1>1. codes[c] \in CodeRow
  BY Ids DEF IInv
<1>2. CASE Confirm(w, c, e)
  <2>1. [codes[c] EXCEPT !.status = "confirmed", !.employee = e] \in CodeEntity
    BY <1>1, RowIsEntity, Bounds DEF CodeRow, CodeEntity, Status
  <2>2. [kind |-> "confirm"] \in PlainRequest
    BY DEF PlainRequest
  <2> QED
    BY <1>2, <2>1, <2>2, EditStep DEF Confirm
<1>3. CASE ConfirmTooLate(w, c, e)
  <2>1. [Bare(codes[c]) EXCEPT !.status = "expired"] \in CodeEntity
    BY <1>1, LoadedCode DEF CodeEntity, Status
  <2>2. [kind |-> "expire"] \in PlainRequest
    BY DEF PlainRequest
  <2> QED
    BY <1>3, <2>1, <2>2, EditStep DEF ConfirmTooLate, Expire
<1> QED
  BY <1>2, <1>3

LEMMA PollStep ==
  ASSUME IInv, NEW w \in Workers, NEW c \in DOMAIN codes,
         \/ PollOverdue(w, c) \/ PollRetry(w, c) \/ PollTooEarly(w, c)
         \/ PollPending(w, c) \/ PollConfirmed(w, c)
  PROVE  IInv'
<1> DEFINE e == Joined(codes[c])
<1>1. e \in CodeRow /\ e \in CodeEntity
  BY Ids, LoadedCode, RowIsEntity DEF IInv
<1>2. now \in Nat
  BY DEF IInv, WorldOK
<1>3. {[kind |-> "expire"], [kind |-> "slowDown"], [kind |-> "pending"]} \subseteq PlainRequest
  BY DEF PlainRequest
<1>4. /\ [e EXCEPT !.status = "expired"] \in CodeEntity
      /\ [e EXCEPT !.interval = @ * 2] \in CodeEntity
      /\ [e EXCEPT !.polled = now] \in CodeEntity
  BY <1>1, <1>2 DEF CodeEntity, Status
<1>5. CASE PollOverdue(w, c)
  BY <1>3, <1>4, <1>5, EditStep DEF PollOverdue, Expire
<1>6. CASE PollRetry(w, c)
  BY <1>1, <1>6, IssueStep DEF PollRetry, Retriable
<1>7. CASE PollTooEarly(w, c)
  BY <1>3, <1>4, <1>7, EditStep DEF PollTooEarly
<1>8. CASE PollPending(w, c)
  BY <1>3, <1>4, <1>8, EditStep DEF PollPending
<1>9. CASE PollConfirmed(w, c)
  BY <1>4, <1>9, IssueStep DEF PollConfirmed
<1> QED
  BY <1>5, <1>6, <1>7, <1>8, <1>9

(* A new row leaves the others in place. *)
LEMMA AppendCode ==
  ASSUME TablesOK, NEW row \in CodeRow, codes' = Append(codes, row)
  PROVE  /\ codes' \in Seq(CodeRow) /\ DOMAIN codes \subseteq DOMAIN codes'
         /\ \A c \in DOMAIN codes : codes'[c] = codes[c]
         /\ DOMAIN codes' = DOMAIN codes \cup {Len(codes) + 1}
         /\ codes'[Len(codes) + 1] = row
BY AppendProperties DEF TablesOK

LEMMA InsertCodeStep ==
  ASSUME IInv, NEW w \in Workers, InsertCode(w)
  PROVE  IInv'
<1>1. code[w].ent \in CodeRow
  BY PhaseOf DEF IInv, Phase, InsertCode
<1>2. /\ codes' = codes \/ codes' = Append(codes, code[w].ent)
      /\ Finish(w) /\ UNCHANGED <<sessions, standing, now, failures, tokens>>
  BY DEF InsertCode, world
<1>3. codes' \in Seq(CodeRow) /\ DOMAIN codes \subseteq DOMAIN codes'
  BY <1>1, <1>2, AppendCode DEF IInv, TablesOK
<1>4. MemoryOK' /\ WorkersOK'
  BY <1>2, <1>3, FinishStep DEF IInv, Grows
<1> QED
  BY <1>2, <1>3, <1>4 DEF IInv, TablesOK, WorldOK, TokensOK

LEMMA AppendSession ==
  ASSUME TablesOK, NEW row \in SessionRow, sessions' = Append(sessions, row)
  PROVE  /\ sessions' \in Seq(SessionRow) /\ DOMAIN sessions \subseteq DOMAIN sessions'
         /\ Len(sessions) + 1 \in DOMAIN sessions' /\ Len(sessions') = Len(sessions) + 1
         /\ sessions'[Len(sessions) + 1] = row
         /\ \A s \in DOMAIN sessions : sessions'[s] = sessions[s]
         /\ DOMAIN sessions' = DOMAIN sessions \cup {Len(sessions) + 1}
BY AppendProperties DEF TablesOK

LEMMA InsertSessionStep ==
  ASSUME IInv, NEW w \in Workers, InsertSession(w)
  PROVE  IInv'
<1> DEFINE row == NewSession(req[w])
           id == Len(sessions) + 1
           e == [row EXCEPT !.hash = now]
<1>1. /\ pc[w] = "insertSession" /\ sessions' = Append(sessions, row)
      /\ SaveSession(w, id, e) /\ UNCHANGED <<codes, standing, now, failures, tokens, req, code>>
  BY DEF InsertSession, world
<1>2. Phase("insertSession", req[w], code[w], sess[w], codes, sessions)
  BY <1>1, PhaseOf DEF IInv
<1>3. row \in SessionRow /\ e \in SessionRow /\ e.hash \in Nat
  <2>1. req[w] \in IssueRequest /\ now \in Nat
    BY <1>2 DEF Phase, IInv, WorldOK
  <2>2. row \in SessionRow /\ e \in SessionRow
    BY <2>1, NewSessionOK
  <2> QED
    BY <2>1, <2>2 DEF SessionRow
<1>4. /\ sessions' \in Seq(SessionRow) /\ DOMAIN sessions \subseteq DOMAIN sessions'
      /\ id \in DOMAIN sessions' /\ id \in Nat
  BY <1>1, <1>3, AppendSession, Ids DEF IInv
<1> HIDE DEF row, id, e
<1>5. Held(id, e) \in HeldSession /\ Held(id, e).id = id /\ Held(id, e).ent = e
  BY <1>3, <1>4, HeldOK
<1>6. Phase("reloadSession", req[w], code[w], Held(id, e), codes', sessions')
  BY <1>1, <1>2, <1>3, <1>4, <1>5 DEF Phase, HoldsCode, HoldsSession
<1>7. /\ pc' = [pc EXCEPT ![w] = "reloadSession"] /\ sess' = [sess EXCEPT ![w] = Held(id, e)]
      /\ req' = [req EXCEPT ![w] = req[w]] /\ req[w] \in Request \cup {NoRequest}
      /\ code' = [code EXCEPT ![w] = code[w]] /\ code[w] \in HeldCode
  BY <1>1, Kept DEF IInv, SaveSession, Goto
<1>8. MemoryOK' /\ WorkersOK'
  BY <1>1, <1>4, <1>5, <1>6, <1>7, WorkerStep DEF IInv, Labels, Grows
<1> QED
  BY <1>1, <1>4, <1>8 DEF IInv, TablesOK, WorldOK, TokensOK

LEMMA RefreshStep ==
  ASSUME IInv, NEW w \in Workers, NEW t \in tokens, Refresh(w, t)
  PROVE  IInv'
<1> DEFINE r == [kind |-> "refresh", token |-> t]
<1>1. t \in Token /\ t.session \in DOMAIN sessions
  BY DEF IInv, TokensOK
<1>2. r \in RefreshRequest /\ r \in Request /\ r.kind = "refresh" /\ r.token = t
  BY <1>1 DEF RefreshRequest, Request
<1>3. /\ pc' = [pc EXCEPT ![w] = "findSession"] /\ req' = [req EXCEPT ![w] = r]
      /\ code' = [code EXCEPT ![w] = code[w]] /\ code[w] \in HeldCode
      /\ sess' = [sess EXCEPT ![w] = sess[w]] /\ sess[w] \in HeldSession
      /\ UNCHANGED <<db, world, tokens>>
  BY Kept DEF IInv, Refresh, Goto, Begin
<1> HIDE DEF r
<1>4. Phase("findSession", r, code[w], sess[w], codes', sessions')
  BY <1>1, <1>2, <1>3, SameTables DEF Phase, HoldsCode, HoldsSession
<1>5. MemoryOK' /\ WorkersOK'
  BY <1>2, <1>3, <1>4, SameTables, WorkerStep DEF IInv, Labels
<1> QED
  BY <1>3, <1>5, SameTables DEF IInv, TablesOK, WorldOK, TokensOK, db, world

(* A worker with a session row in memory goes on to save it. *)
LEMMA SaveSessionStep ==
  ASSUME IInv, NEW w \in Workers, NEW s \in DOMAIN sessions, NEW e \in SessionRow,
         NEW r \in Request, r.kind # "redeem", r.kind # "revoke" => e.hash \in Nat,
         req' = [req EXCEPT ![w] = r], SaveSession(w, s, e),
         UNCHANGED <<db, world, tokens, code>>
  PROVE  IInv'
<1>1. /\ s \in Nat /\ Held(s, e) \in HeldSession /\ Held(s, e).id = s
      /\ Held(s, e).ent = e
  BY Ids, HeldOK DEF IInv
<1>2. Phase("reloadSession", r, code[w], Held(s, e), codes', sessions')
  BY <1>1, SameTables DEF Phase, HoldsCode, HoldsSession
<1>3. /\ pc' = [pc EXCEPT ![w] = "reloadSession"] /\ sess' = [sess EXCEPT ![w] = Held(s, e)]
      /\ code' = [code EXCEPT ![w] = code[w]] /\ code[w] \in HeldCode
  BY Kept DEF IInv, SaveSession, Goto
<1>4. MemoryOK' /\ WorkersOK'
  BY <1>1, <1>2, <1>3, SameTables, WorkerStep DEF IInv, Labels
<1> QED
  BY <1>4, SameTables DEF IInv, TablesOK, WorldOK, TokensOK, db, world

(* A worker that gives up without a write. *)
LEMMA GiveUpStep ==
  ASSUME IInv, NEW w \in Workers, Finish(w), UNCHANGED <<db, standing, now, tokens>>,
         failures' \in Nat
  PROVE  IInv'
<1>1. MemoryOK' /\ WorkersOK'
  BY SameTables, FinishStep DEF IInv
<1> QED
  BY <1>1, SameTables DEF IInv, TablesOK, WorldOK, TokensOK, db

LEMMA FindSessionStep ==
  ASSUME IInv, NEW w \in Workers, FindSession(w)
  PROVE  IInv'
<1> DEFINE t == req[w].token
<1>1. pc[w] = "findSession" /\ UNCHANGED <<db, world, tokens>> /\ now \in Nat
  BY DEF FindSession, IInv, WorldOK
<1>2. Phase("findSession", req[w], code[w], sess[w], codes, sessions)
  BY <1>1, PhaseOf DEF IInv
<1>3. req[w] \in RefreshRequest /\ t.session \in DOMAIN sessions /\ req[w].kind = "refresh"
      /\ req[w] \in Request
  BY <1>2, Kinds DEF Phase, Request
<1>4. CASE TokenAccepted(t)
  <2> DEFINE e == [sessions[t.session] EXCEPT !.hash = now]
  <2>1. sessions[t.session] \in SessionRow
    BY <1>3, Ids DEF IInv
  <2>2. e \in SessionRow /\ e.hash \in Nat
    BY <1>1, <2>1 DEF SessionRow
  <2>3. SaveSession(w, t.session, e) /\ UNCHANGED <<req, code>>
    BY <1>4 DEF FindSession
  <2>4. req' = [req EXCEPT ![w] = req[w]]
    BY <2>3, Kept DEF IInv
  <2> HIDE DEF e
  <2> QED
    BY <1>1, <1>3, <2>2, <2>3, <2>4, SaveSessionStep
<1>5. CASE ~TokenAccepted(t)
  BY <1>1, <1>5, GiveUpStep DEF FindSession, world, IInv, WorldOK
<1> QED
  BY <1>4, <1>5

LEMMA RevokeStep ==
  ASSUME IInv, NEW w \in Workers, NEW s \in DOMAIN sessions, Revoke(w, s)
  PROVE  IInv'
<1>1. [sessions[s] EXCEPT !.active = FALSE] \in SessionRow
  BY Ids DEF IInv, SessionRow
<1>2. [kind |-> "revoke"] \in Request
  BY DEF PlainRequest, Request
<1> QED
  BY <1>1, <1>2, SaveSessionStep DEF Revoke, Begin

(* save()'s second read *)
LEMMA ReloadCodeStep ==
  ASSUME IInv, NEW w \in Workers, ReloadCode(w)
  PROVE  IInv'
<1> DEFINE d == Dirty(code[w].ent, codes[code[w].id], CodeColumns)
           c == [code[w] EXCEPT !.dirty = d]
<1>1. /\ pc[w] = "reloadCode" /\ UNCHANGED <<db, world, tokens, req, sess>>
      /\ pc' = [pc EXCEPT ![w] = "writeCode"]
  BY DEF ReloadCode, Goto
<1>2. d \subseteq CodeColumns /\ ("employee" \in d => code[w].ent.employee # Undef)
  BY DEF Dirty
<1> HIDE DEF d
<1>3. Phase("reloadCode", req[w], code[w], sess[w], codes, sessions)
  BY <1>1, PhaseOf DEF IInv
<1>4. /\ code[w] \in HeldCode /\ req[w] \in Request \cup {NoRequest}
      /\ req' = [req EXCEPT ![w] = req[w]]
      /\ sess' = [sess EXCEPT ![w] = sess[w]] /\ sess[w] \in HeldSession
  BY <1>1, Kept DEF IInv
<1>5. c \in HeldCode /\ c.id = code[w].id /\ c.ent = code[w].ent /\ c.dirty = d
  BY <1>2, <1>4 DEF HeldCode
<1>6. code' = [code EXCEPT ![w] = c]
  BY DEF ReloadCode, IInv, MemoryOK, d
<1> HIDE DEF c
<1>7. Phase("writeCode", req[w], c, sess[w], codes', sessions')
  BY <1>1, <1>2, <1>3, <1>5, SameTables DEF Phase, HoldsCode, HoldsSession
<1>8. MemoryOK' /\ WorkersOK'
  BY <1>1, <1>4, <1>5, <1>6, <1>7, SameTables, WorkerStep DEF IInv, Labels
<1> QED
  BY <1>1, <1>8, SameTables DEF IInv, TablesOK, WorldOK, TokensOK, db, world

LEMMA ReloadSessionStep ==
  ASSUME IInv, NEW w \in Workers, ReloadSession(w)
  PROVE  IInv'
<1> DEFINE d == Dirty(sess[w].ent, sessions[sess[w].id], SessionColumns)
           s == [sess[w] EXCEPT !.dirty = d]
<1>1. /\ pc[w] = "reloadSession" /\ UNCHANGED <<db, world, tokens, req, code>>
      /\ pc' = [pc EXCEPT ![w] = "writeSession"]
  BY DEF ReloadSession, Goto
<1>2. d \subseteq SessionColumns
  BY DEF Dirty
<1> HIDE DEF d
<1>3. Phase("reloadSession", req[w], code[w], sess[w], codes, sessions)
  BY <1>1, PhaseOf DEF IInv
<1>4. /\ code[w] \in HeldCode /\ req[w] \in Request \cup {NoRequest}
      /\ req' = [req EXCEPT ![w] = req[w]] /\ sess[w] \in HeldSession
      /\ code' = [code EXCEPT ![w] = code[w]]
  BY <1>1, Kept DEF IInv
<1>5. s \in HeldSession /\ s.id = sess[w].id /\ s.ent = sess[w].ent /\ s.dirty = d
  BY <1>2, <1>4 DEF HeldSession
<1>6. sess' = [sess EXCEPT ![w] = s]
  BY DEF ReloadSession, IInv, MemoryOK, d
<1> HIDE DEF s
<1>7. Phase("writeSession", req[w], code[w], s, codes', sessions')
  BY <1>1, <1>3, <1>5, SameTables DEF Phase, HoldsCode, HoldsSession
<1>8. MemoryOK' /\ WorkersOK'
  BY <1>1, <1>4, <1>5, <1>6, <1>7, SameTables, WorkerStep DEF IInv, Labels
<1> QED
  BY <1>1, <1>8, SameTables DEF IInv, TablesOK, WorldOK, TokensOK, db, world

(* What the UPDATE of a code does. *)
LEMMA WrittenCode ==
  ASSUME IInv, NEW w \in Workers, WriteCode(w)
  PROVE  /\ code[w].id \in DOMAIN codes /\ codes' \in Seq(CodeRow)
         /\ DOMAIN codes' = DOMAIN codes
         /\ \A c \in DOMAIN codes \ {code[w].id} : codes'[c] = codes[c]
         /\ LET id == code[w].id
                row == Updated(codes[id], code[w])
            IN  codes'[id] = IF Storable(row) THEN row ELSE codes[id]
<1> DEFINE id == code[w].id
           row == Updated(codes[id], code[w])
<1>1. /\ pc[w] = "writeCode"
      /\ codes' = IF Storable(row) THEN [codes EXCEPT ![id] = row] ELSE codes
  BY DEF WriteCode
<1>2. Phase("writeCode", req[w], code[w], sess[w], codes, sessions) /\ code[w] \in HeldCode
  BY <1>1, PhaseOf, Kept DEF IInv
<1>3. /\ id \in DOMAIN codes /\ codes[id] \in CodeRow /\ code[w].ent \in CodeEntity
      /\ "employee" \in code[w].dirty => code[w].ent.employee # Undef
  BY <1>2, Ids DEF Phase, HoldsCode, IInv
<1>4. Storable(row) => row \in CodeRow
  BY <1>2, <1>3, UpdatedCode
<1> HIDE DEF row
<1> QED
  BY <1>1, <1>3, <1>4 DEF IInv, TablesOK, row

LEMMA Delivered ==
  ASSUME IInv, NEW w \in Workers, Deliver(w), HoldsSession(pc[w], req[w]),
         req[w].kind # "revoke", DOMAIN sessions' = DOMAIN sessions
  PROVE  TokensOK'
<1>1. sess[w].id \in DOMAIN sessions /\ sess[w].ent.hash \in Nat /\ sess[w].id \in Nat
  BY PhaseOf, Ids DEF IInv, Phase
<1> QED
  BY <1>1 DEF Deliver, IInv, TokensOK, Token

LEMMA WriteCodeStep ==
  ASSUME IInv, NEW w \in Workers, WriteCode(w)
  PROVE  IInv'
<1>1. pc[w] = "writeCode" /\ Finish(w) /\ UNCHANGED <<sessions, standing, now, failures>>
  BY DEF WriteCode, world
<1>2. codes' \in Seq(CodeRow) /\ DOMAIN codes' = DOMAIN codes
  BY WrittenCode
<1>3. MemoryOK' /\ WorkersOK'
  BY <1>1, <1>2, FinishStep DEF IInv, Grows
<1>4. TokensOK'
  <2>1. CASE Deliver(w) /\ Kind(w) = "redeem"
    BY <1>1, <2>1, Delivered DEF HoldsSession, Kind
  <2>2. CASE UNCHANGED tokens
    BY <1>1, <2>2 DEF IInv, TokensOK
  <2> QED
    BY <2>1, <2>2 DEF WriteCode
<1> QED
  BY <1>1, <1>2, <1>3, <1>4 DEF IInv, TablesOK, WorldOK

(* What the UPDATE of a session does. *)
LEMMA WrittenSession ==
  ASSUME IInv, NEW w \in Workers, WriteSession(w)
  PROVE  /\ sess[w].id \in DOMAIN sessions /\ sessions' \in Seq(SessionRow)
         /\ DOMAIN sessions' = DOMAIN sessions /\ Len(sessions') = Len(sessions)
         /\ \A s \in DOMAIN sessions \ {sess[w].id} : sessions'[s] = sessions[s]
         /\ sessions'[sess[w].id] = Updated(sessions[sess[w].id], sess[w])
<1> DEFINE id == sess[w].id
           row == Updated(sessions[id], sess[w])
<1>1. pc[w] = "writeSession" /\ sessions' = [sessions EXCEPT ![id] = row]
  BY DEF WriteSession
<1>2. Phase("writeSession", req[w], code[w], sess[w], codes, sessions) /\ sess[w] \in HeldSession
  BY <1>1, PhaseOf, Kept DEF IInv
<1>3. id \in DOMAIN sessions /\ sessions[id] \in SessionRow /\ sess[w].ent \in SessionRow
  BY <1>2, Ids DEF Phase, HoldsSession, IInv
<1>4. row \in SessionRow
  BY <1>2, <1>3, UpdatedSession
<1> HIDE DEF row
<1> QED
  BY <1>1, <1>3, <1>4 DEF IInv, TablesOK, row

LEMMA WriteSessionStep ==
  ASSUME IInv, NEW w \in Workers, WriteSession(w)
  PROVE  IInv'
<1>1. pc[w] = "writeSession" /\ UNCHANGED <<codes, standing, now, failures>>
  BY DEF WriteSession, world
<1>2. sessions' \in Seq(SessionRow) /\ DOMAIN sessions' = DOMAIN sessions
  BY WrittenSession
<1>3. Phase("writeSession", req[w], code[w], sess[w], codes, sessions)
  BY <1>1, PhaseOf DEF IInv
<1>4. CASE Kind(w) = "redeem"
  <2> DEFINE e == [code[w].ent EXCEPT !.status = "expired", !.session = sess[w].id]
             c == Held(code[w].id, e)
  <2>1. /\ code[w].id \in DOMAIN codes /\ code[w].ent \in CodeEntity
        /\ sess[w].id \in DOMAIN sessions /\ sess[w].ent \in SessionRow
        /\ sess[w].ent.hash \in Nat /\ sess[w].id \in Nat /\ code[w].id \in Nat
    BY <1>3, <1>4, Ids DEF Phase, HoldsCode, HoldsSession, Kind, IInv
  <2>2. e \in CodeEntity
    BY <2>1 DEF CodeEntity, Status
  <2>3. c \in HeldCode /\ c.id = code[w].id /\ c.ent = e /\ c.dirty = {}
    BY <2>1, <2>2, HeldOK
  <2>4. /\ pc' = [pc EXCEPT ![w] = "reloadCode"] /\ code' = [code EXCEPT ![w] = c]
        /\ UNCHANGED <<tokens, req, sess>>
    BY <1>4 DEF WriteSession, Redeemed, SaveCode, Goto
  <2> HIDE DEF e, c
  <2>5. Phase("reloadCode", req[w], c, sess[w], codes', sessions')
    BY <1>1, <1>2, <1>3, <1>4, <2>1, <2>2, <2>3
       DEF Phase, HoldsCode, HoldsSession, Kind, NoRequest
  <2>6. /\ req' = [req EXCEPT ![w] = req[w]] /\ req[w] \in Request \cup {NoRequest}
        /\ sess' = [sess EXCEPT ![w] = sess[w]] /\ sess[w] \in HeldSession
    BY <2>4, Kept DEF IInv
  <2>7. MemoryOK' /\ WorkersOK'
    BY <1>1, <1>2, <2>3, <2>4, <2>5, <2>6, WorkerStep DEF IInv, Labels, Grows
  <2> QED
    BY <1>1, <1>2, <2>4, <2>7 DEF IInv, TablesOK, WorldOK, TokensOK
<1>5. CASE Kind(w) # "redeem"
  <2>1. Finish(w) /\ (UNCHANGED tokens \/ (Deliver(w) /\ Kind(w) \in {"retry", "refresh"}))
    BY <1>5 DEF WriteSession
  <2>2. TokensOK'
    <3>1. CASE UNCHANGED tokens
      BY <1>2, <3>1 DEF IInv, TokensOK
    <3>2. CASE Deliver(w) /\ Kind(w) \in {"retry", "refresh"}
      BY <1>1, <1>2, <3>2, Delivered DEF HoldsSession, Kind
    <3> QED
      BY <2>1, <3>1, <3>2
  <2>3. MemoryOK' /\ WorkersOK'
    BY <1>1, <1>2, <2>1, FinishStep DEF IInv, Grows
  <2> QED
    BY <1>1, <1>2, <2>2, <2>3 DEF IInv, TablesOK, WorldOK
<1> QED
  BY <1>4, <1>5

LEMMA EnvironmentStep ==
  ASSUME IInv, Environment
  PROVE  IInv'
<1>1. /\ UNCHANGED <<db, tokens, pc, req, code, sess>> /\ WorldOK'
  BY DEF Environment, Tick, SetStanding, IInv, WorldOK, PairingAssumption
<1> QED
  BY <1>1, SameTables DEF IInv, TablesOK, MemoryOK, TokensOK, WorkersOK

LEMMA InitOK == ASSUME Init PROVE IInv
BY NothingHeld, Bounds
   DEF Init, IInv, TablesOK, MemoryOK, WorldOK, TokensOK, WorkersOK, Phase, HoldsCode,
       HoldsSession, Labels, NoRequest

LEMMA TypeStep == ASSUME IInv, Next PROVE IInv'
<1>1. CASE Environment
  BY <1>1, EnvironmentStep
<1>2. ASSUME NEW w \in Workers, Arrive(w)
      PROVE  IInv'
  <2>1. CASE \E user \in UserCodes : CreateDeviceCode(w, user)
    BY <2>1, CreateStep
  <2>2. CASE \E c \in DOMAIN codes, e \in Employees :
                Confirm(w, c, e) \/ ConfirmTooLate(w, c, e)
    BY <2>2, ConfirmStep
  <2>3. CASE \E c \in DOMAIN codes :
                \/ PollOverdue(w, c) \/ PollRetry(w, c) \/ PollTooEarly(w, c)
                \/ PollPending(w, c) \/ PollConfirmed(w, c)
    BY <2>3, PollStep
  <2>4. CASE \E t \in tokens : Refresh(w, t)
    BY <2>4, RefreshStep
  <2>5. CASE \E s \in DOMAIN sessions : Revoke(w, s)
    BY <2>5, RevokeStep
  <2> QED
    BY <1>2, <2>1, <2>2, <2>3, <2>4, <2>5 DEF Arrive
<1>3. ASSUME NEW w \in Workers, Serve(w) \/ Fail(w)
      PROVE  IInv'
  <2>1. CASE InsertCode(w) \/ InsertSession(w) \/ FindSession(w)
    BY <2>1, InsertCodeStep, InsertSessionStep, FindSessionStep
  <2>2. CASE ReloadCode(w) \/ WriteCode(w)
    BY <2>2, ReloadCodeStep, WriteCodeStep
  <2>3. CASE ReloadSession(w) \/ WriteSession(w)
    BY <2>3, ReloadSessionStep, WriteSessionStep
  <2>4. CASE Fail(w)
    BY <2>4, GiveUpStep DEF Fail, IInv, WorldOK
  <2> QED
    BY <1>3, <2>1, <2>2, <2>3, <2>4 DEF Serve
<1> QED
  BY <1>1, <1>2, <1>3 DEF Next

LEMMA StutterOK == ASSUME IInv, UNCHANGED vars PROVE IInv'
BY DEF IInv, TablesOK, MemoryOK, WorldOK, TokensOK, WorkersOK, vars

LEMMA Inductive == Spec => []IInv
<1>1. Init => IInv
  BY InitOK
<1>2. IInv /\ [Next]_vars => IInv'
  BY TypeStep, StutterOK
<1> QED
  BY <1>1, <1>2, PTL DEF Spec

(* However polls, confirmations, refreshes and revocations interleave and  *)
(* fail, rows keep their types: above all, the interval that poll()        *)
(* doubles at every early poll never outgrows pollIntervalSeconds, and a   *)
(* findOne() without the employee never writes undefined into the row.     *)
THEOREM TypeCorrect == Spec => []TypeOK
<1>1. ASSUME IInv PROVE TypeOK
  <2>1. \A w \in Workers : pc[w] = "idle" <=> req[w] = NoRequest
    BY <1>1, PhaseOf, Kinds DEF IInv, Phase
  <2> QED
    BY <1>1, <2>1 DEF IInv, TypeOK, TablesOK, WorldOK, TokensOK
<1> QED
  BY <1>1, Inductive, PTL

-----------------------------------------------------------------------------
(* User codes, and codes that are overdue. *)

LEMMA CodesKept ==
  ASSUME Next, \A w \in Workers : ~InsertCode(w) /\ ~WriteCode(w)
  PROVE  UNCHANGED codes
BY DEF Next, Environment, Tick, SetStanding, Arrive, CreateDeviceCode, Confirm,
       ConfirmTooLate, PollOverdue, PollRetry, PollTooEarly, PollPending, PollConfirmed,
       Refresh, Revoke, Serve, InsertSession, FindSession, ReloadCode, ReloadSession,
       WriteSession, Fail, db

LEMMA UniqueStep == ASSUME IInv, UserCodesUnique, Next PROVE UserCodesUnique'
<1>1. CASE \E w \in Workers : InsertCode(w)
  <2>1. PICK w \in Workers : InsertCode(w)
    BY <1>1
  <2> DEFINE row == code[w].ent
  <2>2. row \in CodeRow
    BY <2>1, PhaseOf DEF IInv, Phase, InsertCode
  <2>3. CASE CodesOf(row.user) = {} /\ codes' = Append(codes, row)
    <3>1. /\ DOMAIN codes' = DOMAIN codes \cup {Len(codes) + 1}
          /\ codes'[Len(codes) + 1] = row
          /\ \A c \in DOMAIN codes : codes'[c] = codes[c] /\ codes[c].user # row.user
      BY <2>2, <2>3, AppendCode DEF IInv, CodesOf
    <3> HIDE DEF row
    <3> QED
      BY <3>1 DEF UserCodesUnique
  <2>4. CASE UNCHANGED codes
    BY <2>4 DEF UserCodesUnique
  <2> QED
    BY <2>1, <2>3, <2>4 DEF InsertCode, UserCodeFree
<1>2. CASE \E w \in Workers : WriteCode(w)
  <2>1. PICK w \in Workers : WriteCode(w)
    BY <1>2
  <2>2. /\ code[w].id \in DOMAIN codes /\ codes[code[w].id] \in CodeRow
        /\ code[w] \in HeldCode /\ code[w].ent \in CodeEntity
    BY <2>1, WrittenCode, PhaseOf, Kept, Ids DEF IInv, Phase, HoldsCode, WriteCode
  <2>3. DOMAIN codes' = DOMAIN codes /\ \A c \in DOMAIN codes : codes'[c].user = codes[c].user
    BY <2>1, <2>2, WrittenCode, UpdatedCode
  <2> QED
    BY <2>3 DEF UserCodesUnique
<1>3. CASE UNCHANGED codes
  BY <1>3 DEF UserCodesUnique
<1> QED
  BY <1>1, <1>2, <1>3, CodesKept

(* randomUserCode() looks a code up and inserts it later; with any number  *)
(* of requests between the two, the unique index lets no code in twice,    *)
(* and no save() touches the column afterwards.                            *)
THEOREM CodesStayUnique == Spec => []UserCodesUnique
<1>1. Init => UserCodesUnique
  BY DEF Init, UserCodesUnique
<1>2. IInv /\ UserCodesUnique /\ [Next]_vars => UserCodesUnique'
  BY UniqueStep DEF vars, UserCodesUnique
<1> QED
  BY <1>1, <1>2, Inductive, PTL DEF Spec

(* A request other than a poll that issues tokens does not come to the     *)
(* INSERT of a session.                                                    *)
LEMMA OnlyPollsIssue ==
  ASSUME IInv, NEW w \in Workers, Arrive(w) \/ Serve(w) \/ Fail(w),
         pc'[w] = "insertSession"
  PROVE  \E c \in DOMAIN codes : ~Overdue(c) /\ req'[w].code = c
<1>1. ASSUME NEW p, Goto(w, p) PROVE p = "insertSession"
  BY <1>1 DEF Goto, IInv, MemoryOK
<1>2. /\ ~Finish(w) /\ ~Serve(w) /\ ~Fail(w)
  BY <1>1
     DEF Finish, Serve, InsertCode, InsertSession, FindSession, ReloadCode, WriteCode,
         ReloadSession, WriteSession, Redeemed, SaveCode, SaveSession, Fail
<1>3. \E c \in DOMAIN codes : PollRetry(w, c) \/ PollConfirmed(w, c)
  BY <1>1, <1>2
     DEF Arrive, CreateDeviceCode, Confirm, ConfirmTooLate, Expire, PollOverdue, PollTooEarly,
         PollPending, SaveCode, SaveSession, Refresh, Revoke
<1>4. PICK c \in DOMAIN codes : PollRetry(w, c) \/ PollConfirmed(w, c)
  BY <1>3
<1>5. ~Overdue(c)
  BY <1>4 DEF PollRetry, PollConfirmed, Retriable, Open
<1>6. \E kind : req' = [req EXCEPT ![w] = [kind |-> kind, employee |-> Employee(c), code |-> c]]
  BY <1>4 DEF PollRetry, PollConfirmed, IssueTokens, Begin
<1>7. req'[w].code = c
  BY <1>6 DEF IInv, MemoryOK
<1> QED
  BY <1>5, <1>7

(* A step of worker w leaves the others where they are. *)
LEMMA Others ==
  ASSUME IInv, NEW w \in Workers, Arrive(w) \/ Serve(w) \/ Fail(w),
         NEW v \in Workers, v # w
  PROVE  pc'[v] = pc[v] /\ req'[v] = req[v]
<1>1. CASE Arrive(w)
  BY <1>1
     DEF Arrive, CreateDeviceCode, Confirm, ConfirmTooLate, PollOverdue, PollRetry, PollTooEarly,
         PollPending, PollConfirmed, Refresh, Revoke, Expire, IssueTokens, SaveCode, SaveSession,
         Goto, Begin, IInv, MemoryOK
<1>2. CASE Serve(w) \/ Fail(w)
  BY <1>2
     DEF Serve, InsertCode, InsertSession, FindSession, ReloadCode, WriteCode, ReloadSession,
         WriteSession, Redeemed, Fail, Finish, SaveCode, SaveSession, Goto, Begin, IInv, MemoryOK
<1> QED
  BY <1>1, <1>2

LEMMA IssuersStep ==
  ASSUME IInv, [Next]_vars, NEW c \in DOMAIN codes, Overdue(c)
  PROVE  Issuing(c)' \subseteq Issuing(c)
<1> SUFFICES ASSUME NEW v \in Workers, pc'[v] = "insertSession", req'[v].code = c
             PROVE  pc[v] = "insertSession" /\ req[v].code = c
  BY DEF Issuing
<1>1. CASE Environment \/ UNCHANGED vars
  BY <1>1 DEF Environment, Tick, SetStanding, vars
<1>2. CASE \E w \in Workers : Arrive(w) \/ Serve(w) \/ Fail(w)
  BY <1>2, OnlyPollsIssue, Others
<1> QED
  BY <1>1, <1>2 DEF Next

(* A row of a code keeps its end, and time only passes. *)
LEMMA OverdueStays ==
  ASSUME IInv, [Next]_vars, NEW c \in DOMAIN codes, Overdue(c)
  PROVE  c \in DOMAIN codes' /\ Overdue(c)'
<1>1. codes[c] \in CodeRow /\ codes[c].expires \in Nat /\ now \in Nat
  BY Ids DEF IInv, CodeRow, WorldOK
<1>2. now' \in Nat /\ now <= now'
  <2>1. ASSUME NEW w \in Workers, Arrive(w) \/ Serve(w) \/ Fail(w) PROVE UNCHANGED now
    BY <2>1 DEF Arrive, CreateDeviceCode, Confirm,
         ConfirmTooLate, PollOverdue, PollRetry, PollTooEarly, PollPending, PollConfirmed,
         Refresh, Revoke, Serve, InsertCode, InsertSession, FindSession, ReloadCode, WriteCode,
         ReloadSession, WriteSession, Fail, world
  <2>2. Tick \/ UNCHANGED now
    BY <2>1 DEF Next, Environment, SetStanding, vars
  <2> QED
    BY <1>1, <2>2 DEF Tick
<1>3. c \in DOMAIN codes' /\ codes'[c].expires = codes[c].expires
  <2>1. CASE \E w \in Workers : InsertCode(w)
    <3>1. PICK w \in Workers : InsertCode(w)
      BY <2>1
    <3>2. code[w].ent \in CodeRow
      BY <3>1, PhaseOf DEF IInv, Phase, InsertCode
    <3>3. codes' = codes \/ codes' = Append(codes, code[w].ent)
      BY <3>1 DEF InsertCode
    <3> QED
      BY <3>2, <3>3, AppendCode DEF IInv
  <2>2. CASE \E w \in Workers : WriteCode(w)
    <3>1. PICK w \in Workers : WriteCode(w)
      BY <2>2
    <3>2. /\ code[w].id \in DOMAIN codes /\ codes[code[w].id] \in CodeRow
          /\ code[w] \in HeldCode /\ code[w].ent \in CodeEntity
      BY <3>1, WrittenCode, PhaseOf, Kept, Ids DEF IInv, Phase, HoldsCode, WriteCode
    <3> QED
      BY <3>1, <3>2, WrittenCode, UpdatedCode
  <2>3. CASE UNCHANGED codes
    BY <2>3
  <2> QED
    BY <2>1, <2>2, <2>3, CodesKept DEF vars
<1> QED
  BY <1>1, <1>2, <1>3 DEF Overdue

(* The sessions of a code only grow by the INSERT of one who issues it. *)
LEMMA SessionsOfStep ==
  ASSUME IInv, [Next]_vars, NEW c, Issuing(c) = {}
  PROVE  SessionsOf(c)' = SessionsOf(c)
<1>1. CASE \E w \in Workers : InsertSession(w)
  <2>1. PICK w \in Workers : InsertSession(w)
    BY <1>1
  <2>2. req[w] \in IssueRequest /\ req[w].code # c
    BY <2>1, PhaseOf DEF IInv, Phase, InsertSession, Issuing
  <2> DEFINE row == NewSession(req[w])
  <2>3. row.code # c
    BY <2>2 DEF NewSession
  <2>4. sessions' = Append(sessions, row) /\ row \in SessionRow
    BY <2>1, <2>2, NewSessionOK DEF InsertSession, IInv, WorldOK
  <2> HIDE DEF row
  <2>5. /\ DOMAIN sessions' = DOMAIN sessions \cup {Len(sessions) + 1}
        /\ sessions'[Len(sessions) + 1] = row
        /\ \A s \in DOMAIN sessions : sessions'[s] = sessions[s]
    BY <2>4, AppendSession DEF IInv
  <2> QED
    BY <2>3, <2>5 DEF SessionsOf
<1>2. CASE \E w \in Workers : WriteSession(w)
  <2>1. PICK w \in Workers : WriteSession(w)
    BY <1>2
  <2>2. /\ DOMAIN sessions' = DOMAIN sessions
        /\ \A s \in DOMAIN sessions : sessions'[s].code = sessions[s].code
    <3>1. /\ sess[w].id \in DOMAIN sessions /\ sessions[sess[w].id] \in SessionRow
          /\ sess[w] \in HeldSession /\ sess[w].ent \in SessionRow
      BY <2>1, WrittenSession, PhaseOf, Kept, Ids DEF IInv, Phase, HoldsSession, WriteSession
    <3> QED
      BY <2>1, <3>1, WrittenSession, UpdatedSession
  <2> QED
    BY <2>2 DEF SessionsOf
<1>3. CASE UNCHANGED sessions
  BY <1>3 DEF SessionsOf
<1>4. ASSUME \A w \in Workers : ~InsertSession(w) /\ ~WriteSession(w) PROVE UNCHANGED sessions
  BY <1>4 DEF Next, Environment, Tick, SetStanding, Arrive, CreateDeviceCode, Confirm,
       ConfirmTooLate, PollOverdue, PollRetry, PollTooEarly, PollPending, PollConfirmed,
       Refresh, Revoke, Serve, InsertCode, FindSession, ReloadCode, WriteCode, ReloadSession,
       Fail, db, vars
<1> QED
  BY <1>1, <1>2, <1>3, <1>4

(* Once a code is overdue and the polls that found it in time are over, it *)
(* never gives another session: poll() neither redeems nor retries it,     *)
(* however requests overlap and fail.                                      *)
THEOREM OverdueCodesGiveNothing == Spec => OverdueCodesClose
<1> SUFFICES ASSUME NEW c \in 1 .. MaxCodes, NEW n \in 0 .. MaxSessions
             PROVE  Spec => [](Closed(c) /\ Cardinality(SessionsOf(c)) = n
                                 => [](Cardinality(SessionsOf(c)) = n))
  BY DEF OverdueCodesClose
<1>1. IInv /\ (Closed(c) /\ Cardinality(SessionsOf(c)) = n) /\ [Next]_vars =>
         (Closed(c) /\ Cardinality(SessionsOf(c)) = n)'
  <2> SUFFICES ASSUME IInv, Closed(c), Cardinality(SessionsOf(c)) = n, [Next]_vars
               PROVE  (Closed(c) /\ Cardinality(SessionsOf(c)) = n)'
    OBVIOUS
  <2>1. SessionsOf(c)' = SessionsOf(c)
    BY SessionsOfStep DEF Closed
  <2>2. Closed(c)'
    BY OverdueStays, IssuersStep DEF Closed
  <2> QED
    BY <2>1, <2>2
<1> QED
  BY <1>1, Inductive, PTL DEF Spec

-----------------------------------------------------------------------------
(* Requests that do not overlap: the inductive step of AloneInv, for the   *)
(* only worker w.                                                          *)

AloneWorker(w) == CodeAlone(w) /\ IssueAlone(w) /\ SessionAlone(w)

(* A token that is not the accepted one because its session is revoked or  *)
(* a newer one was delivered.                                              *)
Current(t) ==
    \/ ~sessions[t.session].active
    \/ \E u \in tokens : u.session = t.session /\ TokenAccepted(u) /\ u.iat >= t.iat

LEMMA AloneParts ==
  ASSUME NEW w, Workers = {w}, AloneInv
  PROVE  /\ AloneWorker(w) /\ TimesOK /\ OwnersOK /\ OneOwner
         /\ failures = 0 =>
               \A t \in tokens : Current(t) \/ (pc[w] # "idle" /\ sess[w].id = t.session)
BY DEF AloneInv, AloneWorker, NewestTokenAccepted, Current

LEMMA AloneWhole ==
  ASSUME NEW w, Workers = {w}, AloneWorker(w)', TimesOK', OwnersOK', OneOwner',
         failures' = 0 =>
            \A t \in tokens' : Current(t)' \/ (pc'[w] # "idle" /\ sess'[w].id = t.session)
  PROVE  AloneInv'
BY DEF AloneInv, AloneWorker, NewestTokenAccepted, Current

(* The worker at rest, and after Finish, promises nothing. *)
LEMMA RestAlone ==
  ASSUME IInv, NEW w \in Workers, Finish(w)
  PROVE  /\ AloneWorker(w)' /\ pc'[w] = "idle"
<1>1. pc'[w] = "idle" /\ req'[w] = NoRequest /\ sess'[w] = Nothing
  BY DEF Finish, Goto, Begin, IInv, MemoryOK
<1>2. NoRequest.kind = "none" /\ Nothing.id = 0
  BY DEF NoRequest, Nothing, Held
<1> QED
  BY <1>1, <1>2
     DEF AloneWorker, CodeAlone, IssueAlone, SessionAlone, HoldsCode, HoldsSession, Kind

(* A request that arrives writes nothing; the worker was idle before. *)
LEMMA ArrivalKeeps ==
  ASSUME IInv, NEW w, Workers = {w}, AloneInv, Idle(w),
         UNCHANGED <<db, world, tokens>>, AloneWorker(w)'
  PROVE  AloneInv'
<1>1. UNCHANGED <<codes, sessions, now, failures, tokens>> /\ pc[w] = "idle"
  BY DEF db, world, Idle
<1>2. \A t \in tokens : Current(t) => Current(t)'
  BY <1>1 DEF Current, TokenAccepted
<1>3. TimesOK' /\ OwnersOK' /\ OneOwner'
  BY <1>1, AloneParts DEF TimesOK, OwnersOK, OneOwner
<1> QED
  BY <1>1, <1>2, <1>3, AloneParts, AloneWhole

(* An idle worker holds no session. *)
LEMMA IdleAlone ==
  ASSUME IInv, NEW w \in Workers, AloneWorker(w), Idle(w)
  PROVE  sess[w].id = 0
BY PhaseOf, Kinds
   DEF IInv, Phase, AloneWorker, SessionAlone, HoldsSession, Idle

LEMMA EditAlone ==
  ASSUME IInv, NEW w, Workers = {w}, AloneInv, Idle(w),
         NEW c \in DOMAIN codes, NEW e \in CodeEntity, NEW r \in PlainRequest,
         Begin(w, r), SaveCode(w, c, e), UNCHANGED <<db, world, tokens, sess>>,
         Edit(r.kind, e, codes[c], c)
  PROVE  AloneInv'
<1>1. Held(c, e).id = c /\ Held(c, e).ent = e /\ sess[w].id = 0
  BY Ids, HeldOK, IdleAlone, AloneParts DEF IInv
<1>2. /\ pc'[w] = "reloadCode" /\ req'[w] = r /\ code'[w] = Held(c, e) /\ sess'[w] = sess[w]
      /\ r.kind # "redeem" /\ UNCHANGED <<codes, now>>
  BY Kinds DEF SaveCode, Begin, Goto, IInv, MemoryOK, db, world
<1>3. Edit(r.kind, e, codes[c], c)'
  BY <1>2 DEF Edit, Overdue
<1>4. AloneWorker(w)'
  BY <1>1, <1>2, <1>3
     DEF AloneWorker, CodeAlone, IssueAlone, SessionAlone, HoldsCode, HoldsSession, Kind
<1> QED
  BY <1>4, ArrivalKeeps

LEMMA CreateAlone ==
  ASSUME IInv, NEW w, Workers = {w}, AloneInv, NEW user \in UserCodes,
         CreateDeviceCode(w, user)
  PROVE  AloneInv'
<1>1. Idle(w) /\ UNCHANGED <<db, world, tokens>>
  BY DEF CreateDeviceCode
<1>2. /\ pc'[w] = "insertCode" /\ req'[w] = [kind |-> "create"] /\ sess'[w] = sess[w]
  BY DEF CreateDeviceCode, Begin, Goto, IInv, MemoryOK
<1>3. req'[w].kind # "redeem" /\ sess[w].id = 0
  BY <1>1, <1>2, IdleAlone, AloneParts
<1>4. AloneWorker(w)'
  BY <1>2, <1>3
     DEF AloneWorker, CodeAlone, IssueAlone, SessionAlone, HoldsCode, HoldsSession, Kind
<1> QED
  BY <1>1, <1>4, ArrivalKeeps

LEMMA ConfirmAlone ==
  ASSUME IInv, NEW w, Workers = {w}, AloneInv, NEW c \in DOMAIN codes, NEW e \in Employees,
         Confirm(w, c, e) \/ ConfirmTooLate(w, c, e)
  PROVE  AloneInv'
<1>1. codes[c] \in CodeRow
  BY Ids DEF IInv
<1>2. CASE Confirm(w, c, e)
  <2> DEFINE f == [codes[c] EXCEPT !.status = "confirmed", !.employee = e]
  <2>1. f \in CodeEntity
    BY <1>1, RowIsEntity, Bounds DEF CodeRow, CodeEntity, Status
  <2>2. [kind |-> "confirm"] \in PlainRequest
    BY DEF PlainRequest
  <2>3. codes[c].status = "pending"
    BY <1>2 DEF Confirm, Confirmable
  <2>4. Edit("confirm", f, codes[c], c)
    BY <1>1, <2>3 DEF Edit, CodeRow
  <2> QED
    BY <1>2, <2>1, <2>2, <2>4, EditAlone DEF Confirm
<1>3. CASE ConfirmTooLate(w, c, e)
  <2> DEFINE f == [Bare(codes[c]) EXCEPT !.status = "expired"]
  <2>1. f \in CodeEntity
    BY <1>1, LoadedCode DEF CodeEntity, Status
  <2>2. [kind |-> "expire"] \in PlainRequest
    BY DEF PlainRequest
  <2>3. codes[c].status = "confirmed" => Overdue(c)
    BY <1>3 DEF ConfirmTooLate, TooLate
  <2>4. Edit("expire", f, codes[c], c)
    BY <1>1, <2>3 DEF Edit, CodeRow, Bare
  <2> QED
    BY <1>3, <2>1, <2>2, <2>4, EditAlone DEF ConfirmTooLate, Expire
<1> QED
  BY <1>2, <1>3

(* What poll() leaves alone of the code it loaded *)
LEMMA LoadedEdit ==
  ASSUME NEW row \in CodeRow
  PROVE  /\ Joined(row).employee \in {row.employee, Null}
         /\ Joined(row).status = row.status /\ Joined(row).polled = row.polled
         /\ Joined(row).interval = row.interval /\ Joined(row).session = row.session
BY DEF Joined, CodeRow

LEMMA IssueAloneStep ==
  ASSUME IInv, NEW w, Workers = {w}, AloneInv, Idle(w), SessionRoom,
         NEW c \in DOMAIN codes, NEW e \in CodeEntity, NEW kind \in {"redeem", "retry"},
         Employee(c) # Null, codes[c].status # "pending",
         IssueTokens(w, c, kind, e), UNCHANGED <<db, world, tokens, sess>>,
         kind = "redeem" => Edit(kind, e, codes[c], c) /\ e.interval = codes[c].interval
  PROVE  AloneInv'
<1> DEFINE r == [kind |-> kind, employee |-> Employee(c), code |-> c]
<1>1. Held(c, e).id = c /\ Held(c, e).ent = e /\ sess[w].id = 0
  BY Ids, HeldOK, IdleAlone, AloneParts DEF IInv
<1>2. Employee(c) = codes[c].employee
  BY Ids, LoadedEdit DEF IInv, Employee
<1>3. Len(sessions) < MaxSessions
  <2> DEFINE inserting == {v \in Workers : pc[v] = "insertSession"}
  <2>1. inserting = {}
    BY DEF Idle
  <2>2. Len(sessions) + Cardinality(inserting) < MaxSessions
    BY DEF SessionRoom
  <2> HIDE DEF inserting
  <2>3. Cardinality(inserting) = 0
    BY <2>1, FS_EmptySet
  <2> QED
    BY <2>2, <2>3, Ids DEF IInv
<1>4. /\ pc'[w] = "insertSession" /\ req'[w] = r /\ code'[w] = Held(c, e) /\ sess'[w] = sess[w]
      /\ UNCHANGED <<codes, sessions, now>>
  BY DEF IssueTokens, Begin, Goto, IInv, MemoryOK, db, world
<1>5. kind = "redeem" => Edit(kind, e, codes[c], c)'
  BY <1>4 DEF Edit, Overdue
<1>6. AloneWorker(w)'
  BY <1>1, <1>2, <1>3, <1>4, <1>5
     DEF AloneWorker, CodeAlone, IssueAlone, SessionAlone, HoldsCode, HoldsSession, Kind
<1> QED
  BY <1>6, ArrivalKeeps

LEMMA PollAlone ==
  ASSUME IInv, NEW w, Workers = {w}, AloneInv, NEW c \in DOMAIN codes,
         \/ PollOverdue(w, c) \/ PollRetry(w, c) \/ PollTooEarly(w, c)
         \/ PollPending(w, c) \/ PollConfirmed(w, c)
  PROVE  AloneInv'
<1> DEFINE e == Joined(codes[c])
<1>1. codes[c] \in CodeRow /\ e \in CodeRow /\ e \in CodeEntity
  BY Ids, LoadedCode, RowIsEntity DEF IInv
<1>2. now \in Nat
  BY DEF IInv, WorldOK
<1>3. {[kind |-> "expire"], [kind |-> "slowDown"], [kind |-> "pending"]} \subseteq PlainRequest
  BY DEF PlainRequest
<1>4. /\ e.employee \in {codes[c].employee, Null} /\ e.status = codes[c].status
      /\ e.polled = codes[c].polled /\ e.interval = codes[c].interval
      /\ e.session = codes[c].session
  BY <1>1, LoadedEdit
<1> HIDE DEF e
<1>5. CASE PollOverdue(w, c)
  <2> DEFINE f == [e EXCEPT !.status = "expired"]
  <2>1. f \in CodeEntity /\ Edit("expire", f, codes[c], c)
    BY <1>1, <1>4, <1>5 DEF CodeEntity, Status, Edit, PollOverdue
  <2> QED
    BY <1>3, <1>5, <2>1, EditAlone DEF PollOverdue, Expire, e
<1>6. CASE PollRetry(w, c)
  <2>1. Employee(c) # Null /\ codes[c].status # "pending"
    BY <1>6 DEF PollRetry, Retriable
  <2> QED
    BY <1>1, <1>6, <2>1, IssueAloneStep DEF PollRetry, e
<1>7. CASE PollTooEarly(w, c)
  <2> DEFINE f == [e EXCEPT !.interval = @ * 2]
  <2>1. f \in CodeEntity /\ Edit("slowDown", f, codes[c], c)
    BY <1>1, <1>4, <1>7 DEF CodeEntity, Edit, PollTooEarly
  <2> QED
    BY <1>3, <1>7, <2>1, EditAlone DEF PollTooEarly, e
<1>8. ASSUME ~TooEarly(c), NEW kind, codes[c].status = "confirmed" => e.employee # Null
      PROVE  LET f == [e EXCEPT !.polled = now]
             IN  /\ f \in CodeEntity /\ Edit(kind, f, codes[c], c)
                 /\ f.interval = codes[c].interval
  <2>1. codes[c].polled # Null => now >= codes[c].polled + codes[c].interval
    BY <1>1, <1>2, <1>8 DEF TooEarly, CodeRow
  <2> DEFINE f == [e EXCEPT !.polled = now]
  <2>2. /\ f \in CodeEntity /\ f.polled = now /\ f.employee = e.employee
        /\ f.status = e.status /\ f.interval = e.interval
    BY <1>1, <1>2 DEF CodeEntity
  <2> HIDE DEF f
  <2>3. Edit(kind, f, codes[c], c)
    BY <1>4, <1>8, <2>1, <2>2 DEF Edit
  <2> QED
    BY <1>4, <2>2, <2>3 DEF f
<1>9. CASE PollPending(w, c)
  <2> DEFINE f == [e EXCEPT !.polled = now]
  <2>1. ~TooEarly(c) /\ codes[c].status # "confirmed"
    BY <1>9 DEF PollPending
  <2>2. f \in CodeEntity /\ Edit("pending", f, codes[c], c)
    BY <1>8, <2>1
  <2> QED
    BY <1>3, <1>9, <2>2, EditAlone DEF PollPending, e
<1>10. CASE PollConfirmed(w, c)
  BY <1>8, <1>10, IssueAloneStep DEF PollConfirmed, Employee, e
<1> QED
  BY <1>5, <1>6, <1>7, <1>9, <1>10
LEMMA RefreshAlone ==
  ASSUME IInv, NEW w, Workers = {w}, AloneInv, NEW t \in tokens, Refresh(w, t)
  PROVE  AloneInv'
<1>1. Idle(w) /\ UNCHANGED <<db, world, tokens>>
  BY DEF Refresh
<1>2. /\ pc'[w] = "findSession" /\ req'[w] = [kind |-> "refresh", token |-> t]
      /\ sess'[w] = sess[w]
  BY DEF Refresh, Begin, Goto, IInv, MemoryOK
<1>3. req'[w].kind = "refresh" /\ sess[w].id = 0
  BY <1>1, <1>2, IdleAlone, AloneParts
<1>4. AloneWorker(w)'
  BY <1>2, <1>3
     DEF AloneWorker, CodeAlone, IssueAlone, SessionAlone, HoldsCode, HoldsSession, Kind
<1> QED
  BY <1>1, <1>4, ArrivalKeeps

LEMMA RevokeAlone ==
  ASSUME IInv, NEW w, Workers = {w}, AloneInv, NEW s \in DOMAIN sessions, Revoke(w, s)
  PROVE  AloneInv'
<1> DEFINE e == [sessions[s] EXCEPT !.active = FALSE]
<1>1. Idle(w) /\ UNCHANGED <<db, world, tokens>> /\ UNCHANGED sessions
  BY DEF Revoke, db
<1>2. e \in SessionRow /\ ~e.active /\ e.hash = sessions[s].hash
  BY Ids DEF IInv, SessionRow
<1>3. /\ pc'[w] = "reloadSession" /\ req'[w] = [kind |-> "revoke"] /\ sess'[w] = Held(s, e)
  BY DEF Revoke, SaveSession, Begin, Goto, IInv, MemoryOK
<1> HIDE DEF e
<1>4. req'[w].kind = "revoke" /\ sess'[w].id = s /\ sess'[w].ent = e
  BY <1>2, <1>3, Ids, HeldOK DEF IInv
<1>5. AloneWorker(w)'
  BY <1>1, <1>2, <1>3, <1>4
     DEF AloneWorker, CodeAlone, IssueAlone, SessionAlone, HoldsCode, HoldsSession, Kind
<1> QED
  BY <1>1, <1>5, ArrivalKeeps

(* While the worker holds no session, every token is current. *)
LEMMA FreeAlone ==
  ASSUME IInv, NEW w, Workers = {w}, AloneInv, ~HoldsSession(pc[w], req[w]), failures = 0,
         NEW t \in tokens
  PROVE  Current(t)
<1>1. sess[w].id = 0 /\ t.session # 0
  BY AloneParts, Ids DEF IInv, TokensOK, AloneWorker, SessionAlone
<1> QED
  BY <1>1, AloneParts

LEMMA InsertCodeAlone ==
  ASSUME IInv, NEW w, Workers = {w}, AloneInv, InsertCode(w)
  PROVE  AloneInv'
<1>1. /\ pc[w] = "insertCode" /\ Finish(w) /\ UNCHANGED <<sessions, now, failures, tokens>>
      /\ codes' = codes \/ codes' = Append(codes, code[w].ent)
  BY DEF InsertCode, world
<1>2. code[w].ent \in CodeRow
  BY <1>1, PhaseOf DEF IInv, Phase
<1>3. DOMAIN codes \subseteq DOMAIN codes' /\ \A c \in DOMAIN codes : codes'[c] = codes[c]
  BY <1>1, <1>2, AppendCode DEF IInv
<1>4. AloneWorker(w)'
  BY <1>1, RestAlone
<1>5. TimesOK' /\ OwnersOK' /\ OneOwner'
  BY <1>1, <1>3, AloneParts DEF TimesOK, OwnersOK, OneOwner
<1>6. failures = 0 => \A t \in tokens : Current(t)'
  BY <1>1, FreeAlone DEF HoldsSession, Current, TokenAccepted
<1> QED
  BY <1>1, <1>4, <1>5, <1>6, AloneWhole

(* The session a poll inserts belongs to the employee its code names; no   *)
(* device has a token of it yet.                                           *)
LEMMA InsertSessionAlone ==
  ASSUME IInv, NEW w, Workers = {w}, AloneInv, InsertSession(w)
  PROVE  AloneInv'
<1> DEFINE row == NewSession(req[w])
           id == Len(sessions) + 1
           e == [row EXCEPT !.hash = now]
<1>1. /\ pc[w] = "insertSession" /\ sessions' = Append(sessions, row)
      /\ SaveSession(w, id, e) /\ UNCHANGED <<codes, now, failures, tokens, req, code>>
  BY DEF InsertSession, world
<1>2. req[w] \in IssueRequest /\ Kind(w) \in {"redeem", "retry"} /\ now \in Nat
  BY <1>1, PhaseOf, Kinds DEF IInv, Phase, WorldOK, Kind
<1>3. /\ req[w].code \in DOMAIN codes /\ codes[req[w].code].status # "pending"
      /\ codes[req[w].code].employee = req[w].employee /\ req[w].employee # Null
      /\ Len(sessions) < MaxSessions
  BY <1>1, <1>2, AloneParts, Bounds DEF AloneWorker, IssueAlone, IssueRequest
<1>4. /\ row \in SessionRow /\ row.employee = req[w].employee /\ row.code = req[w].code
      /\ row.hash = Null /\ row.active /\ e \in SessionRow /\ e.hash = now /\ e.active
  BY <1>2, NewSessionOK DEF NewSession, SessionRow
<1>5. /\ id \in DOMAIN sessions' /\ sessions'[id] = row /\ id \in Nat /\ id \notin DOMAIN sessions
      /\ \A s \in DOMAIN sessions : sessions'[s] = sessions[s]
      /\ DOMAIN sessions' = DOMAIN sessions \cup {id} /\ Len(sessions') <= MaxSessions
  BY <1>1, <1>3, <1>4, AppendSession, Ids, Bounds DEF IInv
<1> HIDE DEF row, id, e
<1>6. Held(id, e).id = id /\ Held(id, e).ent = e
  BY <1>4, <1>5, HeldOK
<1>7. pc'[w] = "reloadSession" /\ sess'[w] = Held(id, e) /\ req'[w] = req[w] /\ code'[w] = code[w]
  BY <1>1 DEF SaveSession, Goto, IInv, MemoryOK
<1>8. \A t \in tokens : t.session \in DOMAIN sessions
  BY DEF IInv, TokensOK
<1>9. Rotating(w, sessions[sess[w].id])'
  BY <1>1, <1>2, <1>4, <1>5, <1>6, <1>7, <1>8 DEF Rotating
<1>10. CodeAlone(w)'
  <2>1. Edit(Kind(w), code[w].ent, codes[code[w].id], code[w].id) =>
           Edit(Kind(w), code[w].ent, codes[code[w].id], code[w].id)'
    BY <1>1 DEF Edit, Overdue, Kind
  <2> QED
    BY <1>1, <1>7, <2>1, AloneParts DEF AloneWorker, CodeAlone, HoldsCode, Kind
<1>11. AloneWorker(w)'
  BY <1>2, <1>7, <1>9, <1>10
     DEF AloneWorker, IssueAlone, SessionAlone, HoldsSession, Kind
<1>12. TimesOK'
  BY <1>1, <1>4, <1>5, AloneParts DEF TimesOK
<1>13. OwnersOK' /\ OneOwner'
  BY <1>1, <1>3, <1>4, <1>5, AloneParts DEF OwnersOK, OneOwner
<1>14. failures = 0 => \A t \in tokens : Current(t)'
  BY <1>1, <1>5, <1>8, FreeAlone DEF HoldsSession, Current, TokenAccepted
<1> QED
  BY <1>1, <1>11, <1>12, <1>13, <1>14, AloneWhole

LEMMA FindSessionAlone ==
  ASSUME IInv, NEW w, Workers = {w}, AloneInv, FindSession(w)
  PROVE  AloneInv'
<1> DEFINE t == req[w].token
           e == [sessions[t.session] EXCEPT !.hash = now]
<1>1. /\ pc[w] = "findSession" /\ UNCHANGED <<codes, sessions, now, failures, tokens>>
      /\ now \in Nat
  BY DEF FindSession, db, world, IInv, WorldOK
<1>2. t.session \in DOMAIN sessions /\ Kind(w) = "refresh"
  BY <1>1, PhaseOf, Kinds DEF IInv, Phase, Kind
<1>3. sessions[t.session] \in SessionRow
  BY <1>2, Ids DEF IInv
<1>4. AloneWorker(w)'
  <2>1. CASE TokenAccepted(t)
    <3>1. /\ e \in SessionRow /\ e.hash = now /\ e.active /\ sessions[t.session].active
      BY <1>1, <1>3, <2>1 DEF SessionRow, TokenAccepted
    <3>2. SaveSession(w, t.session, e) /\ UNCHANGED req
      BY <2>1 DEF FindSession
    <3> HIDE DEF e
    <3>3. Held(t.session, e).id = t.session /\ Held(t.session, e).ent = e
      BY <1>2, <3>1, HeldOK, Ids DEF IInv
    <3>4. pc'[w] = "reloadSession" /\ sess'[w] = Held(t.session, e) /\ req'[w] = req[w]
      BY <3>2 DEF SaveSession, Goto, IInv, MemoryOK
    <3>5. /\ sess'[w].id = t.session /\ sess'[w].ent = e /\ UNCHANGED <<sessions, tokens, now>>
          /\ sessions[t.session].hash # Null => sessions[t.session].hash <= now
          /\ \A u \in tokens : u.iat <= now
      BY <1>1, <1>2, <3>3, <3>4, AloneParts DEF TimesOK
    <3>6. Rotating(w, sessions[sess[w].id])'
      BY <1>1, <3>1, <3>5 DEF Rotating
    <3> QED
      BY <1>2, <3>4, <3>6
         DEF AloneWorker, CodeAlone, HoldsCode, IssueAlone, SessionAlone, HoldsSession, Kind
  <2>2. CASE ~TokenAccepted(t)
    BY <2>2, RestAlone DEF FindSession
  <2> QED
    BY <2>1, <2>2
<1>5. TimesOK' /\ OwnersOK' /\ OneOwner'
  BY <1>1, AloneParts DEF TimesOK, OwnersOK, OneOwner
<1>6. failures = 0 => \A u \in tokens : Current(u)'
  BY <1>1, FreeAlone DEF HoldsSession, Current, TokenAccepted
<1> QED
  BY <1>1, <1>4, <1>5, <1>6, AloneWhole
(* save()'s second read finds the row as the first read did. *)
LEMMA ReloadCodeAlone ==
  ASSUME IInv, NEW w, Workers = {w}, AloneInv, ReloadCode(w)
  PROVE  AloneInv'
<1> DEFINE d == Dirty(code[w].ent, codes[code[w].id], CodeColumns)
           c == [code[w] EXCEPT !.dirty = d]
<1>1. /\ pc[w] = "reloadCode" /\ UNCHANGED <<codes, sessions, now, failures, tokens, req, sess>>
      /\ pc' = [pc EXCEPT ![w] = "writeCode"]
  BY DEF ReloadCode, Goto, db, world
<1>2. c.id = code[w].id /\ c.ent = code[w].ent /\ c.dirty = d
  BY Kept DEF IInv, HeldCode
<1>3. code' = [code EXCEPT ![w] = c]
  BY DEF ReloadCode, IInv, MemoryOK
<1> HIDE DEF c, d
<1>4. pc'[w] = "writeCode" /\ code'[w] = c /\ req'[w] = req[w] /\ sess'[w] = sess[w]
  BY <1>1, <1>3 DEF IInv, MemoryOK
<1>5. Edit(Kind(w), code[w].ent, codes[code[w].id], code[w].id) =>
         Edit(Kind(w), code[w].ent, codes[code[w].id], code[w].id)'
  BY <1>1, <1>2, <1>4 DEF Edit, Overdue, Kind
<1>6. CodeAlone(w)'
  BY <1>1, <1>2, <1>4, <1>5, AloneParts DEF AloneWorker, CodeAlone, HoldsCode, Kind, d
<1>7. Rotating(w, sessions[sess[w].id]) => Rotating(w, sessions[sess[w].id])'
  BY <1>1, <1>4 DEF Rotating
<1>8. AloneWorker(w)'
  BY <1>1, <1>4, <1>6, <1>7, AloneParts
     DEF AloneWorker, IssueAlone, SessionAlone, HoldsSession, Kind
<1>9. TimesOK' /\ OwnersOK' /\ OneOwner'
  BY <1>1, AloneParts DEF TimesOK, OwnersOK, OneOwner
<1>10. \A t \in tokens : Current(t) => Current(t)'
  BY <1>1 DEF Current, TokenAccepted
<1> QED
  BY <1>1, <1>4, <1>8, <1>9, <1>10, AloneParts, AloneWhole

LEMMA ReloadSessionAlone ==
  ASSUME IInv, NEW w, Workers = {w}, AloneInv, ReloadSession(w)
  PROVE  AloneInv'
<1> DEFINE d == Dirty(sess[w].ent, sessions[sess[w].id], SessionColumns)
           s == [sess[w] EXCEPT !.dirty = d]
<1>1. /\ pc[w] = "reloadSession"
      /\ UNCHANGED <<codes, sessions, now, failures, tokens, req, code>>
      /\ pc' = [pc EXCEPT ![w] = "writeSession"]
  BY DEF ReloadSession, Goto, db, world
<1>2. s.id = sess[w].id /\ s.ent = sess[w].ent /\ s.dirty = d
  BY Kept DEF IInv, HeldSession
<1>3. sess' = [sess EXCEPT ![w] = s]
  BY DEF ReloadSession, IInv, MemoryOK
<1> HIDE DEF s, d
<1>4. pc'[w] = "writeSession" /\ sess'[w] = s /\ req'[w] = req[w] /\ code'[w] = code[w]
  BY <1>1, <1>3 DEF IInv, MemoryOK
<1>5. Edit(Kind(w), code[w].ent, codes[code[w].id], code[w].id) =>
         Edit(Kind(w), code[w].ent, codes[code[w].id], code[w].id)'
  BY <1>1, <1>4 DEF Edit, Overdue, Kind
<1>6. CodeAlone(w)'
  BY <1>1, <1>4, <1>5, AloneParts DEF AloneWorker, CodeAlone, HoldsCode, Kind
<1>7. Rotating(w, sessions[sess[w].id]) => Rotating(w, sessions[sess[w].id])'
  BY <1>1, <1>2, <1>4 DEF Rotating
<1>8. AloneWorker(w)'
  BY <1>1, <1>2, <1>4, <1>6, <1>7, AloneParts
     DEF AloneWorker, IssueAlone, SessionAlone, HoldsSession, Kind, d
<1>9. TimesOK' /\ OwnersOK' /\ OneOwner'
  BY <1>1, AloneParts DEF TimesOK, OwnersOK, OneOwner
<1>10. \A t \in tokens : Current(t) => Current(t)'
  BY <1>1 DEF Current, TokenAccepted
<1> QED
  BY <1>1, <1>2, <1>4, <1>8, <1>9, <1>10, AloneParts, AloneWhole

(* The UPDATE of a code stores the entity, but for an employee that was    *)
(* not loaded.                                                             *)
LEMMA WrittenCodeAlone ==
  ASSUME IInv, NEW w, Workers = {w}, AloneInv, WriteCode(w)
  PROVE  LET id == code[w].id
             e == code[w].ent
         IN  /\ Edit(Kind(w), e, codes[id], id)
             /\ Kind(w) = "redeem" => Storable(Updated(codes[id], code[w]))
             /\ \/ codes'[id] = codes[id]
                \/ /\ codes'[id].status = e.status
                   /\ codes'[id].polled = e.polled /\ codes'[id].session = e.session
                   /\ codes'[id].employee =
                         IF e.employee = Undef THEN codes[id].employee ELSE e.employee
<1> DEFINE id == code[w].id
           e == code[w].ent
           row == Updated(codes[id], code[w])
<1>1. pc[w] = "writeCode"
  BY DEF WriteCode
<1>2. /\ id \in DOMAIN codes /\ codes[id] \in CodeRow
      /\ code[w] \in HeldCode /\ e \in CodeEntity
  BY <1>1, WrittenCode, PhaseOf, Kept, Ids DEF IInv, Phase, HoldsCode
<1>3. /\ Edit(Kind(w), e, codes[id], id) /\ code[w].dirty = Dirty(e, codes[id], CodeColumns)
      /\ Kind(w) = "redeem" => e.interval = codes[id].interval
  BY <1>1, AloneParts DEF AloneWorker, CodeAlone, HoldsCode
<1>4. \A col \in DOMAIN codes[id] :
         row[col] = IF col \in code[w].dirty THEN e[col] ELSE codes[id][col]
  BY <1>2, UpdatedCode
<1>5. \A col \in CodeColumns :
         row[col] = IF e[col] # Undef THEN e[col] ELSE codes[id][col]
  <2>1. CodeColumns \subseteq DOMAIN codes[id]
    BY <1>2 DEF CodeRow, CodeColumns
  <2> HIDE DEF row
  <2> QED
    BY <1>3, <1>4, <2>1 DEF Dirty
<1>6. /\ row.status = e.status
      /\ row.polled = e.polled /\ row.session = e.session /\ row.interval = e.interval
      /\ row.employee = IF e.employee = Undef THEN codes[id].employee ELSE e.employee
  <2>1. e.polled # Undef /\ e.session # Undef /\ e.interval # Undef /\ e.status # Undef
    BY <1>2, Bounds DEF CodeEntity
  <2> HIDE DEF row
  <2> QED
    BY <1>5, <2>1 DEF CodeColumns
<1>7. codes[id].interval <= MaxInterval
  BY <1>2, Bounds DEF CodeRow
<1>8. codes'[id] \in {row, codes[id]}
  BY WrittenCode
<1> HIDE DEF row
<1>9. Kind(w) = "redeem" => Storable(row)
  BY <1>3, <1>6, <1>7 DEF Storable
<1> QED
  BY <1>3, <1>6, <1>8, <1>9 DEF row

(* The newest token of a session, delivered once its hash is stored, is    *)
(* the accepted one.                                                       *)
LEMMA DeliveredAlone ==
  ASSUME IInv, NEW w, Workers = {w}, AloneInv, HoldsSession(pc[w], req[w]),
         Deliver(w), Rotating(w, sessions[sess[w].id]), UNCHANGED now,
         DOMAIN sessions' = DOMAIN sessions,
         \A s \in DOMAIN sessions \ {sess[w].id} : sessions'[s] = sessions[s],
         sessions'[sess[w].id].active, sessions'[sess[w].id].hash = sess[w].ent.hash
  PROVE  /\ \A t \in tokens' : t.iat <= now
         /\ failures = 0 => \A t \in tokens' : Current(t)'
<1>1. PICK u : /\ tokens' = tokens \cup {u}
               /\ u.session = sess[w].id /\ u.iat = sess[w].ent.hash
  <2> DEFINE r == [session |-> sess[w].id, iat |-> sess[w].ent.hash]
  <2>1. tokens' = tokens \cup {r}
    BY DEF Deliver
  <2>2. r.session = sess[w].id /\ r.iat = sess[w].ent.hash
    OBVIOUS
  <2> HIDE DEF r
  <2> QED
    BY <2>1, <2>2
<1>2. u.iat <= now
  BY <1>1 DEF Rotating
<1>3. \A t \in tokens : t.iat <= now /\ t \in Token /\ t.session \in DOMAIN sessions
  BY AloneParts DEF TimesOK, IInv, TokensOK
<1>4. u.iat \in Nat
  <2>1. req[w].kind # "revoke" => u.iat \in Nat
    BY <1>1, PhaseOf DEF IInv, Phase
  <2>2. Kind(w) # "revoke"
    BY AloneParts DEF AloneWorker, SessionAlone, Rotating, HoldsSession, Kind
  <2> QED
    BY <2>1, <2>2 DEF Kind
<1>5. failures = 0 => \A t \in tokens : t.session # sess[w].id => Current(t)
  BY AloneParts
<1>6. ASSUME failures = 0, NEW t \in tokens'
      PROVE  Current(t)'
  <2>1. CASE t.session = sess[w].id
    <3>1. t.iat <= u.iat
      BY <1>1, <1>2, <1>4, <2>1 DEF Rotating
    <3>2. TokenAccepted(u)'
      BY <1>1 DEF TokenAccepted
    <3> QED
      BY <1>1, <1>2, <2>1, <3>1, <3>2 DEF Current
  <2>2. CASE t.session # sess[w].id
    <3>1. t \in tokens /\ Current(t)
      BY <1>1, <1>2, <1>5, <1>6, <2>2
    <3> QED
      BY <1>1, <1>3, <2>2, <3>1 DEF Current, TokenAccepted
  <2> QED
    BY <2>1, <2>2
<1> QED
  BY <1>1, <1>2, <1>3, <1>6

LEMMA WriteCodeAlone ==
  ASSUME IInv, NEW w, Workers = {w}, AloneInv, WriteCode(w)
  PROVE  AloneInv'
<1> DEFINE id == code[w].id
           e == code[w].ent
<1>1. pc[w] = "writeCode" /\ Finish(w) /\ UNCHANGED <<sessions, now, failures>>
  BY DEF WriteCode, world
<1>2. /\ id \in DOMAIN codes /\ DOMAIN codes' = DOMAIN codes
      /\ \A c \in DOMAIN codes \ {id} : codes'[c] = codes[c]
  BY WrittenCode
<1>3. /\ codes[id].status # "pending" => codes'[id].status # "pending"
      /\ codes[id].status # "pending" => codes'[id].employee \in {codes[id].employee, Null}
  BY WrittenCodeAlone DEF Edit
<1> HIDE DEF id, e
<1>4. OwnersOK' /\ OneOwner'
  <2>1. OwnersOK /\ OneOwner
    BY AloneParts
  <2>2. ASSUME NEW s \in DOMAIN sessions
        PROVE  /\ sessions[s].code \in DOMAIN codes'
               /\ codes'[sessions[s].code].status # "pending"
               /\ codes'[sessions[s].code].employee \in {sessions[s].employee, Null}
    <3>1. /\ sessions[s].code \in DOMAIN codes /\ codes[sessions[s].code].status # "pending"
          /\ codes[sessions[s].code].employee \in {sessions[s].employee, Null}
      BY <2>1 DEF OwnersOK, OneOwner
    <3> QED
      BY <1>2, <1>3, <3>1
  <2> QED
    BY <1>1, <2>1, <2>2 DEF OwnersOK, OneOwner
<1>5. AloneWorker(w)'
  BY <1>1, RestAlone
<1>6. /\ \A t \in tokens' : t.iat <= now
      /\ failures = 0 => \A t \in tokens' : Current(t)'
  <2>1. CASE Kind(w) = "redeem"
    <3>1. Deliver(w)
      BY <2>1, WrittenCodeAlone DEF WriteCode
    <3>2. /\ HoldsSession(pc[w], req[w]) /\ Rotating(w, sessions[sess[w].id])
          /\ sessions[sess[w].id].hash = sess[w].ent.hash
      BY <1>1, <2>1, AloneParts DEF AloneWorker, SessionAlone, HoldsSession, Kind
    <3> QED
      BY <1>1, <3>1, <3>2, DeliveredAlone DEF Rotating
  <2>2. CASE Kind(w) # "redeem"
    <3>1. UNCHANGED tokens /\ ~HoldsSession(pc[w], req[w])
      BY <1>1, <2>2 DEF WriteCode, HoldsSession, Kind
    <3>2. \A t \in tokens : t.iat <= now
      BY AloneParts DEF TimesOK
    <3> QED
      BY <1>1, <3>1, <3>2, FreeAlone DEF Current, TokenAccepted
  <2> QED
    BY <2>1, <2>2
<1>7. TimesOK'
  BY <1>1, <1>6, AloneParts DEF TimesOK
<1> QED
  BY <1>1, <1>4, <1>5, <1>6, <1>7, AloneWhole

(* The UPDATE of a session stores the entity. *)
LEMMA WrittenSessionAlone ==
  ASSUME IInv, NEW w, Workers = {w}, AloneInv, WriteSession(w)
  PROVE  LET id == sess[w].id
             e == sess[w].ent
         IN  /\ sessions'[id].hash = e.hash /\ sessions'[id].active = e.active
             /\ sessions'[id].code = sessions[id].code
             /\ sessions'[id].employee = sessions[id].employee
             /\ Kind(w) \in {"redeem", "retry", "refresh", "revoke"}
             /\ IF Kind(w) = "revoke"
                THEN ~e.active /\ e.hash = sessions[id].hash
                ELSE Rotating(w, sessions[id]) /\ e.hash \in Nat
<1> DEFINE id == sess[w].id
           e == sess[w].ent
           row == Updated(sessions[id], sess[w])
<1>1. pc[w] = "writeSession"
  BY DEF WriteSession
<1>2. /\ id \in DOMAIN sessions /\ sessions[id] \in SessionRow
      /\ sess[w] \in HeldSession /\ e \in SessionRow
      /\ Kind(w) # "revoke" => e.hash \in Nat
  BY <1>1, PhaseOf, Kept, Ids DEF IInv, Phase, HoldsSession, Kind
<1>3. /\ sess[w].dirty = Dirty(e, sessions[id], SessionColumns)
      /\ Kind(w) \in {"redeem", "retry", "refresh", "revoke"}
      /\ IF Kind(w) = "revoke"
         THEN ~e.active /\ e.hash = sessions[id].hash
         ELSE Rotating(w, sessions[id])
  BY <1>1, AloneParts DEF AloneWorker, SessionAlone
<1>4. row = sessions'[id]
  BY WrittenSession
<1>5. /\ row.code = sessions[id].code /\ row.employee = sessions[id].employee
      /\ row.hash = IF "hash" \in sess[w].dirty THEN e.hash ELSE sessions[id].hash
      /\ row.active = IF "active" \in sess[w].dirty THEN e.active ELSE sessions[id].active
  BY <1>2, UpdatedSession
<1> HIDE DEF row
<1>6. e.hash # Undef /\ e.active # Undef
  BY <1>2, PairingAssumption, Bounds DEF SessionRow
<1>7. row.hash = e.hash
  BY <1>3, <1>5, <1>6 DEF Dirty, SessionColumns
<1>8. row.active = e.active
  BY <1>3, <1>5, <1>6 DEF Dirty, SessionColumns
<1> QED
  BY <1>2, <1>3, <1>4, <1>5, <1>7, <1>8

LEMMA WriteSessionAlone ==
  ASSUME IInv, NEW w, Workers = {w}, AloneInv, WriteSession(w)
  PROVE  AloneInv'
<1> DEFINE id == sess[w].id
           e == sess[w].ent
<1>1. pc[w] = "writeSession" /\ UNCHANGED <<codes, now, failures>>
  BY DEF WriteSession, world
<1>2. /\ id \in DOMAIN sessions /\ DOMAIN sessions' = DOMAIN sessions
      /\ Len(sessions') = Len(sessions)
      /\ \A s \in DOMAIN sessions \ {id} : sessions'[s] = sessions[s]
  BY WrittenSession
<1>3. /\ sessions'[id].hash = e.hash /\ sessions'[id].active = e.active
      /\ sessions'[id].code = sessions[id].code
      /\ sessions'[id].employee = sessions[id].employee
      /\ Kind(w) \in {"redeem", "retry", "refresh", "revoke"}
      /\ IF Kind(w) = "revoke"
         THEN ~e.active /\ e.hash = sessions[id].hash
         ELSE Rotating(w, sessions[id]) /\ e.hash \in Nat
  BY WrittenSessionAlone
<1>4. OwnersOK' /\ OneOwner'
  <2>1. \A s \in DOMAIN sessions : /\ sessions'[s].code = sessions[s].code
                                   /\ sessions'[s].employee = sessions[s].employee
    BY <1>2, <1>3
  <2> QED
    BY <1>1, <1>2, <2>1, AloneParts DEF OwnersOK, OneOwner
<1>5. \A s \in DOMAIN sessions' : sessions'[s].hash # Null => sessions'[s].hash <= now
  <2>1. \A s \in DOMAIN sessions : sessions[s].hash # Null => sessions[s].hash <= now
    BY AloneParts DEF TimesOK
  <2>2. e.hash # Null => e.hash <= now
    BY <1>2, <1>3, <2>1 DEF Rotating
  <2> QED
    BY <1>2, <1>3, <2>1, <2>2
<1>6. \A t \in tokens : t.iat <= now
  BY AloneParts DEF TimesOK
<1>7. ASSUME failures = 0, NEW t \in tokens, t.session # id
      PROVE  Current(t) /\ (tokens \subseteq tokens' => Current(t)')
  <2>1. Current(t) /\ t.session \in DOMAIN sessions
    BY <1>7, AloneParts DEF IInv, TokensOK
  <2> QED
    BY <1>2, <1>7, <2>1 DEF Current, TokenAccepted
<1>8. CASE Kind(w) = "redeem"
  <2> DEFINE f == [code[w].ent EXCEPT !.status = "expired", !.session = id]
  <2>1. /\ pc' = [pc EXCEPT ![w] = "reloadCode"] /\ UNCHANGED <<tokens, req, sess>>
        /\ code' = [code EXCEPT ![w] = Held(code[w].id, f)]
    BY <1>8 DEF WriteSession, Redeemed, SaveCode, Goto
  <2>2. pc'[w] = "reloadCode" /\ code'[w] = Held(code[w].id, f)
    BY <2>1 DEF IInv, MemoryOK
  <2>3. /\ code[w].id \in DOMAIN codes /\ code[w].ent \in CodeEntity /\ id \in Nat
        /\ Edit(Kind(w), code[w].ent, codes[code[w].id], code[w].id)
        /\ code[w].ent.interval = codes[code[w].id].interval
    BY <1>1, <1>2, <1>8, PhaseOf, AloneParts, Ids
       DEF IInv, Phase, HoldsCode, AloneWorker, CodeAlone, Kind
  <2>4. /\ f \in CodeEntity /\ f.status = "expired" /\ f.session \in Nat
        /\ f.employee = code[w].ent.employee /\ f.polled = code[w].ent.polled
        /\ f.interval = code[w].ent.interval
    BY <2>3 DEF CodeEntity, Status
  <2> HIDE DEF f
  <2>5. Held(code[w].id, f).id = code[w].id /\ Held(code[w].id, f).ent = f
    BY <2>3, <2>4, HeldOK, Ids DEF IInv
  <2>6. Edit(Kind(w), code[w].ent, codes[code[w].id], code[w].id)'
    <3>1. Edit("redeem", code[w].ent, codes[code[w].id], code[w].id)
      BY <1>8, <2>3
    <3>2. Edit("redeem", f, codes[code[w].id], code[w].id)
      BY <2>4, <3>1 DEF Edit
    <3>3. code'[w].id = code[w].id /\ code'[w].ent = f /\ Kind(w)' = "redeem"
      BY <1>8, <2>1, <2>2, <2>5 DEF Kind
    <3>4. codes' = codes /\ now' = now
      BY <1>1
    <3> QED
      BY <3>2, <3>3, <3>4 DEF Edit, Overdue
  <2>7. CodeAlone(w)'
    BY <1>1, <2>2, <2>3, <2>4, <2>5, <2>6 DEF CodeAlone
  <2>8. Rotating(w, sessions[sess[w].id])'
    BY <1>1, <1>3, <1>8, <2>1 DEF Rotating
  <2>9. AloneWorker(w)'
    BY <1>3, <1>8, <2>1, <2>2, <2>7, <2>8
       DEF AloneWorker, IssueAlone, SessionAlone, HoldsSession, Kind
  <2>10. TimesOK'
    BY <1>1, <1>2, <1>5, <1>6, <2>1, AloneParts DEF TimesOK
  <2> QED
    BY <1>1, <1>4, <1>7, <2>1, <2>2, <2>9, <2>10, AloneWhole
<1>9. CASE Kind(w) \in {"retry", "refresh"}
  <2>1. Deliver(w) /\ Finish(w)
    BY <1>9 DEF WriteSession
  <2>2. /\ \A t \in tokens' : t.iat <= now
        /\ failures = 0 => \A t \in tokens' : Current(t)'
    BY <1>1, <1>2, <1>3, <1>9, <2>1, DeliveredAlone DEF HoldsSession, Rotating
  <2>3. TimesOK'
    BY <1>1, <1>2, <1>5, <2>2, AloneParts DEF TimesOK
  <2> QED
    BY <1>1, <1>4, <2>1, <2>2, <2>3, RestAlone, AloneWhole
<1>10. CASE Kind(w) = "revoke"
  <2>1. UNCHANGED tokens /\ Finish(w)
    BY <1>10 DEF WriteSession
  <2>2. failures = 0 => \A t \in tokens : Current(t)'
    BY <1>3, <1>7, <1>10, <2>1 DEF Current
  <2>3. TimesOK'
    BY <1>1, <1>2, <1>5, <1>6, <2>1, AloneParts DEF TimesOK
  <2> QED
    BY <1>1, <1>4, <2>1, <2>2, <2>3, RestAlone, AloneWhole
<1> QED
  BY <1>3, <1>8, <1>9, <1>10

LEMMA FailAlone ==
  ASSUME IInv, NEW w, Workers = {w}, AloneInv, Fail(w)
  PROVE  AloneInv'
<1>1. /\ Finish(w) /\ UNCHANGED <<codes, sessions, now, tokens>>
      /\ failures' = failures + 1 /\ failures \in Nat
  BY DEF Fail, db, IInv, WorldOK
<1>2. TimesOK' /\ OwnersOK' /\ OneOwner'
  BY <1>1, AloneParts DEF TimesOK, OwnersOK, OneOwner
<1> QED
  BY <1>1, <1>2, RestAlone, AloneWhole

(* Time passes: what is overdue stays so. *)
LEMMA EnvironmentAlone ==
  ASSUME IInv, NEW w, Workers = {w}, AloneInv, Environment
  PROVE  AloneInv'
<1>1. /\ UNCHANGED <<codes, sessions, tokens, pc, req, code, sess, failures>>
      /\ now' = now \/ (now < MaxTime /\ now' = now + 1)
  BY DEF Environment, Tick, SetStanding, db
<1>2. now \in Nat /\ now' \in Nat /\ MaxTime \in Nat /\ now <= now'
  BY <1>1, Bounds DEF IInv, WorldOK
<1>3. ASSUME NEW c \in DOMAIN codes, Overdue(c)
      PROVE  Overdue(c)'
  <2>1. codes[c].expires \in Nat
    BY Ids DEF IInv, CodeRow
  <2> QED
    BY <1>1, <1>2, <1>3, <2>1 DEF Overdue
<1>4. CodeAlone(w)'
  <2>1. CASE HoldsCode(pc[w], req[w])
    <3>1. code[w].id \in DOMAIN codes
      BY <2>1, PhaseOf DEF IInv, Phase
    <3>2. Edit(Kind(w), code[w].ent, codes[code[w].id], code[w].id) =>
             Edit(Kind(w), code[w].ent, codes[code[w].id], code[w].id)'
      BY <1>1, <1>3, <3>1 DEF Edit, Kind
    <3> QED
      BY <1>1, <3>2, AloneParts DEF AloneWorker, CodeAlone, Kind
  <2>2. CASE ~HoldsCode(pc[w], req[w])
    BY <1>1, <2>2, AloneParts DEF AloneWorker, CodeAlone, Kind, HoldsCode
  <2> QED
    BY <2>1, <2>2
<1>5. SessionAlone(w)'
  <2>1. CASE HoldsSession(pc[w], req[w]) /\ Kind(w) # "revoke"
    <3>1. sess[w].ent.hash \in Nat
      BY <2>1, PhaseOf DEF IInv, Phase, Kind
    <3>2. Rotating(w, sessions[sess[w].id]) => Rotating(w, sessions[sess[w].id])'
      BY <1>1, <1>2, <3>1 DEF Rotating
    <3> QED
      BY <1>1, <2>1, <3>2, AloneParts DEF AloneWorker, SessionAlone, Kind, HoldsSession
  <2>2. CASE ~(HoldsSession(pc[w], req[w]) /\ Kind(w) # "revoke")
    BY <1>1, <2>2, AloneParts DEF AloneWorker, SessionAlone, Kind, HoldsSession
  <2> QED
    BY <2>1, <2>2
<1>6. AloneWorker(w)'
  BY <1>1, <1>4, <1>5, AloneParts DEF AloneWorker, IssueAlone
<1>7. TimesOK'
  <2>1. \A s \in DOMAIN sessions : sessions[s].hash \in Nat \cup {Null}
    BY Ids DEF IInv, SessionRow
  <2>2. \A t \in tokens : t.iat \in Nat
    BY DEF IInv, TokensOK, Token
  <2>3. TimesOK
    BY AloneParts
  <2>4. now' <= MaxTime /\ Len(sessions') <= MaxSessions
    BY <1>1, <1>2, <2>3 DEF TimesOK
  <2>5. ASSUME NEW h \in Nat, h <= now
        PROVE  h <= now'
    BY <1>2, <2>5
  <2>6. \A s \in DOMAIN sessions : sessions[s].hash # Null => sessions[s].hash <= now'
    BY <2>1, <2>3, <2>5 DEF TimesOK
  <2>7. \A t \in tokens : t.iat <= now'
    BY <2>2, <2>3, <2>5 DEF TimesOK
  <2> QED
    BY <1>1, <2>4, <2>6, <2>7 DEF TimesOK
<1>8. OwnersOK' /\ OneOwner'
  BY <1>1, AloneParts DEF OwnersOK, OneOwner
<1>9. \A t \in tokens : Current(t) => Current(t)'
  BY <1>1 DEF Current, TokenAccepted
<1> QED
  BY <1>1, <1>6, <1>7, <1>8, <1>9, AloneParts, AloneWhole
LEMMA AloneStart ==
  ASSUME NEW w, Workers = {w}, Init
  PROVE  AloneInv
<1>1. /\ pc[w] = "idle" /\ req[w] = NoRequest /\ sess[w] = Nothing
      /\ DOMAIN sessions = {} /\ Len(sessions) = 0 /\ tokens = {} /\ now = 0
  BY DEF Init
<1>2. NoRequest.kind = "none" /\ Nothing.id = 0
  BY DEF NoRequest, Nothing, Held
<1>3. CodeAlone(w) /\ IssueAlone(w) /\ SessionAlone(w)
  BY <1>1, <1>2
     DEF CodeAlone, IssueAlone, SessionAlone, HoldsCode, HoldsSession, Kind
<1>4. TimesOK /\ OwnersOK /\ OneOwner /\ NewestTokenAccepted
  BY <1>1, Bounds DEF TimesOK, OwnersOK, OneOwner, NewestTokenAccepted
<1> QED
  BY <1>3, <1>4 DEF AloneInv

LEMMA AloneStep ==
  ASSUME IInv, NEW w, Workers = {w}, AloneInv, [Next]_vars
  PROVE  AloneInv'
<1>1. CASE UNCHANGED vars
  <2>1. UNCHANGED <<codes, sessions, now, tokens, pc, req, code, sess, failures>>
    BY <1>1 DEF vars
  <2>2. (AloneWorker(w) => AloneWorker(w)') /\ \A t \in tokens : Current(t) => Current(t)'
    BY <2>1
       DEF AloneWorker, CodeAlone, IssueAlone, SessionAlone, Edit, Overdue, Rotating, Kind,
           Current, TokenAccepted
  <2>3. TimesOK' /\ OwnersOK' /\ OneOwner'
    BY <2>1, AloneParts DEF TimesOK, OwnersOK, OneOwner
  <2> QED
    BY <2>1, <2>2, <2>3, AloneParts, AloneWhole
<1>2. CASE Environment
  BY <1>2, EnvironmentAlone
<1>3. CASE Arrive(w)
  <2>1. CASE \E user \in UserCodes : CreateDeviceCode(w, user)
    BY <2>1, CreateAlone
  <2>2. CASE \E c \in DOMAIN codes, e \in Employees :
                Confirm(w, c, e) \/ ConfirmTooLate(w, c, e)
    BY <2>2, ConfirmAlone
  <2>3. CASE \E c \in DOMAIN codes :
                \/ PollOverdue(w, c) \/ PollRetry(w, c) \/ PollTooEarly(w, c)
                \/ PollPending(w, c) \/ PollConfirmed(w, c)
    BY <2>3, PollAlone
  <2>4. CASE \E t \in tokens : Refresh(w, t)
    BY <2>4, RefreshAlone
  <2>5. CASE \E s \in DOMAIN sessions : Revoke(w, s)
    BY <2>5, RevokeAlone
  <2> QED
    BY <1>3, <2>1, <2>2, <2>3, <2>4, <2>5 DEF Arrive
<1>4. CASE InsertCode(w) \/ InsertSession(w) \/ FindSession(w)
  BY <1>4, InsertCodeAlone, InsertSessionAlone, FindSessionAlone
<1>5. CASE ReloadCode(w) \/ WriteCode(w)
  BY <1>5, ReloadCodeAlone, WriteCodeAlone
<1>6. CASE ReloadSession(w) \/ WriteSession(w) \/ Fail(w)
  BY <1>6, ReloadSessionAlone, WriteSessionAlone, FailAlone
<1> QED
  BY <1>1, <1>2, <1>3, <1>4, <1>5, <1>6 DEF Next, Serve

LEMMA Alone ==
  ASSUME NEW w, Workers = {w}
  PROVE  Spec => [](IInv /\ AloneInv)
<1>1. Init => AloneInv
  BY AloneStart
<1>2. IInv /\ AloneInv /\ [Next]_vars => AloneInv'
  BY AloneStep
<1> QED
  BY <1>1, <1>2, Inductive, PTL DEF Spec

(* When requests do not overlap, one person stands behind a code: no poll  *)
(* issues a session for anyone but the employee who confirmed, and nobody  *)
(* else confirms the code afterwards, whatever HR does to the employee's   *)
(* row and whichever database calls fail.                                  *)
THEOREM CodeHasOneOwner ==
  ASSUME NEW w, Workers = {w}
  PROVE  Spec => []OneOwner
<1>1. AloneInv => OneOwner
  BY DEF AloneInv
<1> QED
  BY <1>1, Alone, PTL

(* When requests do not overlap and no database call fails, a device that  *)
(* keeps its newest refresh token can refresh with it until HR revokes the *)
(* session: the stored hash is the one of the newest token delivered.      *)
THEOREM DeviceStaysLoggedIn ==
  ASSUME NEW w, Workers = {w}
  PROVE  Spec => []NewestTokenAccepted
<1>1. AloneInv => NewestTokenAccepted
  BY DEF AloneInv
<1> QED
  BY <1>1, Alone, PTL

(* The step that changes the row of a code: an edit of it that IInv and    *)
(* AloneInv describe.                                                      *)
LEMMA CodeChange ==
  ASSUME IInv, NEW w, Workers = {w}, AloneInv, [Next]_vars, NEW c \in DOMAIN codes,
         codes'[c] # codes[c]
  PROVE  /\ codes[c] \in CodeRow /\ pc[w] = "writeCode" /\ code[w].id = c
         /\ code[w].ent \in CodeEntity
         /\ LET e == code[w].ent
            IN  /\ Edit(Kind(w), e, codes[c], c)
                /\ codes'[c].status = e.status
                /\ codes'[c].polled = e.polled /\ codes'[c].session = e.session
                /\ codes'[c].employee = IF e.employee = Undef THEN codes[c].employee
                                                              ELSE e.employee
<1>1. WriteCode(w)
  <2>1. CASE InsertCode(w)
    <3>1. code[w].ent \in CodeRow
      BY <2>1, PhaseOf DEF IInv, Phase, InsertCode
    <3>2. codes'[c] = codes[c]
      BY <2>1, <3>1, AppendCode DEF IInv, InsertCode
    <3> QED
      BY <3>2
  <2>2. CASE UNCHANGED vars
    BY <2>2 DEF vars
  <2> QED
    BY <2>1, <2>2, CodesKept
<1>2. c = code[w].id
  BY <1>1, WrittenCode
<1>3. code[w].ent \in CodeEntity /\ codes[c] \in CodeRow
  BY <1>1, PhaseOf, Ids DEF IInv, Phase, HoldsCode, WriteCode
<1> QED
  BY <1>1, <1>2, <1>3, WrittenCodeAlone DEF WriteCode

(* When requests do not overlap, a confirmation is only ever followed by   *)
(* the session it paid for or by the code's end: no poll, no second        *)
(* confirm() and no save() takes it back or gives it to somebody else; an  *)
(* early poll that found the employee deleted is the one that leaves the   *)
(* code confirmed for nobody.                                              *)
THEOREM ConfirmationHolds ==
  ASSUME NEW w, Workers = {w}
  PROVE  Spec => ConfirmationStands
<1>1. ASSUME IInv, AloneInv, [Next]_vars, NEW c \in DOMAIN codes,
             codes[c].status = "confirmed"
      PROVE  LET same == codes'[c].employee = codes[c].employee
             IN  \/ codes'[c].status = "confirmed" /\ (same \/ OwnerDropped(c))
                 \/ codes'[c].status = "expired" /\ codes'[c].session # Null /\ same
                 \/ codes'[c].status = "expired" /\ Overdue(c)
  <2>1. CASE codes'[c] = codes[c]
    BY <1>1, <2>1
  <2>2. CASE codes'[c] # codes[c]
    <3> DEFINE e == code[w].ent
    <3>1. /\ Edit(Kind(w), e, codes[c], c) /\ codes[c] \in CodeRow
          /\ pc[w] = "writeCode" /\ code[w].id = c
          /\ codes'[c].status = e.status /\ codes'[c].session = e.session
          /\ codes'[c].employee = IF e.employee = Undef THEN codes[c].employee ELSE e.employee
      BY <1>1, <2>2, CodeChange
    <3> HIDE DEF e
    <3>2. CASE e.employee = codes[c].employee
      BY <1>1, <3>1, <3>2, Bounds DEF Edit
    <3>3. CASE Kind(w) = "slowDown" /\ e.employee = Null
      <4>1. OwnerDropped(c)
        BY <3>1, <3>3 DEF OwnerDropped, e
      <4> QED
        BY <1>1, <3>1, <3>3, <4>1, Bounds DEF Edit
    <3>4. CASE e.status = "expired" /\ Overdue(c)
      BY <3>1, <3>4
    <3> QED
      BY <1>1, <3>1, <3>2, <3>3, <3>4 DEF Edit
  <2> QED
    BY <2>1, <2>2
<1>2. IInv /\ AloneInv /\ [Next]_vars =>
         [\A c \in DOMAIN codes :
             codes[c].status = "confirmed" =>
                LET same == codes'[c].employee = codes[c].employee
                IN  \/ codes'[c].status = "confirmed" /\ (same \/ OwnerDropped(c))
                    \/ codes'[c].status = "expired" /\ codes'[c].session # Null /\ same
                    \/ codes'[c].status = "expired" /\ Overdue(c)]_vars
  BY <1>1
<1> QED
  BY <1>2, Alone, PTL DEF Spec, ConfirmationStands

(* When requests do not overlap, two polls that count are at least the     *)
(* interval apart that the row asked for at the first of them.             *)
THEOREM PollsAreSpaced ==
  ASSUME NEW w, Workers = {w}
  PROVE  Spec => PollsSpaced
<1>1. ASSUME IInv, AloneInv, [Next]_vars, NEW c \in DOMAIN codes,
             codes[c].polled # Null, codes'[c].polled # codes[c].polled
      PROVE  codes'[c].polled >= codes[c].polled + codes[c].interval
  <2>1. codes'[c] # codes[c]
    BY <1>1
  <2> QED
    BY <1>1, <2>1, CodeChange DEF Edit
<1>2. IInv /\ AloneInv /\ [Next]_vars =>
         [\A c \in DOMAIN codes :
            codes[c].polled # Null /\ codes'[c].polled # codes[c].polled
            => codes'[c].polled >= codes[c].polled + codes[c].interval]_vars
  BY <1>1
<1> QED
  BY <1>2, Alone, PTL DEF Spec, PollsSpaced
-----------------------------------------------------------------------------
(* The refinement: what a session is to SessionLifecycle. *)

StatusOf(s) == IF s \notin DOMAIN sessions THEN "none"
               ELSE IF sessions[s].active THEN "open" ELSE "revoked"
TokenOf(s) == IF s \in DOMAIN sessions THEN sessions[s].hash ELSE Null
StatusMap == [s \in SessionIds |-> StatusOf(s)]
TokenMap == [s \in SessionIds |-> TokenOf(s)]

LEMMA LifecycleInit == ASSUME Init PROVE Lifecycle!Init
BY DEF Init, Lifecycle!Init

(* A step that changes session s alone maps to a step on s.                *)
LEMMA LifecycleOpen ==
  ASSUME NEW s \in SessionIds, StatusOf(s) = "none", StatusOf(s)' = "open",
         TokenOf(s)' = TokenOf(s),
         \A r \in SessionIds \ {s} : StatusOf(r)' = StatusOf(r) /\ TokenOf(r)' = TokenOf(r)
  PROVE  Lifecycle!Next
<1>1. StatusMap' = [StatusMap EXCEPT ![s] = "open"] /\ TokenMap' = TokenMap
  BY DEF StatusMap, TokenMap
<1>2. StatusMap[s] = "none"
  BY DEF StatusMap
<1>3. Lifecycle!OpenSession(s)
  BY <1>1, <1>2 DEF Lifecycle!OpenSession, StatusMap, TokenMap, StatusOf, TokenOf
<1> QED
  BY <1>3 DEF Lifecycle!Next

LEMMA LifecycleSame ==
  ASSUME \A r \in SessionIds : StatusOf(r)' = StatusOf(r) /\ TokenOf(r)' = TokenOf(r)
  PROVE  StatusMap' = StatusMap /\ TokenMap' = TokenMap
BY DEF StatusMap, TokenMap

LEMMA LifecycleRotate ==
  ASSUME NEW s \in SessionIds, NEW t \in 0 .. MaxTime, StatusOf(s) = "open",
         StatusOf(s)' = "open", TokenOf(s) # Null => t >= TokenOf(s), TokenOf(s)' = t,
         \A r \in SessionIds \ {s} : StatusOf(r)' = StatusOf(r) /\ TokenOf(r)' = TokenOf(r)
  PROVE  Lifecycle!Next
<1>1. TokenMap' = [TokenMap EXCEPT ![s] = t] /\ StatusMap' = StatusMap
  BY DEF StatusMap, TokenMap
<1>2. StatusMap[s] = "open" /\ (TokenMap[s] # Null => t >= TokenMap[s])
  BY DEF StatusMap, TokenMap
<1>3. Lifecycle!Rotate(s)
  BY <1>1, <1>2 DEF Lifecycle!Rotate, StatusMap, TokenMap, StatusOf, TokenOf
<1> QED
  BY <1>3 DEF Lifecycle!Next

LEMMA LifecycleRevoke ==
  ASSUME NEW s \in SessionIds, StatusOf(s) = "open", StatusOf(s)' = "revoked",
         TokenOf(s)' = TokenOf(s),
         \A r \in SessionIds \ {s} : StatusOf(r)' = StatusOf(r) /\ TokenOf(r)' = TokenOf(r)
  PROVE  Lifecycle!Next
<1>1. StatusMap' = [StatusMap EXCEPT ![s] = "revoked"] /\ TokenMap' = TokenMap
  BY DEF StatusMap, TokenMap
<1>2. StatusMap[s] = "open"
  BY DEF StatusMap
<1>3. Lifecycle!Revoke(s)
  BY <1>1, <1>2 DEF Lifecycle!Revoke, StatusMap, TokenMap, StatusOf, TokenOf
<1> QED
  BY <1>3 DEF Lifecycle!Next
LEMMA SessionsKept ==
  ASSUME Next, \A w \in Workers : ~InsertSession(w) /\ ~WriteSession(w)
  PROVE  UNCHANGED sessions
BY DEF Next, Environment, Tick, SetStanding, Arrive, CreateDeviceCode, Confirm,
       ConfirmTooLate, PollOverdue, PollRetry, PollTooEarly, PollPending, PollConfirmed,
       Refresh, Revoke, Serve, InsertCode, FindSession, ReloadCode, ReloadSession,
       WriteCode, Fail, db

LEMMA LifecycleStep ==
  ASSUME IInv, NEW w, Workers = {w}, AloneInv, [Next]_vars
  PROVE  Lifecycle!Next \/ UNCHANGED <<StatusMap, TokenMap>>
<1>1. SessionIds = 1 .. MaxSessions /\ DOMAIN sessions \subseteq SessionIds
  <2>1. MaxSessions \in Nat
    BY Bounds
  <2>2. DOMAIN sessions = 1 .. Len(sessions) /\ Len(sessions) \in Nat
    BY DEF IInv, WorldOK
  <2>3. Len(sessions) <= MaxSessions
    BY AloneParts DEF TimesOK
  <2> QED
    BY <2>1, <2>2, <2>3 DEF SessionIds
<1>2. CASE InsertSession(w)
  <2> DEFINE row == NewSession(req[w])
  <2>1. row \in SessionRow /\ row.hash = Null /\ row.active
    BY <1>2, PhaseOf, NewSessionOK DEF InsertSession, IInv, Phase, WorldOK, NewSession
  <2>2. sessions' = Append(sessions, row) /\ Len(sessions) < MaxSessions
    BY <1>2, AloneParts DEF InsertSession, AloneWorker, IssueAlone
  <2>3. PICK s \in SessionIds :
           /\ sessions'[s] = row /\ \A r \in DOMAIN sessions : sessions'[r] = sessions[r]
           /\ DOMAIN sessions' = DOMAIN sessions \cup {s} /\ s \notin DOMAIN sessions
    <3>1. Len(sessions) + 1 \in SessionIds /\ Len(sessions) + 1 \notin DOMAIN sessions
      BY <1>1, <2>2, Ids, Bounds DEF IInv
    <3> HIDE DEF row
    <3> QED
      BY <2>1, <2>2, <3>1, AppendSession DEF IInv
  <2>4. sessions'[s].active = TRUE /\ sessions'[s].hash = Null
    BY <2>1, <2>3
  <2> HIDE DEF row
  <2>5. /\ StatusOf(s) = "none" /\ StatusOf(s)' = "open" /\ TokenOf(s)' = TokenOf(s)
        /\ \A r \in SessionIds \ {s} : StatusOf(r)' = StatusOf(r) /\ TokenOf(r)' = TokenOf(r)
    BY <2>3, <2>4 DEF StatusOf, TokenOf
  <2> QED
    BY <2>3, <2>5, LifecycleOpen
<1>3. CASE WriteSession(w)
  <2>1. PICK s, e : s \in SessionIds /\ s = sess[w].id /\ e = sess[w].ent
    BY <1>1, <1>3, WrittenSession
  <2>2. /\ s \in DOMAIN sessions /\ DOMAIN sessions' = DOMAIN sessions
        /\ \A r \in DOMAIN sessions \ {s} : sessions'[r] = sessions[r]
    BY <1>3, <2>1, WrittenSession
  <2>3. /\ sessions'[s].hash = e.hash /\ sessions'[s].active = e.active
        /\ IF Kind(w) = "revoke"
           THEN ~e.active /\ e.hash = sessions[s].hash
           ELSE Rotating(w, sessions[s]) /\ e.hash \in Nat
    BY <1>3, <2>1, WrittenSessionAlone
  <2>4. \A r \in SessionIds \ {s} : StatusOf(r)' = StatusOf(r) /\ TokenOf(r)' = TokenOf(r)
    BY <2>2 DEF StatusOf, TokenOf
  <2>5. CASE Kind(w) # "revoke"
    <3>1. /\ sessions[s].active /\ e.active /\ e.hash \in 0 .. MaxTime
          /\ sessions[s].hash # Null => sessions[s].hash <= e.hash
      <4>1. now <= MaxTime /\ now \in Nat /\ MaxTime \in Nat
        BY Bounds, AloneParts DEF IInv, WorldOK, TimesOK
      <4> QED
        BY <2>1, <2>3, <2>5, <4>1 DEF Rotating
    <3>2. sessions[s].hash \in Nat \cup {Null}
      BY <2>2, Ids DEF IInv, SessionRow
    <3>3. /\ StatusOf(s) = "open" /\ StatusOf(s)' = "open" /\ TokenOf(s)' = e.hash
          /\ TokenOf(s) # Null => e.hash >= TokenOf(s)
      BY <2>2, <2>3, <3>1, <3>2 DEF StatusOf, TokenOf
    <3> QED
      BY <2>1, <2>4, <3>1, <3>3, LifecycleRotate
  <2>6. CASE Kind(w) = "revoke"
    <3>1. ~e.active /\ e.hash = sessions[s].hash
      BY <2>3, <2>6
    <3>2. StatusOf(s)' = "revoked" /\ TokenOf(s)' = TokenOf(s)
      BY <2>2, <2>3, <3>1 DEF StatusOf, TokenOf
    <3>3. CASE sessions[s].active
      BY <2>1, <2>2, <2>4, <3>2, <3>3, LifecycleRevoke DEF StatusOf
    <3>4. CASE ~sessions[s].active
      <4>1. StatusOf(s) = "revoked"
        BY <2>2, <3>4 DEF StatusOf
      <4> QED
        BY <2>4, <3>2, <4>1, LifecycleSame
    <3> QED
      BY <3>3, <3>4
  <2> QED
    BY <2>5, <2>6
<1>4. CASE UNCHANGED sessions
  BY <1>4, LifecycleSame DEF StatusOf, TokenOf
<1> QED
  BY <1>2, <1>3, <1>4, SessionsKept DEF vars

(* When requests do not overlap, the sessions keep the promises of         *)
(* SessionLifecycle: a session opens once and without a token, only an     *)
(* open one takes a token, a later token replaces an earlier one, and      *)
(* what HR revoked stays revoked.                                          *)
THEOREM LifecycleImplemented ==
  ASSUME NEW w, Workers = {w}
  PROVE  Spec => ImplementsLifecycle
<1>1. Init => Lifecycle!Init
  BY LifecycleInit
<1>2. IInv /\ AloneInv /\ [Next]_vars =>
         Lifecycle!Next \/ UNCHANGED <<StatusMap, TokenMap>>
  BY LifecycleStep
<1>3. IInv /\ AloneInv /\ [Next]_vars =>
         [Lifecycle!Next]_<<[s \in SessionIds |->
                                IF s \notin DOMAIN sessions THEN "none"
                                ELSE IF sessions[s].active THEN "open" ELSE "revoked"],
                            [s \in SessionIds |->
                                IF s \in DOMAIN sessions THEN sessions[s].hash ELSE Null]>>
  BY <1>2 DEF StatusMap, TokenMap, StatusOf, TokenOf
<1> QED
  BY <1>1, <1>3, Alone, PTL DEF Spec, ImplementsLifecycle, Lifecycle!Spec
===============================================================================
