----------------------------- MODULE TimeEntries -----------------------------
(***************************************************************************)
(* Time entries: the desktop app's batch synchronisation, HR's manual      *)
(* entries and corrections, and the audit history of those corrections     *)
(* (time-entries.service.ts).                                              *)
(*                                                                         *)
(* Node runs one request at a time between two awaits, and every await is  *)
(* a round trip to Postgres, so a step of a worker is one database call    *)
(* with the code up to the next one.  Workers are the requests the server  *)
(* has open at once: one worker means that requests do not overlap.        *)
(*                                                                         *)
(* Left out: lastHeartbeat (merged as endTime is), syncStatus (always      *)
(* 'synced'), editedAt, the reason texts and the responses.                *)
(***************************************************************************)
EXTENDS RowStore, Integers, Sequences, FiniteSets

CONSTANTS
    Workers,        \* request contexts of the server
    Employees,      \* ids of the rows of table employees
    Tasks,          \* ids of the rows of table tasks
    EmployeeIds,    \* ids a DTO may name: Employees and unknown ones
    TaskIds,        \* ids a DTO may name: Tasks and unknown ones
    LocalIds,       \* localIds generated by desktop apps
    ManualIds,      \* the `manual-<uuid>` localIds
    Editors,        \* employees whose role is HR or ADMIN
    SyncRequests,   \* requests to POST /time-entries/sync
    ManualDtos,     \* bodies of POST /time-entries/manual
    UpdateDtos,     \* bodies of PATCH /time-entries/:id
    Archivable,     \* employees and tasks that may be soft-deleted
    DayLength,      \* instants in a day
    MaxEdits,       \* bound on HR requests
    MaxFailures     \* bound on failed database calls

Roles == {"EMPLOYEE", "MANAGER", "HR", "ADMIN"}

(* time-entry-item.dto.ts, create-manual-time-entry.dto.ts and             *)
(* update-time-entry.dto.ts: what the validation pipe lets through.  A     *)
(* date is the instant its day begins, as new Date(`${date}T00:00Z`) is.   *)
Item == [localId: LocalIds, employee: EmployeeIds, task: TaskIds, start: Nat,
         end: Nat \cup {Undef}, duration: Nat \cup {Undef}]
SyncRequest == [kind: {"sync"}, sub: Employees, role: Roles, batch: Seq(Item)]
ManualDto == [employee: EmployeeIds, task: TaskIds, date: Nat, duration: Nat]
UpdateDto == [task: TaskIds \cup {Undef}, date: Nat \cup {Undef},
              duration: Nat \cup {Undef}]

ASSUME IdsAssumption ==
    /\ Employees \subseteq EmployeeIds
    /\ Tasks \subseteq TaskIds
    /\ Editors \subseteq Employees
    /\ LocalIds \cap ManualIds = {}
    /\ {Null, Undef} \cap (EmployeeIds \cup TaskIds) = {}
    /\ Null \notin Nat /\ Undef \notin Nat \cup BOOLEAN
    /\ LocalIds # {}

ASSUME InputsAssumption ==
    /\ SyncRequests \subseteq SyncRequest
    /\ ManualDtos \subseteq ManualDto
    /\ UpdateDtos \subseteq UpdateDto
    /\ DayLength \in Nat \ {0}
    /\ MaxEdits \in Nat
    /\ MaxFailures \in Nat

VARIABLES
    entries,    \* table time_entries, by id
    audits,     \* table time_entry_audits, by id
    archived,   \* the employees and tasks that are soft-deleted
    pc,         \* the database call each worker makes next
    req,        \* the request each worker serves
    pos,        \* sync(): index of the current item
    rowId,      \* id of the row the entity was loaded from, 0 for a new one
    ent,        \* the entity in memory
    dirty,      \* save(): the columns the UPDATE will write
    failures    \* database calls that failed

db == <<entries, audits>>
vars == <<entries, audits, archived, pc, req, pos, rowId, ent, dirty, failures>>

-----------------------------------------------------------------------------
(* Rows and entities. *)

Row == [localId: LocalIds \cup ManualIds, employee: Employees, task: Tasks,
        start: Nat, end: Nat \cup {Null}, duration: Nat,
        manuallyEdited: BOOLEAN, editedBy: Employees \cup {Null}]

Entity == [localId: LocalIds \cup ManualIds,
           employee: EmployeeIds \cup {Null}, task: TaskIds \cup {Null},
           start: Nat, end: Nat \cup {Null, Undef}, duration: Nat,
           manuallyEdited: BOOLEAN, editedBy: Employees \cup {Undef}]

Columns == {"employee", "task", "start", "end", "duration",
            "manuallyEdited", "editedBy"}

AuditRow == [entry: Nat, editedBy: Employees, previous: Nat, new: Nat]

UpdateRequest == [kind: {"update"}, sub: Employees, dto: UpdateDto, previous: Nat]
ManualRequest == [kind: {"manual"}, sub: Employees, dto: ManualDto, previous: {0}]
NoRequest == [kind |-> "none"]

RowsOf(localId) == {id \in DOMAIN entries : entries[id].localId = localId}

(* findOne({relations}) joins without the soft-deleted rows: the relation  *)
(* to an archived employee or task loads as null.                          *)
Joined(x) == IF x \in archived THEN Null ELSE x

(* findOneBy({id}) in assertEmployeeExists() and assertTaskExists(). *)
EmployeeExists(x) == x \in Employees \ archived
TaskExists(x) == x \in Tasks \ archived

(* toISOString().slice(0, 10), read back as midnight UTC *)
DayOf(t) == t - (t % DayLength)

-----------------------------------------------------------------------------
(* A worker's request. *)

Idle(w) == pc[w] = "idle"
Kind(w) == req[w].kind
Goto(w, label) == pc' = [pc EXCEPT ![w] = label]
KeepEntity == UNCHANGED <<rowId, ent, dirty>>

NoEntity == [localId |-> CHOOSE l \in LocalIds : TRUE,
             employee |-> Null, task |-> Null, start |-> 0, end |-> Null,
             duration |-> 0, manuallyEdited |-> FALSE, editedBy |-> Undef]

DropEntity(w) ==
    /\ rowId' = [rowId EXCEPT ![w] = 0]
    /\ ent' = [ent EXCEPT ![w] = NoEntity]
    /\ dirty' = [dirty EXCEPT ![w] = {}]

(* The request is answered, with a result or an error. *)
Finish(w) ==
    /\ Goto(w, "idle")
    /\ req' = [req EXCEPT ![w] = NoRequest]
    /\ pos' = [pos EXCEPT ![w] = 0]
    /\ DropEntity(w)

(* save(): an entity with an id is reread first, a new one inserted. *)
Save(w, id, e) ==
    /\ Goto(w, IF id = 0 THEN "insert" ELSE "reload")
    /\ rowId' = [rowId EXCEPT ![w] = id]
    /\ ent' = [ent EXCEPT ![w] = e]
    /\ UNCHANGED dirty

(* Bounds of the model: HR requests audited or in flight, and a localId    *)
(* left for every manual entry under way.                                  *)
HRWork == Len(audits) + Cardinality({w \in Workers : Kind(w) \in {"update", "manual"}})

-----------------------------------------------------------------------------
(* sync() *)

Current(w) == req[w].batch[pos[w]]
InBatch(w) == pc[w] = "next" /\ pos[w] <= Len(req[w].batch)

SelfOnly(r) == r.role \in {"EMPLOYEE", "MANAGER"}
MutantForeign(r, item) == r.role = "MANAGER" /\ item.employee # r.sub
Foreign(r, item) == SelfOnly(r) /\ item.employee # r.sub

(* HR's correction is authoritative. *)
MutantCorrected(id) == FALSE
Corrected(id) == entries[id].manuallyEdited

(* The end and duration of the entity found stay where the item has none.  *)
MutantMergedEnd(item, end) == Coalesce(item.end, Null)
MergedEnd(item, end) == Coalesce(item.end, Coalesce(end, Undef))

MutantMergedDuration(item, duration) == Coalesce(duration, item.duration)
MergedDuration(item, duration) == Coalesce(item.duration, duration)

(* The item's fields over those of the entity found or created; editedBy   *)
(* is a relation sync() does not load.                                     *)
MutantMergeItem(item, end, duration) ==
    [localId |-> item.localId, employee |-> item.employee, task |-> item.task,
     start |-> item.start, end |-> MergedEnd(item, end),
     duration |-> MergedDuration(item, duration),
     manuallyEdited |-> FALSE, editedBy |-> Null]

MergeItem(item, end, duration) ==
    [localId |-> item.localId, employee |-> item.employee, task |-> item.task,
     start |-> item.start, end |-> MergedEnd(item, end),
     duration |-> MergedDuration(item, duration),
     manuallyEdited |-> FALSE, editedBy |-> Undef]

StartSync(w, r) ==
    /\ Idle(w)
    /\ Goto(w, "next")
    /\ req' = [req EXCEPT ![w] = r]
    /\ pos' = [pos EXCEPT ![w] = 1]
    /\ KeepEntity
    /\ UNCHANGED <<db, archived, failures>>

NextItem(w) == Goto(w, "next") /\ pos' = [pos EXCEPT ![w] = @ + 1]

MutantSkipForeign(w) ==
    /\ InBatch(w)
    /\ Foreign(req[w], Current(w))
    /\ Finish(w)
    /\ UNCHANGED <<db, archived, failures>>

SkipForeign(w) ==
    /\ InBatch(w)
    /\ Foreign(req[w], Current(w))
    /\ NextItem(w)
    /\ KeepEntity
    /\ UNCHANGED <<db, archived, req, failures>>

SkipCorrected(w) ==
    /\ InBatch(w)
    /\ ~Foreign(req[w], Current(w))
    /\ \E id \in RowsOf(Current(w).localId) : Corrected(id)
    /\ NextItem(w)
    /\ KeepEntity
    /\ UNCHANGED <<db, archived, req, failures>>

FindTracked(w) ==
    /\ InBatch(w)
    /\ ~Foreign(req[w], Current(w))
    /\ \E id \in RowsOf(Current(w).localId) :
          /\ ~Corrected(id)
          /\ Save(w, id, MergeItem(Current(w), entries[id].end, entries[id].duration))
    /\ UNCHANGED <<db, archived, req, pos, failures>>

FindNothing(w) ==
    /\ InBatch(w)
    /\ ~Foreign(req[w], Current(w))
    /\ RowsOf(Current(w).localId) = {}
    /\ Save(w, 0, MergeItem(Current(w), Undef, 0))
    /\ UNCHANGED <<db, archived, req, pos, failures>>

SyncRespond(w) ==
    /\ pc[w] = "next"
    /\ ~InBatch(w)
    /\ Finish(w)
    /\ UNCHANGED <<db, archived, failures>>

-----------------------------------------------------------------------------
(* createManual() *)

(* Freshness of randomUUID(): not the localId of a row or of an entity     *)
(* another worker is about to insert.                                      *)
FreshManualIds ==
    {l \in ManualIds : /\ RowsOf(l) = {}
                       /\ \A v \in Workers : pc[v] = "insert" => ent[v].localId # l}

ManualRoom ==
    Cardinality({v \in Workers : pc[v] = "manualTask"}) < Cardinality(FreshManualIds)

StartManual(w, user, dto) ==
    /\ Idle(w)
    /\ HRWork < MaxEdits
    /\ ManualRoom
    /\ EmployeeExists(dto.employee)
    /\ Goto(w, "manualTask")
    /\ req' = [req EXCEPT ![w] = [kind |-> "manual", sub |-> user, dto |-> dto,
                                  previous |-> 0]]
    /\ KeepEntity
    /\ UNCHANGED <<db, archived, pos, failures>>

ManualEntity(l, user, dto) ==
    [localId |-> l, employee |-> dto.employee, task |-> dto.task,
     start |-> dto.date, end |-> dto.date + dto.duration,
     duration |-> dto.duration, manuallyEdited |-> TRUE, editedBy |-> user]

BuildManual(w) ==
    /\ pc[w] = "manualTask"
    /\ TaskExists(req[w].dto.task)
    /\ \E l \in FreshManualIds : Save(w, 0, ManualEntity(l, req[w].sub, req[w].dto))
    /\ UNCHANGED <<db, archived, req, pos, failures>>

-----------------------------------------------------------------------------
(* update() *)

(* findByIdOrThrow(): the entity with its employee and task joined. *)
Loaded(row) == [row EXCEPT !.employee = Joined(@), !.task = Joined(@),
                           !.editedBy = Undef]

(* Does the correction move the entry in time? *)
MutantRetimed(dto) == dto.date # Undef
Retimed(dto) == dto.date # Undef \/ dto.duration # Undef

(* The correction, made in memory between the task check and save(). *)
Correct(e, dto, user) ==
    LET duration == Coalesce(dto.duration, e.duration)
        start    == Coalesce(dto.date, DayOf(e.start))
    IN  [e EXCEPT !.task = Coalesce(dto.task, @),
                  !.start = IF Retimed(dto) THEN start ELSE @,
                  !.end = IF Retimed(dto) THEN start + duration ELSE @,
                  !.duration = duration,
                  !.manuallyEdited = TRUE,
                  !.editedBy = user]

StartUpdate(w, user, id, dto) ==
    /\ Idle(w)
    /\ HRWork < MaxEdits
    /\ req' = [req EXCEPT ![w] = [kind |-> "update", sub |-> user, dto |-> dto,
                                  previous |-> entries[id].duration]]
    /\ IF dto.task = Undef
       THEN Save(w, id, Correct(Loaded(entries[id]), dto, user))
       ELSE /\ Goto(w, "updateTask")
            /\ rowId' = [rowId EXCEPT ![w] = id]
            /\ ent' = [ent EXCEPT ![w] = Loaded(entries[id])]
            /\ UNCHANGED dirty
    /\ UNCHANGED <<db, archived, pos, failures>>

ApplyUpdate(w) ==
    /\ pc[w] = "updateTask"
    /\ TaskExists(req[w].dto.task)
    /\ Save(w, rowId[w], Correct(ent[w], req[w].dto, req[w].sub))
    /\ UNCHANGED <<db, archived, req, pos, failures>>

(* assertTaskExists() throws: 404, nothing was written. *)
TaskNotFound(w) ==
    /\ pc[w] \in {"manualTask", "updateTask"}
    /\ ~TaskExists(req[w].dto.task)
    /\ Finish(w)
    /\ UNCHANGED <<db, archived, failures>>

-----------------------------------------------------------------------------
(* save() of a time entry, for all three handlers. *)

(* Constraints of table time_entries: the unique index on localId and the  *)
(* NOT NULL foreign keys, which a soft-deleted parent row still satisfies. *)
MutantLinksValid(e) == e.task \in Tasks
LinksValid(e) == e.employee \in Employees /\ e.task \in Tasks

MutantLocalIdFree(l) == TRUE
LocalIdFree(l) == RowsOf(l) = {}

Accepts(e) == LinksValid(e) /\ LocalIdFree(e.localId)

(* What follows the save(): the next item, or the audit row. *)
AfterSave(w, id) ==
    IF Kind(w) = "sync"
    THEN NextItem(w) /\ DropEntity(w)
    ELSE /\ Goto(w, "audit")
         /\ rowId' = [rowId EXCEPT ![w] = id]
         /\ UNCHANGED <<pos, ent, dirty>>

NewRow(e) == [e EXCEPT !.end = Inserted(@), !.editedBy = Inserted(@)]

Insert(w) ==
    /\ pc[w] = "insert"
    /\ Accepts(ent[w])
    /\ entries' = Append(entries, NewRow(ent[w]))
    /\ AfterSave(w, Len(entries) + 1)
    /\ UNCHANGED <<audits, archived, req, failures>>

Reload(w) ==
    /\ pc[w] = "reload"
    /\ dirty' = [dirty EXCEPT ![w] = Dirty(ent[w], entries[rowId[w]], Columns)]
    /\ Goto(w, "write")
    /\ UNCHANGED <<db, archived, req, pos, rowId, ent, failures>>

Updated(row, e, cols) ==
    LET column(c) == IF c \in cols THEN e[c] ELSE row[c]
    IN  [localId |-> row.localId, employee |-> column("employee"),
         task |-> column("task"), start |-> column("start"), end |-> column("end"),
         duration |-> column("duration"),
         manuallyEdited |-> column("manuallyEdited"),
         editedBy |-> column("editedBy")]

Write(w) ==
    /\ pc[w] = "write"
    /\ LET row == Updated(entries[rowId[w]], ent[w], dirty[w])
       IN  /\ LinksValid(row)
           /\ entries' = [entries EXCEPT ![rowId[w]] = row]
    /\ AfterSave(w, rowId[w])
    /\ UNCHANGED <<audits, archived, req, failures>>

(* Postgres rejects the statement: the request ends in an error, and with  *)
(* it the rest of a batch.                                                 *)
Rejected(w) ==
    /\ \/ pc[w] = "insert" /\ ~Accepts(ent[w])
       \/ pc[w] = "write" /\ ~LinksValid(Updated(entries[rowId[w]], ent[w], dirty[w]))
    /\ Finish(w)
    /\ UNCHANGED <<db, archived, failures>>

(* The audit row of createManual() and of update(), saved after the entry. *)
MutantAudit(w) ==
    [entry |-> rowId[w], editedBy |-> req[w].sub,
     previous |-> ent[w].duration, new |-> ent[w].duration]

Audit(w) ==
    [entry |-> rowId[w], editedBy |-> req[w].sub,
     previous |-> req[w].previous, new |-> ent[w].duration]

WriteAudit(w) ==
    /\ pc[w] = "audit"
    /\ audits' = Append(audits, Audit(w))
    /\ Finish(w)
    /\ UNCHANGED <<entries, archived, failures>>

-----------------------------------------------------------------------------
(* The environment: a failed database call, which rejects the promise the  *)
(* handler awaits (or the process is restarted there), and the soft        *)
(* deletes and restores that employees and tasks undergo elsewhere.        *)

Fail(w) ==
    /\ ~Idle(w)
    /\ failures < MaxFailures
    /\ failures' = failures + 1
    /\ Finish(w)
    /\ UNCHANGED <<db, archived>>

Archive(x) ==
    /\ x \in Archivable \ archived
    /\ archived' = archived \cup {x}
    /\ UNCHANGED <<db, pc, req, pos, rowId, ent, dirty, failures>>

Restore(x) ==
    /\ x \in archived
    /\ archived' = archived \ {x}
    /\ UNCHANGED <<db, pc, req, pos, rowId, ent, dirty, failures>>

-----------------------------------------------------------------------------
Init ==
    /\ entries = <<>>
    /\ audits = <<>>
    /\ archived = {}
    /\ pc = [w \in Workers |-> "idle"]
    /\ req = [w \in Workers |-> NoRequest]
    /\ pos = [w \in Workers |-> 0]
    /\ rowId = [w \in Workers |-> 0]
    /\ ent = [w \in Workers |-> NoEntity]
    /\ dirty = [w \in Workers |-> {}]
    /\ failures = 0

(* A request arrives at a free worker. *)
Arrive(w) ==
    \/ \E r \in SyncRequests : StartSync(w, r)
    \/ \E user \in Editors, dto \in ManualDtos : StartManual(w, user, dto)
    \/ \E user \in Editors, id \in DOMAIN entries, dto \in UpdateDtos :
          StartUpdate(w, user, id, dto)

(* The request a worker serves takes its next step. *)
Serve(w) ==
    \/ SkipForeign(w) \/ SkipCorrected(w) \/ FindTracked(w) \/ FindNothing(w)
    \/ SyncRespond(w)
    \/ BuildManual(w) \/ ApplyUpdate(w) \/ TaskNotFound(w)
    \/ Insert(w) \/ Reload(w) \/ Write(w) \/ Rejected(w) \/ WriteAudit(w)

Next ==
    \/ \E w \in Workers : Arrive(w) \/ Serve(w) \/ Fail(w)
    \/ \E x \in Archivable : Archive(x) \/ Restore(x)

Spec == Init /\ [][Next]_vars

(* Every open request is served to its end, and the desktop apps keep      *)
(* sending the batch of their pending entries.                             *)
Fairness ==
    /\ \A w \in Workers : WF_vars(Serve(w))
    /\ \A r \in SyncRequests : SF_vars(\E w \in Workers : StartSync(w, r))

FairSpec == Spec /\ Fairness

-----------------------------------------------------------------------------
(* Properties.  TypeOK, EntryIdsUnique, EditTrail, OwnEntriesOnly and      *)
(* CorrectionSettles hold however requests interleave and fail; those      *)
(* after them need requests that do not overlap, or no failure.            *)

EntriesOK == entries \in Seq(Row)
AuditsOK == audits \in Seq(AuditRow)
RequestsOK ==
    /\ pc \in [Workers -> {"idle", "next", "manualTask", "updateTask", "insert",
                           "reload", "write", "audit"}]
    /\ req \in [Workers -> SyncRequest \cup UpdateRequest \cup ManualRequest
                           \cup {NoRequest}]
    /\ pos \in [Workers -> Nat]
EntitiesOK ==
    /\ rowId \in [Workers -> Nat]
    /\ ent \in [Workers -> Entity]
    /\ dirty \in [Workers -> SUBSET Columns]

(* Type invariant.  Its content beyond the types: a stored row always has  *)
(* an existing employee and task, which save() of an entity whose joined   *)
(* employee or task was soft-deleted (null) would otherwise take away.     *)
TypeOK ==
    /\ EntriesOK
    /\ AuditsOK
    /\ archived \subseteq Archivable
    /\ RequestsOK
    /\ EntitiesOK
    /\ failures \in Nat

(* Retried and overlapping syncs of a localId never leave two rows for it  *)
(* (the comment of sync()): find-then-insert races end in the index.       *)
EntryIdsUnique ==
    \A i, j \in DOMAIN entries : entries[i].localId = entries[j].localId => i = j

(* The history never reports a correction that was not stored, and a       *)
(* corrected row always names the editor, even when a stale sync wins the  *)
(* row back: update() and createManual() save the entry before the audit   *)
(* row, and sync() never loads, so never writes, editedBy.                 *)
EditTrail ==
    /\ \A k \in DOMAIN audits : /\ audits[k].entry \in DOMAIN entries
                               /\ entries[audits[k].entry].editedBy # Null
    /\ \A i \in DOMAIN entries : entries[i].manuallyEdited => entries[i].editedBy # Null

(* An employee's or manager's sync never attributes an entry to someone    *)
(* else, also when its batch holds what another user left on the machine.  *)
SyncStores(w, i) ==
    /\ Kind(w) = "sync"
    /\ \/ pc[w] = "insert" /\ i = Len(entries) + 1
       \/ pc[w] = "write" /\ i = rowId[w]
    /\ pc'[w] = "next"

OwnEntriesOnly ==
    [][\A w \in Workers : \A i \in DOMAIN entries' :
          SyncStores(w, i) /\ SelfOnly(req[w]) =>
             \/ entries'[i].employee = req[w].sub
             \/ i \in DOMAIN entries /\ entries'[i].employee = entries[i].employee]_vars

(* Syncs that have read row i and not written it yet. *)
Holding(i) == {w \in Workers : /\ Kind(w) = "sync"
                               /\ pc[w] \in {"reload", "write"} /\ rowId[w] = i}

(* The race of a sync and a correction ends: once an entry stands          *)
(* corrected and every sync that had read it before is over, it stays      *)
(* corrected for good, whatever is retried, fails or overlaps later.       *)
(* Until then a sync may still win the row back (CorrectionPermanent).     *)
Settled(l) == \E i \in RowsOf(l) : entries[i].manuallyEdited /\ Holding(i) = {}

CorrectionSettles ==
    \A l \in LocalIds \cup ManualIds :
       [](Settled(l) => [](\E i \in RowsOf(l) : entries[i].manuallyEdited))

(* When requests do not overlap a correction is final: only another        *)
(* correction by HR changes the row (the comment of sync() and of the      *)
(* entity's manuallyEdited).                                               *)
CorrectionFinal ==
    [][\A i \in DOMAIN entries :
          entries[i].manuallyEdited /\ entries'[i] # entries[i]
          => \E w \in Workers : Kind(w) = "update" /\ pc[w] = "write" /\ rowId[w] = i]_vars

(* Once corrected, always corrected: what the entity's comment promises of *)
(* manuallyEdited.  A sync that read the row first breaks it.              *)
CorrectionPermanent ==
    [][\A i \in DOMAIN entries :
          entries[i].manuallyEdited => entries'[i].manuallyEdited]_vars

(* What a finished part of a batch has stored: for each owned item the     *)
(* last one of its localId, or HR's correction.  So a 200 acknowledges     *)
(* every entry the desktop app then forgets.                               *)
Reflects(row, item) ==
    /\ row.employee = item.employee /\ row.task = item.task /\ row.start = item.start
    /\ item.end # Undef => row.end = item.end
    /\ item.duration # Undef => row.duration = item.duration

Superseded(r, k, n) ==
    \E m \in k + 1 .. n : r.batch[m].localId = r.batch[k].localId /\ ~Foreign(r, r.batch[m])

SyncAcknowledged ==
    \A w \in Workers : pc[w] = "next" =>
       \A k \in 1 .. pos[w] - 1 :
          \/ Foreign(req[w], req[w].batch[k])
          \/ Superseded(req[w], k, pos[w] - 1)
          \/ \E i \in RowsOf(req[w].batch[k].localId) :
                entries[i].manuallyEdited \/ Reflects(entries[i], req[w].batch[k])

(* A manual entry spans exactly its duration, through any number of        *)
(* corrections of its date, duration or task.                              *)
ManualSpanExact ==
    \A i \in DOMAIN entries :
       entries[i].localId \in ManualIds =>
          entries[i].end = entries[i].start + entries[i].duration

(* A stored end time is never lost to a sync or a correction that does not *)
(* carry one.                                                              *)
EndNeverErased ==
    [][\A i \in DOMAIN entries : entries[i].end # Null => entries'[i].end # Null]_vars

(* Audit row m is the next one of its entry after k; k is the last one.    *)
Follows(m, k) ==
    /\ k < m /\ audits[k].entry = audits[m].entry
    /\ \A n \in k + 1 .. m - 1 : audits[n].entry # audits[m].entry
Latest(k) == \A n \in k + 1 .. Len(audits) : audits[n].entry # audits[k].entry

AuditPending(i) == \E w \in Workers : pc[w] = "audit" /\ rowId[w] = i

(* The history accounts for the row: as long as no database call failed    *)
(* (see the README on one that does), a corrected entry has audit rows,    *)
(* each continues from the duration the one before it recorded, and the    *)
(* last recorded the duration the row has now.                             *)
AuditLedger ==
    failures = 0 =>
       \A i \in DOMAIN entries : entries[i].manuallyEdited /\ ~AuditPending(i) =>
          /\ \E k \in DOMAIN audits : /\ audits[k].entry = i /\ Latest(k)
                                      /\ audits[k].new = entries[i].duration
          /\ \A k, m \in DOMAIN audits :
                audits[k].entry = i /\ Follows(m, k) => audits[m].previous = audits[k].new

(* Every entry a user may send is stored in the end, whatever the batches  *)
(* it travels in also hold (the comment of sync()).                        *)
OwnEntriesArrive ==
    \A r \in SyncRequests : \A k \in DOMAIN r.batch :
       (~Foreign(r, r.batch[k]) /\ LinksValid(r.batch[k]))
       => <>(RowsOf(r.batch[k].localId) # {})
=============================================================================
