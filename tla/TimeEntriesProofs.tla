-------------------------- MODULE TimeEntriesProofs --------------------------
(***************************************************************************)
(* Theorems of TimeEntries for every set of workers, employees, tasks,     *)
(* localIds and requests.  The inductive invariant adds to TypeOK what     *)
(* each worker knows at its next database call (Phase): which kind of      *)
(* request it serves, that the row its entity came from exists, and which  *)
(* columns its save() may write.                                           *)
(***************************************************************************)
EXTENDS TimeEntries, SequenceTheorems, TLAPS

(* A worker about to make call p, with its request r, batch index n, row   *)
(* id, entity e and dirty columns d, over the table rows.                  *)
Phase(p, r, n, id, e, d, rows) ==
    /\ p = "idle" => r = NoRequest
    /\ p = "next" => r \in SyncRequest /\ n \in Nat \ {0}
    /\ p = "manualTask" => r \in ManualRequest
    /\ p = "updateTask" => r \in UpdateRequest /\ id \in DOMAIN rows
    /\ p = "insert" => \/ r \in SyncRequest /\ ~e.manuallyEdited
                       \/ r \in ManualRequest /\ e.editedBy \in Employees
    /\ p \in {"reload", "write"} =>
          /\ id \in DOMAIN rows
          /\ \/ r \in SyncRequest /\ ~e.manuallyEdited /\ e.editedBy = Undef
             \/ r \in UpdateRequest /\ e.editedBy \in Employees /\ e.manuallyEdited
    /\ p = "write" =>
          /\ \A c \in d : e[c] # Undef
          /\ r \in UpdateRequest => "editedBy" \in d \/ rows[id].editedBy # Null
    /\ p = "audit" => /\ r \in UpdateRequest \cup ManualRequest
                      /\ id \in DOMAIN rows
                      /\ rows[id].editedBy # Null

WorkersOK == \A w \in Workers :
                Phase(pc[w], req[w], pos[w], rowId[w], ent[w], dirty[w], entries)

IInv == TypeOK /\ WorkersOK

-----------------------------------------------------------------------------
(* Values the handlers build. *)

LEMMA DayOfNat == ASSUME NEW t \in Nat PROVE DayOf(t) \in Nat
BY InputsAssumption DEF DayOf

(* An entity that findByIdOrThrow() loads from a row. *)
LEMMA LoadedEntity == ASSUME NEW row \in Row PROVE Loaded(row) \in Entity
BY IdsAssumption DEF Loaded, Row, Entity, Joined

(* A correction of an entity is an entity marked edited, with its editor.  *)
LEMMA CorrectEntity ==
  ASSUME NEW e \in Entity, NEW dto \in UpdateDto, NEW u \in Employees
  PROVE  /\ Correct(e, dto, u) \in Entity
         /\ Correct(e, dto, u).editedBy = u /\ Correct(e, dto, u).manuallyEdited
<1> DEFINE duration == Coalesce(dto.duration, e.duration)
           start == Coalesce(dto.date, DayOf(e.start))
           retimed == Retimed(dto)
<1>1. duration \in Nat
  BY IdsAssumption DEF Coalesce, Entity, UpdateDto
<1>2. start \in Nat
  <2>1. DayOf(e.start) \in Nat
    BY DayOfNat DEF Entity
  <2> QED
    BY <2>1, IdsAssumption DEF Coalesce, UpdateDto
<1>3. Coalesce(dto.task, e.task) \in TaskIds \cup {Null}
  BY IdsAssumption DEF Coalesce, Entity, UpdateDto
<1>4. /\ (IF retimed THEN start ELSE e.start) \in Nat
      /\ (IF retimed THEN start + duration ELSE e.end) \in Nat \cup {Null, Undef}
  BY <1>1, <1>2 DEF Entity
<1> HIDE DEF duration, start, retimed
<1>5. Correct(e, dto, u) = [e EXCEPT !.task = Coalesce(dto.task, @),
                                     !.start = IF retimed THEN start ELSE @,
                                     !.end = IF retimed THEN start + duration ELSE @,
                                     !.duration = duration,
                                     !.manuallyEdited = TRUE,
                                     !.editedBy = u]
  BY DEF Correct, duration, start, retimed
<1> QED
  BY <1>1, <1>3, <1>4, <1>5 DEF Entity

(* What sync() makes of an item and the end and duration stored before. *)
LEMMA MergedEntity ==
  ASSUME NEW item \in Item, NEW end \in Nat \cup {Null, Undef}, NEW duration \in Nat
  PROVE  LET e == MergeItem(item, end, duration)
         IN  e \in Entity /\ ~e.manuallyEdited /\ e.editedBy = Undef
BY IdsAssumption DEF MergeItem, MergedEnd, MergedDuration, Item, Entity, Coalesce

LEMMA ManualEntityOK ==
  ASSUME NEW l \in ManualIds, NEW u \in Employees, NEW dto \in ManualDto
  PROVE  ManualEntity(l, u, dto) \in Entity /\ ManualEntity(l, u, dto).editedBy = u
BY DEF ManualEntity, ManualDto, Entity

LEMMA NoEntityOK == NoEntity \in Entity
BY IdsAssumption DEF NoEntity, Entity

(* The row an accepted INSERT stores. *)
LEMMA NewRowOK ==
  ASSUME NEW e \in Entity, LinksValid(e)
  PROVE  /\ NewRow(e) \in Row
         /\ NewRow(e).localId = e.localId
         /\ NewRow(e).manuallyEdited = e.manuallyEdited
         /\ e.editedBy \in Employees => NewRow(e).editedBy \in Employees
BY NullIsNotUndef, IdsAssumption DEF NewRow, Inserted, Entity, Row, LinksValid

(* The row an accepted UPDATE leaves. *)
LEMMA UpdatedRowOK ==
  ASSUME NEW row \in Row, NEW e \in Entity, NEW d \in SUBSET Columns,
         \A c \in d : e[c] # Undef, LinksValid(Updated(row, e, d))
  PROVE  /\ Updated(row, e, d) \in Row
         /\ Updated(row, e, d).localId = row.localId
BY DEF Updated, Row, Entity, Columns, LinksValid

(* A column's value after an UPDATE. *)
LEMMA UpdatedColumns ==
  ASSUME NEW row, NEW e, NEW d
  PROVE  /\ Updated(row, e, d).editedBy = IF "editedBy" \in d THEN e.editedBy ELSE row.editedBy
         /\ Updated(row, e, d).manuallyEdited =
               IF "manuallyEdited" \in d THEN e.manuallyEdited ELSE row.manuallyEdited
         /\ Updated(row, e, d).end = IF "end" \in d THEN e.end ELSE row.end
BY DEF Updated

-----------------------------------------------------------------------------
(* Requests of different kinds are different. *)
LEMMA Kinds ==
  /\ \A r \in SyncRequest : r.kind = "sync"
  /\ \A r \in UpdateRequest : r.kind = "update"
  /\ \A r \in ManualRequest : r.kind = "manual"
  /\ NoRequest.kind = "none"
BY DEF SyncRequest, UpdateRequest, ManualRequest, NoRequest

(* A step of worker w that leaves it in phase p, r, n, id, e, d and keeps  *)
(* the rows in place preserves the invariant's parts about workers.        *)
LEMMA WorkerStep ==
  ASSUME TypeOK, WorkersOK, NEW w \in Workers,
         NEW p \in {"idle", "next", "manualTask", "updateTask", "insert",
                    "reload", "write", "audit"},
         NEW r \in SyncRequest \cup UpdateRequest \cup ManualRequest \cup {NoRequest},
         NEW n \in Nat, NEW id \in Nat, NEW e \in Entity, NEW d \in SUBSET Columns,
         pc' = [pc EXCEPT ![w] = p], req' = [req EXCEPT ![w] = r],
         pos' = [pos EXCEPT ![w] = n], rowId' = [rowId EXCEPT ![w] = id],
         ent' = [ent EXCEPT ![w] = e], dirty' = [dirty EXCEPT ![w] = d],
         DOMAIN entries \subseteq DOMAIN entries',
         \A i \in DOMAIN entries : entries[i].editedBy # Null => entries'[i].editedBy # Null,
         Phase(p, r, n, id, e, d, entries')
  PROVE  RequestsOK' /\ EntitiesOK' /\ WorkersOK'
<1>1. RequestsOK' /\ EntitiesOK'
  BY DEF TypeOK, RequestsOK, EntitiesOK
<1>2. ASSUME NEW v \in Workers
      PROVE  Phase(pc'[v], req'[v], pos'[v], rowId'[v], ent'[v], dirty'[v], entries')
  <2>1. CASE v = w
    <3>1. /\ pc'[v] = p /\ req'[v] = r /\ pos'[v] = n
          /\ rowId'[v] = id /\ ent'[v] = e /\ dirty'[v] = d
      BY <2>1 DEF TypeOK, RequestsOK, EntitiesOK
    <3> QED
      BY <3>1
  <2>2. CASE v # w
    <3>1. /\ pc'[v] = pc[v] /\ req'[v] = req[v] /\ pos'[v] = pos[v]
          /\ rowId'[v] = rowId[v] /\ ent'[v] = ent[v] /\ dirty'[v] = dirty[v]
      BY <2>2 DEF TypeOK, RequestsOK, EntitiesOK
    <3>2. Phase(pc[v], req[v], pos[v], rowId[v], ent[v], dirty[v], entries)
      BY DEF WorkersOK
    <3> QED
      BY <3>1, <3>2 DEF Phase
  <2> QED
    BY <2>1, <2>2
<1> QED
  BY <1>1, <1>2 DEF WorkersOK

-----------------------------------------------------------------------------
(* The inductive step, one lemma per action or group of actions. *)

(* Finish leaves the worker idle and free. *)
LEMMA FinishStep ==
  ASSUME TypeOK, WorkersOK, NEW w \in Workers, Finish(w),
         DOMAIN entries \subseteq DOMAIN entries',
         \A i \in DOMAIN entries : entries[i].editedBy # Null => entries'[i].editedBy # Null
  PROVE  RequestsOK' /\ EntitiesOK' /\ WorkersOK'
<1>1. Phase("idle", NoRequest, 0, 0, NoEntity, {}, entries')
  BY DEF Phase
<1>2. NoEntity \in Entity /\ {} \in SUBSET Columns
  BY NoEntityOK
<1> QED
  BY <1>1, <1>2, WorkerStep DEF Finish, Goto, DropEntity

(* What the start of a save() leaves the worker with. *)
LEMMA SaveStep ==
  ASSUME TypeOK, WorkersOK, NEW w \in Workers,
         NEW id \in Nat, NEW e \in Entity, NEW r,
         Save(w, id, e), UNCHANGED <<entries, pos>>,
         req' = [req EXCEPT ![w] = r],
         id # 0 => id \in DOMAIN entries,
         \/ r \in SyncRequest /\ ~e.manuallyEdited /\ e.editedBy = Undef
         \/ r \in UpdateRequest /\ e.editedBy \in Employees /\ e.manuallyEdited /\ id # 0
         \/ r \in ManualRequest /\ e.editedBy \in Employees /\ id = 0
  PROVE  RequestsOK' /\ EntitiesOK' /\ WorkersOK'
<1> DEFINE p == IF id = 0 THEN "insert" ELSE "reload"
<1>1. /\ pc' = [pc EXCEPT ![w] = p]
      /\ pos' = [pos EXCEPT ![w] = pos[w]]
      /\ dirty' = [dirty EXCEPT ![w] = dirty[w]]
      /\ pos[w] \in Nat /\ dirty[w] \in SUBSET Columns
  BY DEF Save, Goto, TypeOK, RequestsOK, EntitiesOK
<1>2. Phase(p, r, pos[w], id, e, dirty[w], entries')
  BY DEF Phase
<1> QED
  BY <1>1, <1>2, WorkerStep DEF Save

LEMMA StartSyncStep ==
  ASSUME IInv, NEW w \in Workers, NEW r \in SyncRequests, StartSync(w, r)
  PROVE  IInv'
<1>1. /\ rowId' = [rowId EXCEPT ![w] = rowId[w]] /\ rowId[w] \in Nat
      /\ ent' = [ent EXCEPT ![w] = ent[w]] /\ ent[w] \in Entity
      /\ dirty' = [dirty EXCEPT ![w] = dirty[w]] /\ dirty[w] \in SUBSET Columns
  BY DEF IInv, TypeOK, EntitiesOK, StartSync, KeepEntity
<1>2. Phase("next", r, 1, rowId[w], ent[w], dirty[w], entries')
  BY InputsAssumption DEF Phase
<1>3. RequestsOK' /\ EntitiesOK' /\ WorkersOK'
  BY <1>1, <1>2, WorkerStep, InputsAssumption DEF StartSync, Goto, db, IInv
<1> QED
  BY <1>3 DEF IInv, TypeOK, StartSync, db, EntriesOK, AuditsOK

(* sync() going on to the next item, with entity e or none *)
LEMMA NextItemStep ==
  ASSUME TypeOK, WorkersOK, NEW w \in Workers, req[w] \in SyncRequest,
         NextItem(w), UNCHANGED req,
         NEW id \in Nat, NEW e \in Entity, NEW d \in SUBSET Columns,
         rowId' = [rowId EXCEPT ![w] = id], ent' = [ent EXCEPT ![w] = e],
         dirty' = [dirty EXCEPT ![w] = d],
         DOMAIN entries \subseteq DOMAIN entries',
         \A i \in DOMAIN entries : entries[i].editedBy # Null => entries'[i].editedBy # Null
  PROVE  RequestsOK' /\ EntitiesOK' /\ WorkersOK'
<1> DEFINE n == pos[w] + 1
<1>1. n \in Nat \ {0} /\ pos' = [pos EXCEPT ![w] = n]
  BY DEF TypeOK, RequestsOK, NextItem
<1> HIDE DEF n
<1>2. pc' = [pc EXCEPT ![w] = "next"] /\ req' = [req EXCEPT ![w] = req[w]]
  BY DEF TypeOK, RequestsOK, NextItem, Goto
<1>3. Phase("next", req[w], n, id, e, d, entries')
  BY <1>1 DEF Phase
<1> QED
  BY <1>1, <1>2, <1>3, WorkerStep

(* sync() passing over an item *)
LEMMA SkipStep ==
  ASSUME IInv, NEW w \in Workers, SkipForeign(w) \/ SkipCorrected(w)
  PROVE  IInv'
<1>1. /\ rowId' = [rowId EXCEPT ![w] = rowId[w]] /\ rowId[w] \in Nat
      /\ ent' = [ent EXCEPT ![w] = ent[w]] /\ ent[w] \in Entity
      /\ dirty' = [dirty EXCEPT ![w] = dirty[w]] /\ dirty[w] \in SUBSET Columns
      /\ UNCHANGED <<entries, audits, archived, req, failures>>
  BY DEF IInv, TypeOK, EntitiesOK, SkipForeign, SkipCorrected, KeepEntity, db
<1>2. NextItem(w)
  BY DEF SkipForeign, SkipCorrected
<1>3. req[w] \in SyncRequest
  BY DEF IInv, WorkersOK, Phase, SkipForeign, SkipCorrected, InBatch
<1>4. RequestsOK' /\ EntitiesOK' /\ WorkersOK'
  BY <1>1, <1>2, <1>3, NextItemStep DEF IInv
<1> QED
  BY <1>1, <1>4 DEF IInv, TypeOK, EntriesOK, AuditsOK

(* The current item of a batch *)
LEMMA CurrentItem ==
  ASSUME IInv, NEW w \in Workers, InBatch(w)
  PROVE  Current(w) \in Item /\ req[w] \in SyncRequest
<1>1. req[w] \in SyncRequest /\ pos[w] \in Nat \ {0}
  BY DEF IInv, WorkersOK, Phase, InBatch
<1>2. req[w].batch \in Seq(Item) /\ pos[w] \in 1 .. Len(req[w].batch)
  BY <1>1 DEF SyncRequest, InBatch
<1> QED
  BY <1>1, <1>2 DEF Current

(* sync() finding the row of an item, or none *)
LEMMA FindStep ==
  ASSUME IInv, NEW w \in Workers, FindTracked(w) \/ FindNothing(w)
  PROVE  IInv'
<1>1. InBatch(w) /\ UNCHANGED <<entries, audits, archived, req, pos, failures>>
  BY DEF FindTracked, FindNothing, db
<1>2. Current(w) \in Item /\ req[w] \in SyncRequest
  BY <1>1, CurrentItem
<1>3. req' = [req EXCEPT ![w] = req[w]]
  BY <1>1 DEF IInv, TypeOK, RequestsOK
<1>4. CASE FindTracked(w)
  <2>1. PICK id \in RowsOf(Current(w).localId) :
           Save(w, id, MergeItem(Current(w), entries[id].end, entries[id].duration))
    BY <1>4 DEF FindTracked
  <2> DEFINE e == MergeItem(Current(w), entries[id].end, entries[id].duration)
  <2>2. id \in DOMAIN entries /\ id \in Nat /\ id # 0 /\ entries[id] \in Row
    BY DEF RowsOf, IInv, TypeOK, EntriesOK
  <2>3. e \in Entity /\ ~e.manuallyEdited /\ e.editedBy = Undef
    BY <1>2, <2>2, MergedEntity DEF Row
  <2> HIDE DEF e
  <2>4. RequestsOK' /\ EntitiesOK' /\ WorkersOK'
    BY <1>1, <1>2, <1>3, <2>1, <2>2, <2>3, SaveStep DEF IInv, e
  <2> QED
    BY <1>1, <2>4 DEF IInv, TypeOK, EntriesOK, AuditsOK
<1>5. CASE FindNothing(w)
  <2> DEFINE e == MergeItem(Current(w), Undef, 0)
  <2>1. e \in Entity /\ ~e.manuallyEdited /\ e.editedBy = Undef
    BY <1>2, MergedEntity
  <2>2. Save(w, 0, e)
    BY <1>5 DEF FindNothing
  <2> HIDE DEF e
  <2>3. RequestsOK' /\ EntitiesOK' /\ WorkersOK'
    BY <1>1, <1>2, <1>3, <2>1, <2>2, SaveStep DEF IInv
  <2> QED
    BY <1>1, <2>3 DEF IInv, TypeOK, EntriesOK, AuditsOK
<1> QED
  BY <1>4, <1>5

(* Answers and failures that leave the tables alone *)
LEMMA EndStep ==
  ASSUME IInv, NEW w \in Workers,
         SyncRespond(w) \/ TaskNotFound(w) \/ Rejected(w) \/ Fail(w)
  PROVE  IInv'
<1>1. /\ Finish(w) /\ UNCHANGED <<entries, audits, archived>>
      /\ failures \in Nat /\ failures' \in Nat
  BY DEF IInv, TypeOK, SyncRespond, TaskNotFound, Rejected, Fail, db
<1>2. RequestsOK' /\ EntitiesOK' /\ WorkersOK'
  BY <1>1, FinishStep DEF IInv
<1> QED
  BY <1>1, <1>2 DEF IInv, TypeOK, EntriesOK, AuditsOK

LEMMA StartManualStep ==
  ASSUME IInv, NEW w \in Workers, NEW u \in Editors, NEW dto \in ManualDtos,
         StartManual(w, u, dto)
  PROVE  IInv'
<1> DEFINE r == [kind |-> "manual", sub |-> u, dto |-> dto, previous |-> 0]
<1>1. r \in ManualRequest
  BY IdsAssumption, InputsAssumption DEF ManualRequest
<1>2. /\ rowId' = [rowId EXCEPT ![w] = rowId[w]] /\ rowId[w] \in Nat
      /\ ent' = [ent EXCEPT ![w] = ent[w]] /\ ent[w] \in Entity
      /\ dirty' = [dirty EXCEPT ![w] = dirty[w]] /\ dirty[w] \in SUBSET Columns
      /\ pos' = [pos EXCEPT ![w] = pos[w]] /\ pos[w] \in Nat
  BY DEF IInv, TypeOK, EntitiesOK, RequestsOK, StartManual, KeepEntity
<1>3. /\ pc' = [pc EXCEPT ![w] = "manualTask"] /\ req' = [req EXCEPT ![w] = r]
      /\ UNCHANGED <<entries, audits, archived, failures>>
  BY DEF StartManual, Goto, db
<1> HIDE DEF r
<1>4. Phase("manualTask", r, pos[w], rowId[w], ent[w], dirty[w], entries')
  BY <1>1 DEF Phase
<1>5. RequestsOK' /\ EntitiesOK' /\ WorkersOK'
  BY <1>1, <1>2, <1>3, <1>4, WorkerStep DEF IInv
<1> QED
  BY <1>3, <1>5 DEF IInv, TypeOK, EntriesOK, AuditsOK

LEMMA BuildManualStep ==
  ASSUME IInv, NEW w \in Workers, BuildManual(w)
  PROVE  IInv'
<1>1. PICK l \in ManualIds : Save(w, 0, ManualEntity(l, req[w].sub, req[w].dto))
  BY DEF BuildManual, FreshManualIds
<1>2. req[w] \in ManualRequest
  BY DEF BuildManual, IInv, WorkersOK, Phase
<1>3. UNCHANGED <<entries, audits, archived, req, pos, failures>>
  BY DEF BuildManual, db
<1> DEFINE e == ManualEntity(l, req[w].sub, req[w].dto)
<1>4. e \in Entity /\ e.editedBy \in Employees
  BY <1>2, ManualEntityOK DEF ManualRequest
<1> HIDE DEF e
<1>5. req' = [req EXCEPT ![w] = req[w]]
  BY <1>3 DEF IInv, TypeOK, RequestsOK
<1>6. RequestsOK' /\ EntitiesOK' /\ WorkersOK'
  BY <1>1, <1>2, <1>3, <1>4, <1>5, SaveStep DEF IInv, e
<1> QED
  BY <1>3, <1>6 DEF IInv, TypeOK, EntriesOK, AuditsOK

LEMMA StartUpdateStep ==
  ASSUME IInv, NEW w \in Workers, NEW u \in Editors, NEW id \in DOMAIN entries,
         NEW dto \in UpdateDtos, StartUpdate(w, u, id, dto)
  PROVE  IInv'
<1> DEFINE r == [kind |-> "update", sub |-> u, dto |-> dto,
                 previous |-> entries[id].duration]
<1>1. /\ entries[id] \in Row /\ id \in Nat /\ id # 0
      /\ dto \in UpdateDto /\ u \in Employees
  BY IdsAssumption, InputsAssumption DEF IInv, TypeOK, EntriesOK
<1>2. r \in UpdateRequest
  BY <1>1 DEF UpdateRequest, Row
<1>3. /\ req' = [req EXCEPT ![w] = r]
      /\ UNCHANGED <<entries, audits, archived, pos, failures>>
  BY DEF StartUpdate, db
<1> HIDE DEF r
<1>4. RequestsOK' /\ EntitiesOK' /\ WorkersOK'
  <2>1. CASE dto.task = Undef
    <3> DEFINE e == Correct(Loaded(entries[id]), dto, u)
    <3>1. e \in Entity /\ e.editedBy \in Employees /\ e.manuallyEdited
      BY <1>1, LoadedEntity, CorrectEntity
    <3>2. Save(w, id, e)
      BY <2>1 DEF StartUpdate
    <3> HIDE DEF e
    <3> QED
      BY <1>1, <1>2, <1>3, <3>1, <3>2, SaveStep DEF IInv
  <2>2. CASE dto.task # Undef
    <3> DEFINE e == Loaded(entries[id])
    <3>1. /\ pc' = [pc EXCEPT ![w] = "updateTask"] /\ ent' = [ent EXCEPT ![w] = e]
          /\ rowId' = [rowId EXCEPT ![w] = id]
          /\ dirty' = [dirty EXCEPT ![w] = dirty[w]] /\ dirty[w] \in SUBSET Columns
          /\ pos' = [pos EXCEPT ![w] = pos[w]] /\ pos[w] \in Nat
      BY <1>3, <2>2 DEF StartUpdate, Goto, IInv, TypeOK, EntitiesOK, RequestsOK
    <3>2. e \in Entity
      BY <1>1, LoadedEntity
    <3> HIDE DEF e
    <3>3. Phase("updateTask", r, pos[w], id, e, dirty[w], entries')
      BY <1>2, <1>3 DEF Phase
    <3> QED
      BY <1>1, <1>2, <1>3, <3>1, <3>2, <3>3, WorkerStep DEF IInv
  <2> QED
    BY <2>1, <2>2
<1> QED
  BY <1>3, <1>4 DEF IInv, TypeOK, EntriesOK, AuditsOK

LEMMA ApplyUpdateStep ==
  ASSUME IInv, NEW w \in Workers, ApplyUpdate(w)
  PROVE  IInv'
<1> DEFINE e == Correct(ent[w], req[w].dto, req[w].sub)
<1>1. req[w] \in UpdateRequest /\ rowId[w] \in DOMAIN entries
  BY DEF ApplyUpdate, IInv, WorkersOK, Phase
<1>2. e \in Entity /\ e.editedBy \in Employees /\ e.manuallyEdited
  BY <1>1, CorrectEntity DEF UpdateRequest, IInv, TypeOK, EntitiesOK
<1>3. Save(w, rowId[w], e) /\ UNCHANGED <<entries, audits, archived, req, pos, failures>>
  BY DEF ApplyUpdate, db
<1>4. /\ req' = [req EXCEPT ![w] = req[w]]
      /\ rowId[w] \in Nat /\ rowId[w] # 0
  BY <1>1, <1>3 DEF IInv, TypeOK, RequestsOK, EntriesOK
<1> HIDE DEF e
<1>5. RequestsOK' /\ EntitiesOK' /\ WorkersOK'
  BY <1>1, <1>2, <1>3, <1>4, SaveStep DEF IInv
<1> QED
  BY <1>3, <1>5 DEF IInv, TypeOK, EntriesOK, AuditsOK

(* save(): the second read.  For a correction either the editor is among   *)
(* the columns to write or the row already names one.                      *)
LEMMA ReloadStep ==
  ASSUME IInv, NEW w \in Workers, Reload(w)
  PROVE  IInv'
<1> DEFINE d == Dirty(ent[w], entries[rowId[w]], Columns)
<1>1. Phase("reload", req[w], pos[w], rowId[w], ent[w], dirty[w], entries)
  BY DEF Reload, IInv, WorkersOK
<1>2. /\ d \in SUBSET Columns /\ \A c \in d : ent[w][c] # Undef
      /\ ent[w].editedBy # Undef => "editedBy" \in d \/ entries[rowId[w]].editedBy = ent[w].editedBy
  BY DEF Dirty, Columns
<1>3. /\ pc' = [pc EXCEPT ![w] = "write"] /\ req' = [req EXCEPT ![w] = req[w]]
      /\ pos' = [pos EXCEPT ![w] = pos[w]] /\ rowId' = [rowId EXCEPT ![w] = rowId[w]]
      /\ ent' = [ent EXCEPT ![w] = ent[w]] /\ dirty' = [dirty EXCEPT ![w] = d]
      /\ pos[w] \in Nat /\ rowId[w] \in Nat /\ ent[w] \in Entity
      /\ req[w] \in SyncRequest \cup UpdateRequest \cup ManualRequest \cup {NoRequest}
      /\ UNCHANGED <<entries, audits, archived, failures>>
  BY DEF Reload, Goto, db, IInv, TypeOK, RequestsOK, EntitiesOK
<1> HIDE DEF d
<1>4. Phase("write", req[w], pos[w], rowId[w], ent[w], d, entries')
  <2>1. ent[w].editedBy \in Employees => ent[w].editedBy # Undef /\ ent[w].editedBy # Null
    BY IdsAssumption
  <2>2. req[w] \in UpdateRequest => ent[w].editedBy \in Employees
    BY <1>1, Kinds DEF Phase
  <2> QED
    BY <1>1, <1>2, <1>3, <2>1, <2>2 DEF Phase
<1>5. RequestsOK' /\ EntitiesOK' /\ WorkersOK'
  BY <1>2, <1>3, <1>4, WorkerStep DEF IInv
<1> QED
  BY <1>3, <1>5 DEF IInv, TypeOK, EntriesOK, AuditsOK

(* What a successful save() leaves the worker with. *)
LEMMA AfterSaveStep ==
  ASSUME TypeOK, WorkersOK, NEW w \in Workers, NEW id \in DOMAIN entries', id \in Nat,
         AfterSave(w, id), UNCHANGED req,
         \/ req[w] \in SyncRequest
         \/ /\ req[w] \in UpdateRequest \cup ManualRequest
            /\ entries'[id].editedBy # Null,
         DOMAIN entries \subseteq DOMAIN entries',
         \A i \in DOMAIN entries : entries[i].editedBy # Null => entries'[i].editedBy # Null
  PROVE  RequestsOK' /\ EntitiesOK' /\ WorkersOK'
<1>1. CASE req[w] \in SyncRequest
  <2>1. NextItem(w) /\ DropEntity(w)
    BY <1>1, Kinds DEF AfterSave, Kind
  <2> QED
    BY <1>1, <2>1, NextItemStep, NoEntityOK DEF DropEntity
<1>2. CASE req[w] \in UpdateRequest \cup ManualRequest
  <2>1. req[w] \notin SyncRequest /\ Kind(w) # "sync"
    BY <1>2, Kinds DEF Kind
  <2>2. /\ pc' = [pc EXCEPT ![w] = "audit"] /\ req' = [req EXCEPT ![w] = req[w]]
        /\ pos' = [pos EXCEPT ![w] = pos[w]] /\ rowId' = [rowId EXCEPT ![w] = id]
        /\ ent' = [ent EXCEPT ![w] = ent[w]] /\ dirty' = [dirty EXCEPT ![w] = dirty[w]]
        /\ pos[w] \in Nat /\ ent[w] \in Entity /\ dirty[w] \in SUBSET Columns
    BY <2>1 DEF AfterSave, Goto, TypeOK, RequestsOK, EntitiesOK
  <2>3. Phase("audit", req[w], pos[w], id, ent[w], dirty[w], entries')
    BY <1>2, <2>1 DEF Phase
  <2> QED
    BY <1>2, <2>2, <2>3, WorkerStep
<1> QED
  BY <1>1, <1>2

(* The INSERT *)
LEMMA InsertStep ==
  ASSUME IInv, NEW w \in Workers, Insert(w)
  PROVE  IInv'
<1> DEFINE n == Len(entries) + 1
           row == NewRow(ent[w])
<1>1. /\ entries \in Seq(Row) /\ ent[w] \in Entity /\ LinksValid(ent[w])
      /\ entries' = Append(entries, row) /\ AfterSave(w, n)
      /\ UNCHANGED <<audits, archived, req, failures>>
  BY DEF Insert, Accepts, IInv, TypeOK, EntriesOK, EntitiesOK
<1>2. row \in Row /\ (ent[w].editedBy \in Employees => row.editedBy \in Employees)
  BY <1>1, NewRowOK
<1> HIDE DEF row
<1>3. /\ entries' \in Seq(Row) /\ n \in DOMAIN entries' /\ n \in Nat
      /\ DOMAIN entries \subseteq DOMAIN entries'
      /\ \A i \in DOMAIN entries : entries'[i] = entries[i]
      /\ entries'[n] = row
  BY <1>1, <1>2
<1>4. \/ req[w] \in SyncRequest
      \/ req[w] \in ManualRequest /\ ent[w].editedBy \in Employees
  BY DEF Insert, IInv, WorkersOK, Phase
<1> HIDE DEF n
<1>5. RequestsOK' /\ EntitiesOK' /\ WorkersOK'
  BY <1>1, <1>2, <1>3, <1>4, IdsAssumption, AfterSaveStep DEF IInv
<1> QED
  BY <1>1, <1>3, <1>5 DEF IInv, TypeOK, EntriesOK, AuditsOK

(* The UPDATE never takes a row's editor away: sync() does not write the   *)
(* column, and a correction writes its own editor there.                   *)
LEMMA WriteRow ==
  ASSUME IInv, NEW w \in Workers, Write(w)
  PROVE  LET row == Updated(entries[rowId[w]], ent[w], dirty[w])
         IN  /\ rowId[w] \in DOMAIN entries
             /\ entries' = [entries EXCEPT ![rowId[w]] = row]
             /\ row \in Row
             /\ row.localId = entries[rowId[w]].localId
             /\ entries[rowId[w]].editedBy # Null => row.editedBy # Null
             /\ \/ req[w] \in SyncRequest /\ (row.manuallyEdited => entries[rowId[w]].manuallyEdited)
                \/ /\ req[w] \in UpdateRequest /\ row.editedBy # Null
                   /\ entries[rowId[w]].manuallyEdited => row.manuallyEdited
<1> DEFINE old == entries[rowId[w]]
           row == Updated(old, ent[w], dirty[w])
<1>1. Phase("write", req[w], pos[w], rowId[w], ent[w], dirty[w], entries)
  BY DEF Write, IInv, WorkersOK
<1>2. /\ rowId[w] \in DOMAIN entries /\ old \in Row /\ ent[w] \in Entity
      /\ dirty[w] \in SUBSET Columns /\ LinksValid(row)
      /\ entries' = [entries EXCEPT ![rowId[w]] = row]
      /\ \A c \in dirty[w] : ent[w][c] # Undef
  BY <1>1 DEF Phase, Write, IInv, TypeOK, EntriesOK, EntitiesOK
<1>3. row \in Row /\ row.localId = old.localId
  BY <1>2, UpdatedRowOK
<1>4. /\ row.editedBy = IF "editedBy" \in dirty[w] THEN ent[w].editedBy ELSE old.editedBy
      /\ row.manuallyEdited =
            IF "manuallyEdited" \in dirty[w] THEN ent[w].manuallyEdited ELSE old.manuallyEdited
  BY UpdatedColumns
<1>5. "editedBy" \in dirty[w] => ent[w].editedBy # Undef
  <2> DEFINE e == ent[w]
  <2>1. "editedBy" \in dirty[w] => e["editedBy"] # Undef
    BY <1>2
  <2> QED
    BY <2>1
<1>6. CASE req[w] \in SyncRequest
  <2>1. ~ent[w].manuallyEdited /\ ent[w].editedBy = Undef
    BY <1>1, <1>6, Kinds DEF Phase
  <2> QED
    BY <1>2, <1>3, <1>4, <1>5, <1>6, <2>1
<1>7. CASE req[w] \in UpdateRequest
  <2>1. /\ ent[w].editedBy \in Employees /\ ent[w].editedBy # Null /\ ent[w].manuallyEdited
        /\ "editedBy" \in dirty[w] \/ old.editedBy # Null
    BY <1>1, <1>7, Kinds, IdsAssumption DEF Phase
  <2> QED
    BY <1>2, <1>3, <1>4, <1>7, <2>1
<1> QED
  BY <1>1, <1>6, <1>7 DEF Phase

LEMMA WriteStep ==
  ASSUME IInv, NEW w \in Workers, Write(w)
  PROVE  IInv'
<1> DEFINE row == Updated(entries[rowId[w]], ent[w], dirty[w])
<1>1. /\ entries \in Seq(Row) /\ AfterSave(w, rowId[w])
      /\ UNCHANGED <<audits, archived, req, failures>>
  BY DEF Write, IInv, TypeOK, EntriesOK
<1>2. /\ rowId[w] \in DOMAIN entries
      /\ entries' = [entries EXCEPT ![rowId[w]] = row]
      /\ row \in Row
      /\ entries[rowId[w]].editedBy # Null => row.editedBy # Null
      /\ req[w] \in SyncRequest \/ (req[w] \in UpdateRequest /\ row.editedBy # Null)
  BY WriteRow
<1> HIDE DEF row
<1>3. /\ entries' \in Seq(Row) /\ DOMAIN entries' = DOMAIN entries
      /\ entries'[rowId[w]] = row /\ rowId[w] \in Nat
      /\ \A i \in DOMAIN entries : entries[i].editedBy # Null => entries'[i].editedBy # Null
  BY <1>1, <1>2
<1>4. RequestsOK' /\ EntitiesOK' /\ WorkersOK'
  BY <1>1, <1>2, <1>3, AfterSaveStep DEF IInv
<1> QED
  BY <1>1, <1>3, <1>4 DEF IInv, TypeOK, EntriesOK, AuditsOK

LEMMA WriteAuditStep ==
  ASSUME IInv, NEW w \in Workers, WriteAudit(w)
  PROVE  IInv'
<1>1. Finish(w) /\ UNCHANGED <<entries, archived, failures>>
  BY DEF WriteAudit
<1>2. RequestsOK' /\ EntitiesOK' /\ WorkersOK'
  BY <1>1, FinishStep DEF IInv
<1>3. audits' \in Seq(AuditRow)
  <2> DEFINE a == [entry |-> rowId[w], editedBy |-> req[w].sub,
                   previous |-> req[w].previous, new |-> ent[w].duration]
  <2>1. req[w] \in UpdateRequest \cup ManualRequest
    BY DEF WriteAudit, IInv, WorkersOK, Phase
  <2>2. req[w].sub \in Employees /\ req[w].previous \in Nat
    BY <2>1 DEF UpdateRequest, ManualRequest
  <2>3. rowId[w] \in Nat /\ ent[w].duration \in Nat
    BY DEF IInv, TypeOK, EntitiesOK, Entity
  <2>4. a \in AuditRow
    BY <2>2, <2>3 DEF AuditRow
  <2> HIDE DEF a
  <2>5. audits' = Append(audits, a) /\ audits \in Seq(AuditRow)
    BY DEF WriteAudit, Audit, a, IInv, TypeOK, AuditsOK
  <2> QED
    BY <2>4, <2>5
<1> QED
  BY <1>1, <1>2, <1>3 DEF IInv, TypeOK, EntriesOK, AuditsOK

LEMMA EnvironmentStep ==
  ASSUME IInv, NEW x \in Archivable, Archive(x) \/ Restore(x)
  PROVE  IInv'
<1>1. archived' \subseteq Archivable
  BY DEF IInv, TypeOK, Archive, Restore
<1>2. UNCHANGED <<entries, audits, pc, req, pos, rowId, ent, dirty, failures>>
  BY DEF Archive, Restore, db
<1> QED
  BY <1>1, <1>2 DEF IInv, TypeOK, EntriesOK, AuditsOK, RequestsOK, EntitiesOK, WorkersOK

LEMMA InitInv == Init => IInv
<1> SUFFICES ASSUME Init PROVE IInv
  OBVIOUS
<1>1. TypeOK
  BY NoEntityOK DEF Init, TypeOK, EntriesOK, AuditsOK, RequestsOK, EntitiesOK
<1>2. WorkersOK
  BY DEF Init, WorkersOK, Phase
<1> QED
  BY <1>1, <1>2 DEF IInv

LEMMA NextInv == IInv /\ [Next]_vars => IInv'
<1> SUFFICES ASSUME IInv, [Next]_vars PROVE IInv'
  OBVIOUS
<1>1. CASE UNCHANGED vars
  BY <1>1 DEF vars, IInv, TypeOK, EntriesOK, AuditsOK, RequestsOK, EntitiesOK, WorkersOK
<1>2. ASSUME NEW w \in Workers, Arrive(w) PROVE IInv'
  BY <1>2, StartSyncStep, StartManualStep, StartUpdateStep DEF Arrive
<1>3. ASSUME NEW w \in Workers, Serve(w) PROVE IInv'
  BY <1>3, SkipStep, FindStep, EndStep, BuildManualStep, ApplyUpdateStep, InsertStep,
     ReloadStep, WriteStep, WriteAuditStep DEF Serve
<1>4. ASSUME NEW w \in Workers, Fail(w) PROVE IInv'
  BY <1>4, EndStep
<1>5. ASSUME NEW x \in Archivable, Archive(x) \/ Restore(x) PROVE IInv'
  BY <1>5, EnvironmentStep
<1> QED
  BY <1>1, <1>2, <1>3, <1>4, <1>5 DEF Next

THEOREM Invariance == Spec => []IInv
BY InitInv, NextInv, PTL DEF Spec

(* Every reachable state is well typed; above all, no save() ever leaves a *)
(* time entry without an existing employee and task.                       *)
THEOREM TypeCorrect == Spec => []TypeOK
<1>1. IInv => TypeOK
  BY DEF IInv
<1> QED
  BY <1>1, Invariance, PTL

-----------------------------------------------------------------------------
(* Which steps change the tables. *)

LEMMA EntriesChange ==
  ASSUME [Next]_vars
  PROVE  \/ entries' = entries
         \/ \E w \in Workers : Insert(w) \/ Write(w)
<1>1. ASSUME NEW w \in Workers, Arrive(w) PROVE entries' = entries
  BY <1>1 DEF Arrive, StartSync, StartManual, StartUpdate, db
<1>2. ASSUME NEW w \in Workers, Serve(w), ~Insert(w), ~Write(w) PROVE entries' = entries
  BY <1>2 DEF Serve, SkipForeign, SkipCorrected, FindTracked, FindNothing, SyncRespond,
     BuildManual, ApplyUpdate, TaskNotFound, Reload, Rejected, WriteAudit, db
<1>3. ASSUME NEW w \in Workers, Fail(w) PROVE entries' = entries
  BY <1>3 DEF Fail, db
<1>4. ASSUME NEW x \in Archivable, Archive(x) \/ Restore(x) PROVE entries' = entries
  BY <1>4 DEF Archive, Restore, db
<1>5. CASE UNCHANGED vars
  BY <1>5 DEF vars
<1> QED
  BY <1>1, <1>2, <1>3, <1>4, <1>5 DEF Next

LEMMA AuditsChange ==
  ASSUME [Next]_vars
  PROVE  audits' = audits \/ \E w \in Workers : WriteAudit(w)
<1>1. ASSUME NEW w \in Workers, Arrive(w) PROVE audits' = audits
  BY <1>1 DEF Arrive, StartSync, StartManual, StartUpdate, db
<1>2. ASSUME NEW w \in Workers, Serve(w), ~WriteAudit(w) PROVE audits' = audits
  BY <1>2 DEF Serve, SkipForeign, SkipCorrected, FindTracked, FindNothing, SyncRespond,
     BuildManual, ApplyUpdate, TaskNotFound, Reload, Rejected, Insert, Write, db
<1>3. ASSUME NEW w \in Workers, Fail(w) PROVE audits' = audits
  BY <1>3 DEF Fail, db
<1>4. ASSUME NEW x \in Archivable, Archive(x) \/ Restore(x) PROVE audits' = audits
  BY <1>4 DEF Archive, Restore, db
<1>5. CASE UNCHANGED vars
  BY <1>5 DEF vars
<1> QED
  BY <1>1, <1>2, <1>3, <1>4, <1>5 DEF Next

(* The table after an INSERT or an UPDATE, row by row. *)
LEMMA InsertRows ==
  ASSUME IInv, NEW w \in Workers, Insert(w)
  PROVE  /\ DOMAIN entries' = DOMAIN entries \cup {Len(entries) + 1}
         /\ Len(entries) + 1 \notin DOMAIN entries
         /\ entries'[Len(entries) + 1] = NewRow(ent[w])
         /\ \A i \in DOMAIN entries : entries'[i] = entries[i]
<1>1. /\ entries \in Seq(Row) /\ ent[w] \in Entity /\ LinksValid(ent[w])
      /\ entries' = Append(entries, NewRow(ent[w]))
  BY DEF Insert, Accepts, IInv, TypeOK, EntriesOK, EntitiesOK
<1>2. NewRow(ent[w]) \in Row
  BY <1>1, NewRowOK
<1> QED
  BY <1>1, <1>2

LEMMA WriteRows ==
  ASSUME IInv, NEW w \in Workers, Write(w)
  PROVE  /\ DOMAIN entries' = DOMAIN entries
         /\ rowId[w] \in DOMAIN entries
         /\ entries'[rowId[w]] = Updated(entries[rowId[w]], ent[w], dirty[w])
         /\ \A i \in DOMAIN entries : i # rowId[w] => entries'[i] = entries[i]
BY WriteRow DEF IInv, TypeOK, EntriesOK

(* The localId of a row never changes. *)
LEMMA LocalIdsStay ==
  ASSUME IInv, [Next]_vars, NEW i \in DOMAIN entries
  PROVE  i \in DOMAIN entries' /\ entries'[i].localId = entries[i].localId
<1>1. ASSUME NEW w \in Workers, Write(w)
      PROVE  i \in DOMAIN entries' /\ entries'[i].localId = entries[i].localId
  BY <1>1, WriteRow, WriteRows
<1> QED
  BY <1>1, EntriesChange, InsertRows

-----------------------------------------------------------------------------
(* Retried and overlapping syncs never leave two rows of one localId.      *)
THEOREM EntryIdsStayUnique == Spec => []EntryIdsUnique
<1>1. Init => EntryIdsUnique
  BY DEF Init, EntryIdsUnique
<1>2. IInv /\ EntryIdsUnique /\ [Next]_vars => EntryIdsUnique'
  <2> SUFFICES ASSUME IInv, EntryIdsUnique, [Next]_vars PROVE EntryIdsUnique'
    OBVIOUS
  <2>1. CASE entries' = entries
    BY <2>1 DEF EntryIdsUnique
  <2>2. ASSUME NEW w \in Workers, Insert(w) PROVE EntryIdsUnique'
    <3>1. /\ ent[w] \in Entity /\ LinksValid(ent[w])
          /\ \A i \in DOMAIN entries : entries[i].localId # ent[w].localId
      BY <2>2 DEF Insert, Accepts, LocalIdFree, RowsOf, IInv, TypeOK, EntitiesOK
    <3>2. NewRow(ent[w]).localId = ent[w].localId
      BY <3>1, NewRowOK
    <3> QED
      BY <2>2, <3>1, <3>2, InsertRows DEF EntryIdsUnique
  <2>3. ASSUME NEW w \in Workers, Write(w) PROVE EntryIdsUnique'
    <3>1. \A i \in DOMAIN entries : entries'[i].localId = entries[i].localId
      BY <2>3, WriteRow, WriteRows
    <3> QED
      BY <2>3, <3>1, WriteRows DEF EntryIdsUnique
  <2> QED
    BY <2>1, <2>2, <2>3, EntriesChange
<1> QED
  BY <1>1, <1>2, Invariance, PTL DEF Spec

(* However requests interleave and fail, the history only reports stored   *)
(* corrections, and a corrected row names its editor.                      *)
THEOREM EditTrailKept == Spec => []EditTrail
<1>1. Init => EditTrail
  BY DEF Init, EditTrail
<1>2. IInv /\ EditTrail /\ [Next]_vars => EditTrail'
  <2> SUFFICES ASSUME IInv, EditTrail, [Next]_vars PROVE EditTrail'
    OBVIOUS
  <2>1. /\ DOMAIN entries \subseteq DOMAIN entries'
        /\ \A i \in DOMAIN entries : entries[i].editedBy # Null => entries'[i].editedBy # Null
    BY EntriesChange, InsertRows, WriteRow, WriteRows
  <2>2. \A k \in DOMAIN audits' : /\ audits'[k].entry \in DOMAIN entries'
                                  /\ entries'[audits'[k].entry].editedBy # Null
    <3>1. CASE audits' = audits
      BY <2>1, <3>1 DEF EditTrail
    <3>2. ASSUME NEW w \in Workers, WriteAudit(w)
          PROVE  \A k \in DOMAIN audits' : /\ audits'[k].entry \in DOMAIN entries'
                                           /\ entries'[audits'[k].entry].editedBy # Null
      <4> DEFINE a == [entry |-> rowId[w], editedBy |-> req[w].sub,
                       previous |-> req[w].previous, new |-> ent[w].duration]
      <4>1. rowId[w] \in DOMAIN entries /\ entries[rowId[w]].editedBy # Null
        BY <3>2 DEF WriteAudit, IInv, WorkersOK, Phase
      <4>2. a.entry = rowId[w]
        OBVIOUS
      <4>3. audits' = Append(audits, a) /\ audits \in Seq(AuditRow)
        BY <3>2 DEF WriteAudit, Audit, IInv, TypeOK, AuditsOK
      <4> HIDE DEF a
      <4>4. \A k \in DOMAIN audits' : audits'[k] = a \/ (k \in DOMAIN audits /\ audits'[k] = audits[k])
        BY <4>3
      <4> QED
        BY <2>1, <4>1, <4>2, <4>4 DEF EditTrail
    <3> QED
      BY <3>1, <3>2, AuditsChange
  <2>3. \A i \in DOMAIN entries' : entries'[i].manuallyEdited => entries'[i].editedBy # Null
    <3>1. CASE entries' = entries
      BY <3>1 DEF EditTrail
    <3>2. ASSUME NEW w \in Workers, Insert(w)
          PROVE  \A i \in DOMAIN entries' : entries'[i].manuallyEdited => entries'[i].editedBy # Null
      <4>1. \/ ~ent[w].manuallyEdited
            \/ ent[w].editedBy \in Employees
        BY <3>2 DEF Insert, IInv, WorkersOK, Phase
      <4>2. ent[w] \in Entity /\ LinksValid(ent[w])
        BY <3>2 DEF Insert, Accepts, IInv, TypeOK, EntitiesOK
      <4>3. NewRow(ent[w]).manuallyEdited => NewRow(ent[w]).editedBy # Null
        BY <4>1, <4>2, NewRowOK, IdsAssumption
      <4> QED
        BY <3>2, <4>3, InsertRows DEF EditTrail
    <3>3. ASSUME NEW w \in Workers, Write(w)
          PROVE  \A i \in DOMAIN entries' : entries'[i].manuallyEdited => entries'[i].editedBy # Null
      <4> DEFINE row == Updated(entries[rowId[w]], ent[w], dirty[w])
      <4>1. row.manuallyEdited => row.editedBy # Null
        BY <3>3, WriteRow DEF EditTrail
      <4> HIDE DEF row
      <4> QED
        BY <3>3, <4>1, WriteRows DEF EditTrail, row
    <3> QED
      BY <3>1, <3>2, <3>3, EntriesChange
  <2> QED
    BY <2>2, <2>3 DEF EditTrail
<1> QED
  BY <1>1, <1>2, Invariance, PTL DEF Spec

-----------------------------------------------------------------------------
(* Syncs in flight and corrections. *)

(* A step of one worker leaves the others where they are. *)
Elsewhere(w) ==
    \A v \in Workers \ {w} : /\ pc'[v] = pc[v] /\ req'[v] = req[v] /\ pos'[v] = pos[v]
                             /\ rowId'[v] = rowId[v] /\ ent'[v] = ent[v] /\ dirty'[v] = dirty[v]

LEMMA OneStepsAtATime ==
  ASSUME IInv, NEW w \in Workers, Arrive(w) \/ Serve(w) \/ Fail(w)
  PROVE  Elsewhere(w)
<1> USE DEF Elsewhere
<1>1. pc \in [Workers -> {"idle", "next", "manualTask", "updateTask", "insert",
                         "reload", "write", "audit"}]
  BY DEF IInv, TypeOK, RequestsOK
<1>2. ASSUME Finish(w) PROVE Elsewhere(w)
  BY <1>2 DEF Finish, Goto, DropEntity, IInv, TypeOK, RequestsOK, EntitiesOK
<1>3. ASSUME NEW id, NEW e, Save(w, id, e), UNCHANGED <<req, pos>> PROVE Elsewhere(w)
  BY <1>3 DEF Save, Goto, IInv, TypeOK, RequestsOK, EntitiesOK
<1>4. ASSUME NEW id, AfterSave(w, id), UNCHANGED req PROVE Elsewhere(w)
  BY <1>4 DEF AfterSave, NextItem, DropEntity, Goto, IInv, TypeOK, RequestsOK, EntitiesOK
<1>5. CASE Arrive(w)
  <2>1. ASSUME NEW r \in SyncRequests, StartSync(w, r) PROVE Elsewhere(w)
    BY <2>1 DEF StartSync, Goto, KeepEntity, IInv, TypeOK, RequestsOK, EntitiesOK
  <2>2. ASSUME NEW u \in Editors, NEW dto \in ManualDtos, StartManual(w, u, dto)
        PROVE  Elsewhere(w)
    BY <2>2 DEF StartManual, Goto, KeepEntity, IInv, TypeOK, RequestsOK, EntitiesOK
  <2>3. ASSUME NEW u \in Editors, NEW id \in DOMAIN entries, NEW dto \in UpdateDtos,
               StartUpdate(w, u, id, dto)
        PROVE  Elsewhere(w)
    <3>1. \E p : pc' = [pc EXCEPT ![w] = p]
      BY <2>3 DEF StartUpdate, Save, Goto
    <3>2. /\ rowId' = [rowId EXCEPT ![w] = id] /\ UNCHANGED <<pos, dirty>>
          /\ \E e : ent' = [ent EXCEPT ![w] = e]
      BY <2>3 DEF StartUpdate, Save
    <3>3. \E r : req' = [req EXCEPT ![w] = r]
      BY <2>3 DEF StartUpdate
    <3> QED
      BY <3>1, <3>2, <3>3 DEF IInv, TypeOK, RequestsOK, EntitiesOK
  <2> QED
    BY <1>5, <2>1, <2>2, <2>3 DEF Arrive
<1>6. CASE Serve(w)
  <2>1. CASE SkipForeign(w) \/ SkipCorrected(w)
    BY <2>1
       DEF SkipForeign, SkipCorrected, NextItem, Goto, KeepEntity, IInv, TypeOK, RequestsOK
  <2>2. CASE FindTracked(w) \/ FindNothing(w) \/ BuildManual(w) \/ ApplyUpdate(w)
    BY <2>2, <1>3 DEF FindTracked, FindNothing, BuildManual, ApplyUpdate
  <2>3. CASE SyncRespond(w) \/ TaskNotFound(w) \/ Rejected(w) \/ WriteAudit(w)
    BY <2>3, <1>2 DEF SyncRespond, TaskNotFound, Rejected, WriteAudit
  <2>4. CASE Insert(w) \/ Write(w)
    BY <2>4, <1>4 DEF Insert, Write
  <2>5. CASE Reload(w)
    BY <2>5 DEF Reload, Goto, IInv, TypeOK, RequestsOK, EntitiesOK
  <2> QED
    BY <1>6, <2>1, <2>2, <2>3, <2>4, <2>5 DEF Serve
<1>7. CASE Fail(w)
  BY <1>7, <1>2 DEF Fail
<1> QED
  BY <1>5, <1>6, <1>7

(* A worker that holds a row after its own step either found it            *)
(* uncorrected in that step or held it before and only reread it.          *)
LEMMA OwnHold ==
  ASSUME IInv, NEW w \in Workers, Arrive(w) \/ Serve(w) \/ Fail(w),
         NEW i, w \in Holding(i)'
  PROVE  /\ entries' = entries
         /\ w \in Holding(i) \/ (i \in DOMAIN entries /\ ~entries[i].manuallyEdited)
<1> USE Kinds
<1>1. /\ req'[w].kind = "sync" /\ pc'[w] \in {"reload", "write"} /\ rowId'[w] = i
  BY DEF Holding, Kind
<1>2. ASSUME NEW p, Goto(w, p) PROVE p \in {"reload", "write"}
  BY <1>1, <1>2 DEF Goto, IInv, TypeOK, RequestsOK
<1>3. ~Finish(w) /\ ~NextItem(w)
  BY <1>2 DEF Finish, NextItem
<1>4. ASSUME NEW id, AfterSave(w, id) PROVE FALSE
  BY <1>2, <1>3, <1>4 DEF AfterSave
<1>5. ASSUME NEW e, Save(w, 0, e) PROVE FALSE
  BY <1>2, <1>5 DEF Save
<1>6. ~Fail(w)
  BY <1>3 DEF Fail
<1>7. ~Arrive(w)
  <2>1. ASSUME NEW r \in SyncRequests, StartSync(w, r) PROVE FALSE
    BY <2>1, <1>2 DEF StartSync
  <2>2. ASSUME NEW u \in Editors, NEW dto \in ManualDtos, StartManual(w, u, dto) PROVE FALSE
    BY <2>2, <1>2 DEF StartManual
  <2>3. ASSUME NEW u \in Editors, NEW id \in DOMAIN entries, NEW dto \in UpdateDtos,
               StartUpdate(w, u, id, dto)
        PROVE  FALSE
    <3>1. req' = [req EXCEPT ![w] = [kind |-> "update", sub |-> u, dto |-> dto,
                                     previous |-> entries[id].duration]]
      BY <2>3 DEF StartUpdate
    <3>2. req'[w].kind = "update"
      BY <3>1 DEF IInv, TypeOK, RequestsOK
    <3> QED
      BY <1>1, <3>2
  <2> QED
    BY <2>1, <2>2, <2>3 DEF Arrive
<1>8. ~ApplyUpdate(w)
  <2>1. ASSUME ApplyUpdate(w) PROVE req[w] \in UpdateRequest /\ req' = req
    BY <2>1 DEF ApplyUpdate, IInv, WorkersOK, Phase
  <2> QED
    BY <1>1, <2>1
<1>9. FindTracked(w) \/ Reload(w)
  BY <1>3, <1>4, <1>5, <1>6, <1>7, <1>8 DEF Serve, SkipForeign, SkipCorrected, FindNothing,
     SyncRespond, BuildManual, TaskNotFound, Insert, Write, Rejected, WriteAudit
<1>10. CASE FindTracked(w)
  <2>1. PICK id \in RowsOf(Current(w).localId) :
           /\ ~entries[id].manuallyEdited
           /\ Save(w, id, MergeItem(Current(w), entries[id].end, entries[id].duration))
    BY <1>10 DEF FindTracked, Corrected
  <2>2. id = i
    BY <1>1, <2>1 DEF Save, IInv, TypeOK, EntitiesOK
  <2> QED
    BY <1>10, <2>1, <2>2 DEF FindTracked, RowsOf, db
<1>11. CASE Reload(w)
  BY <1>1, <1>11 DEF Reload, Holding, Kind, db
<1> QED
  BY <1>9, <1>10, <1>11

LEMMA HoldersStep ==
  ASSUME IInv, [Next]_vars, NEW i, NEW v \in Workers, v \in Holding(i)'
  PROVE  v \in Holding(i) \/ (i \in DOMAIN entries /\ ~entries[i].manuallyEdited)
<1>1. CASE \E w \in Workers : Arrive(w) \/ Serve(w) \/ Fail(w)
  <2>1. PICK w \in Workers : Arrive(w) \/ Serve(w) \/ Fail(w)
    BY <1>1
  <2>2. CASE v = w
    BY <2>1, <2>2, OwnHold
  <2>3. CASE v # w
    BY <2>1, <2>3, OneStepsAtATime DEF Elsewhere, Holding, Kind
  <2> QED
    BY <2>2, <2>3
<1>2. CASE UNCHANGED <<pc, req, rowId>>
  BY <1>2 DEF Holding, Kind
<1> QED
  BY <1>1, <1>2 DEF Next, Archive, Restore, vars

(* A settled correction stays settled: its mark is only in reach of those  *)
(* that write the row, a correction, which keeps it, or a sync that held   *)
(* the row before.                                                         *)
LEMMA SettledStep ==
  ASSUME IInv, [Next]_vars, NEW l, Settled(l)
  PROVE  Settled(l)'
<1>1. PICK i \in DOMAIN entries : /\ entries[i].localId = l
                                  /\ entries[i].manuallyEdited /\ Holding(i) = {}
  BY DEF Settled, RowsOf
<1>2. i \in DOMAIN entries' /\ entries'[i].localId = l
  BY <1>1, LocalIdsStay
<1>3. Holding(i)' = {}
  BY <1>1, HoldersStep DEF Holding
<1>4. entries'[i].manuallyEdited
  <2>1. ASSUME NEW w \in Workers, Write(w), rowId[w] = i PROVE entries'[i].manuallyEdited
    <3>1. pc[w] = "write" /\ Kind(w) # "sync"
      BY <1>1, <2>1 DEF Write, Holding
    <3>2. req[w] \notin SyncRequest
      BY <3>1 DEF Kind, SyncRequest
    <3> QED
      BY <1>1, <2>1, <3>2, WriteRow, WriteRows
  <2> QED
    BY <1>1, <2>1, EntriesChange, InsertRows, WriteRows
<1> QED
  BY <1>2, <1>3, <1>4 DEF Settled, RowsOf

(* Once every sync that had read an entry before its correction is over,   *)
(* the entry stays corrected for good, however requests overlap and fail.  *)
THEOREM CorrectionsSettle == Spec => CorrectionSettles
<1> SUFFICES ASSUME NEW l \in LocalIds \cup ManualIds
             PROVE  Spec => [](Settled(l) =>
                                 [](\E i \in RowsOf(l) : entries[i].manuallyEdited))
  BY DEF CorrectionSettles
<1>1. IInv /\ Settled(l) /\ [Next]_vars => Settled(l)'
  BY SettledStep
<1>2. Settled(l) => \E i \in RowsOf(l) : entries[i].manuallyEdited
  BY DEF Settled
<1> QED
  BY <1>1, <1>2, Invariance, PTL DEF Spec

-----------------------------------------------------------------------------
(* What a sync carries from the item of its batch to the row. *)

Carries(e, item) ==
    /\ e.localId = item.localId /\ e.employee = item.employee
    /\ e.task = item.task /\ e.start = item.start
    /\ item.end # Undef => e.end = item.end
    /\ item.duration # Undef => e.duration = item.duration

Carried(w) ==
    Kind(w) = "sync" /\ pc[w] \in {"insert", "reload", "write"} =>
       /\ req[w] \in SyncRequest /\ pos[w] \in 1 .. Len(req[w].batch)
       /\ ~Foreign(req[w], Current(w))
       /\ Carries(ent[w], Current(w)) /\ ent[w].end # Null
       /\ pc[w] # "insert" => /\ rowId[w] \in DOMAIN entries
                              /\ entries[rowId[w]].localId = Current(w).localId

AllCarried == \A w \in Workers : Carried(w)

LEMMA MergeCarries ==
  ASSUME NEW item \in Item, NEW end \in Nat \cup {Null, Undef}, NEW duration \in Nat
  PROVE  /\ Carries(MergeItem(item, end, duration), item)
         /\ MergeItem(item, end, duration).end # Null
BY IdsAssumption, NullIsNotUndef
   DEF Carries, MergeItem, MergedEnd, MergedDuration, Coalesce, Item

(* Where a step leaves its worker. *)
LEMMA Where ==
  ASSUME IInv, NEW w \in Workers
  PROVE  /\ \A p : Goto(w, p) => pc'[w] = p
         /\ \A id, e : Save(w, id, e) => /\ rowId'[w] = id /\ ent'[w] = e
                                         /\ dirty'[w] = dirty[w]
                                         /\ pc'[w] = IF id = 0 THEN "insert" ELSE "reload"
         /\ \A r : req' = [req EXCEPT ![w] = r] => req'[w] = r
BY DEF Goto, Save, IInv, TypeOK, RequestsOK, EntitiesOK

(* The steps that leave a sync with an entity to save. *)
LEMMA OwnSave ==
  ASSUME IInv, NEW w \in Workers, Arrive(w) \/ Serve(w) \/ Fail(w),
         Kind(w)' = "sync", pc'[w] \in {"insert", "reload", "write"}
  PROVE  FindTracked(w) \/ FindNothing(w) \/ Reload(w)
<1> USE Kinds
<1>1. req'[w].kind = "sync" /\ \A p : Goto(w, p) => p \in {"insert", "reload", "write"}
  BY Where DEF Kind
<1>2. ~Finish(w) /\ ~NextItem(w) /\ \A id : ~AfterSave(w, id)
  BY <1>1 DEF Finish, NextItem, AfterSave
<1>3. ~Arrive(w)
  <2>1. ASSUME NEW r \in SyncRequests, StartSync(w, r) PROVE FALSE
    BY <2>1, <1>1 DEF StartSync
  <2>2. ASSUME NEW u \in Editors, NEW dto \in ManualDtos, StartManual(w, u, dto) PROVE FALSE
    BY <2>2, <1>1 DEF StartManual
  <2>3. ASSUME NEW u \in Editors, NEW id \in DOMAIN entries, NEW dto \in UpdateDtos,
               StartUpdate(w, u, id, dto)
        PROVE  FALSE
    <3>1. req' = [req EXCEPT ![w] = [kind |-> "update", sub |-> u, dto |-> dto,
                                     previous |-> entries[id].duration]]
      BY <2>3 DEF StartUpdate
    <3>2. req'[w].kind = "update"
      BY <3>1 DEF IInv, TypeOK, RequestsOK
    <3> QED
      BY <1>1, <3>2
  <2> QED
    BY <2>1, <2>2, <2>3 DEF Arrive
<1>4. ~ApplyUpdate(w) /\ ~BuildManual(w)
  <2>1. ASSUME ApplyUpdate(w) \/ BuildManual(w)
        PROVE  req[w] \in UpdateRequest \cup ManualRequest /\ req' = req
    BY <2>1 DEF ApplyUpdate, BuildManual, IInv, WorkersOK, Phase
  <2> QED
    BY <1>1, <2>1
<1> QED
  BY <1>2, <1>3, <1>4
     DEF Fail, Serve, SkipForeign, SkipCorrected, SyncRespond, TaskNotFound, Insert, Write,
         Rejected, WriteAudit

LEMMA CarriedStep ==
  ASSUME IInv, AllCarried, [Next]_vars
  PROVE  AllCarried'
<1> SUFFICES ASSUME NEW v \in Workers, Kind(v)' = "sync",
                    pc'[v] \in {"insert", "reload", "write"}
             PROVE  Carried(v)'
  BY DEF AllCarried, Carried
<1>1. ASSUME UNCHANGED <<pc[v], req[v], pos[v], rowId[v], ent[v]>>
      PROVE  Carried(v)'
  BY <1>1, LocalIdsStay DEF AllCarried, Carried, Kind, Current
<1>2. ASSUME NEW w \in Workers, Arrive(w) \/ Serve(w) \/ Fail(w), v # w
      PROVE  Carried(v)'
  BY <1>1, <1>2, OneStepsAtATime DEF Elsewhere
<1>3. ASSUME Arrive(v) \/ Serve(v) \/ Fail(v)
      PROVE  Carried(v)'
  <2>1. FindTracked(v) \/ FindNothing(v) \/ Reload(v)
    BY <1>3, OwnSave
  <2>2. CASE Reload(v)
    <3>1. /\ UNCHANGED <<entries, req, pos, rowId, ent>> /\ pc[v] = "reload" /\ Kind(v) = "sync"
      BY <2>2 DEF Reload, db, Kind
    <3> QED
      BY <3>1 DEF AllCarried, Carried, Current
  <2>3. CASE FindTracked(v) \/ FindNothing(v)
    <3>1. InBatch(v) /\ ~Foreign(req[v], Current(v)) /\ UNCHANGED <<entries, req, pos>>
      BY <2>3 DEF FindTracked, FindNothing, db
    <3>2. Current(v) \in Item /\ req[v] \in SyncRequest
      BY <3>1, CurrentItem
    <3>3. pos[v] \in 1 .. Len(req[v].batch)
      <4>1. pos[v] \in Nat \ {0} /\ req[v].batch \in Seq(Item) /\ pos[v] <= Len(req[v].batch)
        BY <3>1, <3>2 DEF IInv, WorkersOK, Phase, InBatch, SyncRequest
      <4> QED
        BY <4>1
    <3>4. /\ Carries(ent'[v], Current(v)) /\ ent'[v].end # Null
          /\ pc'[v] # "insert" => /\ rowId'[v] \in DOMAIN entries
                                  /\ entries[rowId'[v]].localId = Current(v).localId
      <4>1. CASE FindTracked(v)
        <5>1. PICK id \in RowsOf(Current(v).localId) :
                 Save(v, id, MergeItem(Current(v), entries[id].end, entries[id].duration))
          BY <4>1 DEF FindTracked
        <5>2. /\ id \in DOMAIN entries /\ entries[id].localId = Current(v).localId
              /\ entries[id] \in Row
          BY DEF RowsOf, IInv, TypeOK, EntriesOK
        <5>3. /\ Carries(MergeItem(Current(v), entries[id].end, entries[id].duration), Current(v))
              /\ MergeItem(Current(v), entries[id].end, entries[id].duration).end # Null
          BY <3>2, <5>2, MergeCarries DEF Row
        <5> QED
          BY <5>1, <5>2, <5>3, Where
      <4>2. CASE FindNothing(v)
        <5>1. Save(v, 0, MergeItem(Current(v), Undef, 0))
          BY <4>2 DEF FindNothing
        <5>2. /\ Carries(MergeItem(Current(v), Undef, 0), Current(v))
              /\ MergeItem(Current(v), Undef, 0).end # Null
          BY <3>2, MergeCarries
        <5> QED
          BY <5>1, <5>2, Where
      <4> QED
        BY <2>3, <4>1, <4>2
    <3>5. Current(v)' = Current(v)
      BY <3>1 DEF Current
    <3> QED
      BY <3>1, <3>2, <3>3, <3>4, <3>5 DEF Carried
  <2> QED
    BY <2>1, <2>2, <2>3
<1>4. CASE UNCHANGED <<pc, req, pos, rowId, ent>>
  BY <1>1, <1>4
<1> QED
  BY <1>2, <1>3, <1>4 DEF Next, Archive, Restore, vars

LEMMA CarriedAlways == Spec => []AllCarried
<1>1. Init => AllCarried
  BY DEF Init, AllCarried, Carried
<1>2. IInv /\ AllCarried /\ [Next]_vars => AllCarried'
  BY CarriedStep
<1> QED
  BY <1>1, <1>2, Invariance, PTL DEF Spec

(* However requests interleave, an employee's or a manager's sync          *)
(* attributes no entry to anyone else: the check on the item is still true *)
(* of the entity when it is written.                                       *)
THEOREM OwnEntriesStay == Spec => OwnEntriesOnly
<1>1. ASSUME IInv, AllCarried, [Next]_vars, NEW w \in Workers, NEW i \in DOMAIN entries',
             SyncStores(w, i), SelfOnly(req[w])
      PROVE  \/ entries'[i].employee = req[w].sub
             \/ i \in DOMAIN entries /\ entries'[i].employee = entries[i].employee
  <2>1. /\ Kind(w) = "sync" /\ pc'[w] = "next"
        /\ \/ pc[w] = "insert" /\ i = Len(entries) + 1
           \/ pc[w] = "write" /\ i = rowId[w]
    BY <1>1 DEF SyncStores
  <2>2. ent[w].employee = req[w].sub
    BY <1>1, <2>1 DEF AllCarried, Carried, Carries, Foreign
  <2>3. Arrive(w) \/ Serve(w) \/ Fail(w)
    <3>1. ASSUME NEW v \in Workers, Arrive(v) \/ Serve(v) \/ Fail(v) PROVE v = w
      BY <1>1, <2>1, <3>1, OneStepsAtATime DEF Elsewhere
    <3> QED
      BY <1>1, <2>1, <3>1 DEF Next, Archive, Restore, vars
  <2>4. ~Finish(w)
    BY <1>1, <2>1, Where DEF Finish
  <2>5. Insert(w) \/ Write(w)
    <3>1. ~Arrive(w) /\ ~Fail(w)
      BY <2>1, <2>4 DEF Arrive, StartSync, StartManual, StartUpdate, Idle, Fail
    <3> QED
      BY <2>1, <2>3, <2>4, <3>1
         DEF Serve, SkipForeign, SkipCorrected, FindTracked, FindNothing, InBatch, SyncRespond,
             BuildManual, ApplyUpdate, TaskNotFound, Reload, Rejected, WriteAudit
  <2>6. CASE Insert(w)
    <3>1. i = Len(entries) + 1
      BY <2>1, <2>6 DEF Insert
    <3>2. entries'[i] = NewRow(ent[w])
      BY <1>1, <2>6, <3>1, InsertRows
    <3>3. NewRow(ent[w]).employee = ent[w].employee
      BY <1>1 DEF NewRow, IInv, TypeOK, EntitiesOK, Entity
    <3> QED
      BY <2>2, <3>2, <3>3
  <2>7. CASE Write(w)
    <3>1. /\ i = rowId[w] /\ i \in DOMAIN entries
          /\ entries'[i] = Updated(entries[i], ent[w], dirty[w])
      BY <1>1, <2>1, <2>7, WriteRows DEF Write
    <3>2. entries'[i].employee \in {ent[w].employee, entries[i].employee}
      BY <3>1 DEF Updated
    <3> QED
      BY <2>2, <3>1, <3>2
  <2> QED
    BY <2>5, <2>6, <2>7
<1>2. IInv /\ AllCarried /\ [Next]_vars =>
        [\A w \in Workers : \A i \in DOMAIN entries' :
            SyncStores(w, i) /\ SelfOnly(req[w]) =>
               \/ entries'[i].employee = req[w].sub
               \/ i \in DOMAIN entries /\ entries'[i].employee = entries[i].employee]_vars
  BY <1>1
<1> QED
  BY <1>2, Invariance, CarriedAlways, PTL DEF Spec, OwnEntriesOnly

-----------------------------------------------------------------------------
(* Requests that do not overlap. *)

OneAtATime == \A v, w \in Workers : v = w

HeldUncorrected ==
    \A w \in Workers : \A i \in DOMAIN entries : w \in Holding(i) => ~entries[i].manuallyEdited

LEMMA HeldUncorrectedStep ==
  ASSUME OneAtATime, IInv, HeldUncorrected, [Next]_vars
  PROVE  HeldUncorrected'
<1> SUFFICES ASSUME NEW v \in Workers, NEW i \in DOMAIN entries', v \in Holding(i)'
             PROVE  ~entries'[i].manuallyEdited
  BY DEF HeldUncorrected
<1>1. v \in Holding(i) \/ (i \in DOMAIN entries /\ ~entries[i].manuallyEdited)
  BY HoldersStep
<1>2. entries' = entries
  <2>1. CASE \E w \in Workers : Arrive(w) \/ Serve(w) \/ Fail(w)
    BY <2>1, OwnHold DEF OneAtATime
  <2>2. CASE UNCHANGED entries
    BY <2>2
  <2> QED
    BY <2>1, <2>2 DEF Next, Archive, Restore, vars, db
<1> QED
  BY <1>1, <1>2 DEF HeldUncorrected

(* When requests do not overlap, only another correction changes a         *)
(* corrected entry.                                                        *)
THEOREM CorrectionIsFinal == ASSUME OneAtATime PROVE Spec => CorrectionFinal
<1>1. Init => HeldUncorrected
  BY DEF Init, HeldUncorrected
<1>2. IInv /\ HeldUncorrected /\ [Next]_vars => HeldUncorrected'
  BY HeldUncorrectedStep
<1>3. IInv /\ HeldUncorrected /\ [Next]_vars =>
        [\A i \in DOMAIN entries :
            entries[i].manuallyEdited /\ entries'[i] # entries[i]
            => \E w \in Workers : Kind(w) = "update" /\ pc[w] = "write" /\ rowId[w] = i]_vars
  <2> SUFFICES ASSUME IInv, HeldUncorrected, [Next]_vars, NEW i \in DOMAIN entries,
                      entries[i].manuallyEdited, entries'[i] # entries[i]
               PROVE  \E w \in Workers : Kind(w) = "update" /\ pc[w] = "write" /\ rowId[w] = i
    OBVIOUS
  <2>1. PICK w \in Workers : Write(w) /\ rowId[w] = i
    BY EntriesChange, InsertRows, WriteRows
  <2>2. pc[w] = "write" /\ (req[w] \in SyncRequest \/ req[w] \in UpdateRequest)
    BY <2>1, WriteRow DEF Write
  <2>3. req[w] \notin SyncRequest
    BY <2>1, <2>2, Kinds DEF HeldUncorrected, Holding, Kind
  <2> QED
    BY <2>1, <2>2, <2>3, Kinds DEF Kind
<1> QED
  BY <1>1, <1>2, <1>3, Invariance, PTL DEF Spec, CorrectionFinal
=============================================================================
