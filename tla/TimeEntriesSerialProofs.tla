----------------------- MODULE TimeEntriesSerialProofs -----------------------
(***************************************************************************)
(* Theorems of TimeEntries about requests that do not overlap              *)
(* (OneAtATime), for every set of employees, tasks, localIds and requests, *)
(* with soft deletes and failures of database calls in between.  What they *)
(* have in common is InHand: the entity a worker saves is still made of    *)
(* what its row says, so the UPDATE stores the entity.                     *)
(***************************************************************************)
EXTENDS TimeEntriesProofs

(* The span of a manual entry. *)
SpanOf(e) == e.localId \in ManualIds => e.end = e.start + e.duration

InHand(w) ==
    /\ pc[w] = "write" => dirty[w] = Dirty(ent[w], entries[rowId[w]], Columns)
    /\ pc[w] \in {"updateTask", "reload", "write"} =>
          /\ ent[w].localId = entries[rowId[w]].localId
          /\ entries[rowId[w]].end # Null => ent[w].end # Null
          /\ Kind(w) = "update" => req[w].previous = entries[rowId[w]].duration
    /\ pc[w] \in {"insert", "updateTask", "reload", "write"} => SpanOf(ent[w])
    /\ pc[w] \in {"insert", "reload", "write"} /\ Kind(w) # "sync" => ent[w].manuallyEdited
    /\ pc[w] = "audit" => /\ entries[rowId[w]].manuallyEdited
                          /\ entries[rowId[w]].duration = ent[w].duration

SerialInv == HeldUncorrected /\ ManualSpanExact /\ \A w \in Workers : InHand(w)

-----------------------------------------------------------------------------
(* Values the handlers build. *)

LEMMA LoadedFields ==
  ASSUME NEW row \in Row
  PROVE  /\ Loaded(row).localId = row.localId /\ Loaded(row).start = row.start
         /\ Loaded(row).end = row.end /\ Loaded(row).duration = row.duration
BY DEF Loaded, Row

(* A correction keeps what it does not name: that there is an end, and     *)
(* that a manual entry spans its duration.                                 *)
LEMMA CorrectFields ==
  ASSUME NEW e \in Entity, NEW dto \in UpdateDto, NEW u \in Employees
  PROVE  /\ Correct(e, dto, u).localId = e.localId
         /\ Correct(e, dto, u).manuallyEdited
         /\ e.end # Null => Correct(e, dto, u).end # Null
         /\ SpanOf(e) => SpanOf(Correct(e, dto, u))
<1> DEFINE duration == Coalesce(dto.duration, e.duration)
           start == Coalesce(dto.date, DayOf(e.start))
           retimed == Retimed(dto)
           s == IF retimed THEN start ELSE e.start
           t == IF retimed THEN start + duration ELSE e.end
           c == Correct(e, dto, u)
<1>1. duration \in Nat /\ (~retimed => duration = e.duration)
  BY IdsAssumption DEF Coalesce, Entity, UpdateDto, Retimed
<1>2. start \in Nat
  <2>1. DayOf(e.start) \in Nat
    BY DayOfNat DEF Entity
  <2> QED
    BY <2>1, IdsAssumption DEF Coalesce, UpdateDto
<1> HIDE DEF duration, start, retimed
<1>3. /\ retimed => t \in Nat /\ t = s + duration
      /\ ~retimed => t = e.end /\ s = e.start
  BY <1>1, <1>2
<1>4. c = [e EXCEPT !.task = Coalesce(dto.task, @), !.start = s, !.end = t,
                    !.duration = duration, !.manuallyEdited = TRUE, !.editedBy = u]
  BY DEF Correct, duration, start, retimed
<1> HIDE DEF s, t, c
<1>5. /\ c.localId = e.localId /\ c.manuallyEdited = TRUE
      /\ c.start = s /\ c.end = t /\ c.duration = duration
  BY <1>4 DEF Entity
<1>6. e.end # Null => c.end # Null
  BY <1>3, <1>5, IdsAssumption
<1>7. SpanOf(e) => SpanOf(c)
  BY <1>1, <1>3, <1>5 DEF SpanOf
<1> QED
  BY <1>5, <1>6, <1>7 DEF c

(* The row after an UPDATE of the columns in which the entity differs from *)
(* it: the entity, where that says something.                              *)
LEMMA WholeWrite ==
  ASSUME NEW row \in Row, NEW e \in Entity
  PROVE  LET new == Updated(row, e, Dirty(e, row, Columns))
         IN  /\ new.localId = row.localId
             /\ new.employee = e.employee /\ new.task = e.task /\ new.start = e.start
             /\ new.duration = e.duration /\ new.manuallyEdited = e.manuallyEdited
             /\ new.end = IF e.end = Undef THEN row.end ELSE e.end
<1> DEFINE d == Dirty(e, row, Columns)
           new == Updated(row, e, d)
<1>1. \A c \in Columns : c \in d <=> e[c] # Undef /\ e[c] # row[c]
  BY DEF Dirty
<1>2. /\ e.employee # Undef /\ e.task # Undef /\ e.start # Undef
      /\ e.duration # Undef /\ e.manuallyEdited # Undef
  BY IdsAssumption, NullIsNotUndef DEF Entity
<1>3. /\ ~("employee" \in d) => e.employee = row.employee
      /\ ~("task" \in d) => e.task = row.task
      /\ ~("start" \in d) => e.start = row.start
      /\ ~("duration" \in d) => e.duration = row.duration
      /\ ~("manuallyEdited" \in d) => e.manuallyEdited = row.manuallyEdited
      /\ ~("end" \in d) => e.end = Undef \/ e.end = row.end
      /\ "end" \in d => e.end # Undef
  BY <1>1, <1>2 DEF Columns
<1> HIDE DEF d
<1>4. /\ new.localId = row.localId
      /\ new.employee = IF "employee" \in d THEN e.employee ELSE row.employee
      /\ new.task = IF "task" \in d THEN e.task ELSE row.task
      /\ new.start = IF "start" \in d THEN e.start ELSE row.start
      /\ new.duration = IF "duration" \in d THEN e.duration ELSE row.duration
      /\ new.manuallyEdited =
            IF "manuallyEdited" \in d THEN e.manuallyEdited ELSE row.manuallyEdited
      /\ new.end = IF "end" \in d THEN e.end ELSE row.end
  BY DEF Updated
<1> HIDE DEF new
<1>5. new.employee = e.employee /\ new.task = e.task /\ new.start = e.start
  BY <1>3, <1>4
<1>6. /\ new.duration = e.duration
      /\ new.end = IF e.end = Undef THEN row.end ELSE e.end
  BY <1>3, <1>4
<1>7. new.manuallyEdited = e.manuallyEdited
  BY <1>3, <1>4
<1> QED
  BY <1>4, <1>5, <1>6, <1>7 DEF new, d

-----------------------------------------------------------------------------
(* What Insert and Write store. *)

LEMMA Stored ==
  ASSUME IInv, NEW w \in Workers, Insert(w)
  PROVE  LET e == ent[w]
             new == entries'[Len(entries) + 1]
         IN  /\ e \in Entity /\ new \in Row /\ new.localId = e.localId
             /\ new.employee = e.employee /\ new.task = e.task /\ new.start = e.start
             /\ new.duration = e.duration /\ new.manuallyEdited = e.manuallyEdited
             /\ new.end = Inserted(e.end)
<1>1. ent[w] \in Entity /\ LinksValid(ent[w]) /\ entries'[Len(entries) + 1] = NewRow(ent[w])
  BY InsertRows DEF Insert, Accepts, IInv, TypeOK, EntitiesOK
<1>2. NewRow(ent[w]) \in Row
  BY <1>1, NewRowOK
<1>3. LET e == ent[w]
          new == NewRow(e)
      IN  /\ new.localId = e.localId
          /\ new.employee = e.employee /\ new.task = e.task /\ new.start = e.start
          /\ new.duration = e.duration /\ new.manuallyEdited = e.manuallyEdited
          /\ new.end = Inserted(e.end)
  BY <1>1 DEF NewRow, Entity
<1> QED
  BY <1>1, <1>2, <1>3

LEMMA Written ==
  ASSUME IInv, NEW w \in Workers, InHand(w), Write(w)
  PROVE  LET e == ent[w]
             row == entries[rowId[w]]
             new == entries'[rowId[w]]
         IN  /\ rowId[w] \in DOMAIN entries /\ row \in Row /\ e \in Entity
             /\ new.localId = row.localId
             /\ new.employee = e.employee /\ new.task = e.task /\ new.start = e.start
             /\ new.duration = e.duration /\ new.manuallyEdited = e.manuallyEdited
             /\ new.end = IF e.end = Undef THEN row.end ELSE e.end
<1>1. /\ pc[w] = "write" /\ rowId[w] \in DOMAIN entries
      /\ entries'[rowId[w]] = Updated(entries[rowId[w]], ent[w], dirty[w])
  BY WriteRows DEF Write
<1>2. entries[rowId[w]] \in Row /\ ent[w] \in Entity
  BY <1>1 DEF IInv, TypeOK, EntriesOK, EntitiesOK
<1>3. dirty[w] = Dirty(ent[w], entries[rowId[w]], Columns)
  BY <1>1 DEF InHand
<1> QED
  BY <1>1, <1>2, <1>3, WholeWrite

-----------------------------------------------------------------------------
(* InHand after a step of the worker itself. *)

LEMMA AtRest ==
  ASSUME NEW w \in Workers, pc'[w] \in {"idle", "next", "manualTask"}
  PROVE  InHand(w)'
BY DEF InHand

(* A sync's entity carries the localId of its row, which is no manual one, *)
(* and always an end or none at all.                                       *)
LEMMA FindInHand ==
  ASSUME IInv, AllCarried, [Next]_vars, NEW w \in Workers, FindTracked(w) \/ FindNothing(w)
  PROVE  InHand(w)'
<1>1. pc[w] = "next" /\ UNCHANGED <<entries, req, pos>>
  BY DEF FindTracked, FindNothing, InBatch, db
<1>2. Kind(w) = "sync" /\ Kind(w)' = "sync"
  BY <1>1, Kinds DEF IInv, WorkersOK, Phase, Kind
<1>3. pc'[w] \in {"insert", "reload"}
  <2>1. CASE FindTracked(w)
    <3>1. PICK id, e : Save(w, id, e)
      BY <2>1 DEF FindTracked
    <3> QED
      BY <3>1, Where
  <2>2. CASE FindNothing(w)
    BY <2>2, Where DEF FindNothing
  <2> QED
    BY <2>1, <2>2
<1>4. Carried(w)'
  BY CarriedStep DEF AllCarried
<1>5. /\ req'[w] \in SyncRequest /\ pos'[w] \in 1 .. Len(req'[w].batch)
      /\ ent'[w].localId = Current(w)'.localId /\ ent'[w].end # Null
      /\ pc'[w] = "reload" => entries'[rowId'[w]].localId = Current(w)'.localId
  BY <1>2, <1>3, <1>4 DEF Carried, Carries
<1>6. Current(w)' \in Item
  BY <1>5 DEF Current, SyncRequest
<1>7. ent'[w].localId \notin ManualIds
  BY <1>5, <1>6, IdsAssumption DEF Item
<1> QED
  BY <1>2, <1>3, <1>5, <1>7 DEF InHand, SpanOf

LEMMA ManualInHand ==
  ASSUME IInv, NEW w \in Workers, BuildManual(w)
  PROVE  InHand(w)'
<1>1. PICK l \in ManualIds : Save(w, 0, ManualEntity(l, req[w].sub, req[w].dto))
  BY DEF BuildManual, FreshManualIds
<1>2. pc'[w] = "insert" /\ ent'[w] = ManualEntity(l, req[w].sub, req[w].dto)
  BY <1>1, Where
<1>3. ent'[w].manuallyEdited /\ SpanOf(ent'[w])
  BY <1>2 DEF ManualEntity, SpanOf
<1>4. InHand(w)' <=> SpanOf(ent'[w]) /\ (Kind(w)' # "sync" => ent'[w].manuallyEdited)
  BY <1>2 DEF InHand, SpanOf
<1> QED
  BY <1>3, <1>4

LEMMA UpdateInHand ==
  ASSUME IInv, ManualSpanExact, NEW w \in Workers, NEW u \in Editors,
         NEW id \in DOMAIN entries, NEW dto \in UpdateDtos, StartUpdate(w, u, id, dto)
  PROVE  InHand(w)'
<1> DEFINE old == Loaded(entries[id])
<1>1. /\ entries[id] \in Row /\ id \in Nat /\ id # 0
      /\ dto \in UpdateDto /\ u \in Employees
  BY IdsAssumption, InputsAssumption DEF IInv, TypeOK, EntriesOK
<1>2. /\ old \in Entity /\ old.localId = entries[id].localId /\ old.end = entries[id].end
      /\ SpanOf(old)
  BY <1>1, LoadedFields, LoadedEntity DEF SpanOf, ManualSpanExact
<1>3. /\ UNCHANGED entries
      /\ req' = [req EXCEPT ![w] = [kind |-> "update", sub |-> u, dto |-> dto,
                                    previous |-> entries[id].duration]]
  BY DEF StartUpdate, db
<1>4. req'[w].kind = "update" /\ req'[w].previous = entries[id].duration
  BY <1>3 DEF IInv, TypeOK, RequestsOK
<1> HIDE DEF old
<1>5. CASE dto.task = Undef
  <2> DEFINE e == Correct(old, dto, u)
  <2>1. Save(w, id, e)
    BY <1>5 DEF StartUpdate, old
  <2>2. /\ e.localId = entries[id].localId /\ e.manuallyEdited /\ SpanOf(e)
        /\ entries[id].end # Null => e.end # Null
    BY <1>1, <1>2, CorrectFields
  <2> HIDE DEF e
  <2>3. pc'[w] = "reload" /\ ent'[w] = e /\ rowId'[w] = id
    BY <1>1, <2>1, Where
  <2> QED
    BY <1>3, <1>4, <2>2, <2>3 DEF InHand, Kind, SpanOf
<1>6. CASE dto.task # Undef
  <2>1. pc'[w] = "updateTask" /\ ent'[w] = old /\ rowId'[w] = id
    BY <1>6 DEF StartUpdate, old, Goto, IInv, TypeOK, RequestsOK, EntitiesOK
  <2> QED
    BY <1>2, <1>3, <1>4, <2>1 DEF InHand, Kind, SpanOf
<1> QED
  BY <1>5, <1>6

LEMMA ApplyInHand ==
  ASSUME IInv, NEW w \in Workers, InHand(w), ApplyUpdate(w)
  PROVE  InHand(w)'
<1> DEFINE e == Correct(ent[w], req[w].dto, req[w].sub)
<1>1. /\ pc[w] = "updateTask" /\ UNCHANGED <<entries, req>>
      /\ Save(w, rowId[w], e)
  BY DEF ApplyUpdate, db
<1>2. req[w] \in UpdateRequest /\ rowId[w] \in DOMAIN entries /\ ent[w] \in Entity
  BY <1>1 DEF IInv, WorkersOK, Phase, TypeOK, EntitiesOK
<1>3. /\ ent[w].localId = entries[rowId[w]].localId /\ SpanOf(ent[w])
      /\ entries[rowId[w]].end # Null => ent[w].end # Null
      /\ req[w].previous = entries[rowId[w]].duration
  BY <1>1, <1>2, Kinds DEF InHand, Kind
<1>4. /\ e.localId = ent[w].localId /\ e.manuallyEdited /\ SpanOf(e)
      /\ ent[w].end # Null => e.end # Null
  BY <1>2, <1>3, CorrectFields DEF UpdateRequest
<1> HIDE DEF e
<1>5. pc'[w] = "reload" /\ ent'[w] = e /\ rowId'[w] = rowId[w]
  <2>1. rowId[w] # 0
    BY <1>2 DEF IInv, TypeOK, EntriesOK
  <2> QED
    BY <1>1, <2>1, Where
<1> QED
  BY <1>1, <1>3, <1>4, <1>5 DEF InHand, Kind, SpanOf

LEMMA ReloadInHand ==
  ASSUME IInv, NEW w \in Workers, InHand(w), Reload(w)
  PROVE  InHand(w)'
<1>1. /\ pc[w] = "reload" /\ pc'[w] = "write" /\ UNCHANGED <<entries, req, rowId, ent>>
      /\ dirty'[w] = Dirty(ent[w], entries[rowId[w]], Columns)
  BY DEF Reload, Goto, db, IInv, TypeOK, RequestsOK, EntitiesOK
<1> QED
  BY <1>1 DEF InHand, Kind, SpanOf

(* The row that waits for its audit row is the entity that was saved. *)
LEMMA SavedInHand ==
  ASSUME IInv, NEW w \in Workers, InHand(w), Insert(w) \/ Write(w)
  PROVE  InHand(w)'
<1>1. PICK id : /\ AfterSave(w, id) /\ UNCHANGED req
                /\ \/ Insert(w) /\ id = Len(entries) + 1
                   \/ Write(w) /\ id = rowId[w]
  BY DEF Insert, Write
<1>2. CASE Kind(w) = "sync"
  <2>1. pc'[w] = "next"
    BY <1>1, <1>2, Where DEF AfterSave, NextItem
  <2> QED
    BY <2>1, AtRest
<1>3. CASE Kind(w) # "sync"
  <2>1. pc'[w] = "audit" /\ rowId'[w] = id /\ ent'[w] = ent[w]
    BY <1>1, <1>3 DEF AfterSave, Goto, IInv, TypeOK, RequestsOK, EntitiesOK
  <2>2. ent[w].manuallyEdited
    BY <1>3 DEF InHand, Insert, Write
  <2>3. /\ entries'[id].manuallyEdited = ent[w].manuallyEdited
        /\ entries'[id].duration = ent[w].duration
    BY <1>1, Stored, Written
  <2> QED
    BY <2>1, <2>2, <2>3 DEF InHand
<1> QED
  BY <1>2, <1>3

LEMMA InHandStep ==
  ASSUME IInv, AllCarried, ManualSpanExact, [Next]_vars, NEW w \in Workers, InHand(w),
         Arrive(w) \/ Serve(w) \/ Fail(w)
  PROVE  InHand(w)'
<1>1. ASSUME Finish(w) \/ NextItem(w) PROVE InHand(w)'
  BY <1>1, Where, AtRest DEF Finish, NextItem
<1>2. CASE Arrive(w)
  <2>1. ASSUME NEW r \in SyncRequests, StartSync(w, r) PROVE InHand(w)'
    BY <2>1, Where, AtRest DEF StartSync
  <2>2. ASSUME NEW u \in Editors, NEW dto \in ManualDtos, StartManual(w, u, dto)
        PROVE  InHand(w)'
    BY <2>2, Where, AtRest DEF StartManual
  <2> QED
    BY <1>2, <2>1, <2>2, UpdateInHand DEF Arrive
<1>3. CASE Serve(w)
  BY <1>1, <1>3, FindInHand, ManualInHand, ApplyInHand, ReloadInHand, SavedInHand
     DEF Serve, SkipForeign, SkipCorrected, SyncRespond, TaskNotFound, Rejected, WriteAudit
<1>4. CASE Fail(w)
  BY <1>1, <1>4 DEF Fail
<1> QED
  BY <1>2, <1>3, <1>4

-----------------------------------------------------------------------------
(* The inductive step of SerialInv. *)

LEMMA SpanStep ==
  ASSUME IInv, SerialInv, [Next]_vars
  PROVE  ManualSpanExact'
<1>1. ASSUME NEW w \in Workers, Insert(w) PROVE ManualSpanExact'
  <2> DEFINE n == Len(entries) + 1
             new == entries'[n]
  <2>1. SpanOf(ent[w])
    BY <1>1 DEF SerialInv, InHand, Insert
  <2>2. /\ ent[w] \in Entity /\ new.localId = ent[w].localId /\ new.start = ent[w].start
        /\ new.duration = ent[w].duration /\ new.end = Inserted(ent[w].end)
    BY <1>1, Stored
  <2>3. ent[w].start + ent[w].duration # Undef
    BY <2>2, IdsAssumption DEF Entity
  <2>4. new.localId \in ManualIds => new.end = new.start + new.duration
    BY <2>1, <2>2, <2>3 DEF SpanOf, Inserted
  <2>5. /\ DOMAIN entries' = DOMAIN entries \cup {n}
        /\ \A i \in DOMAIN entries : entries'[i] = entries[i]
    BY <1>1, InsertRows
  <2> HIDE DEF n
  <2> QED
    BY <2>4, <2>5 DEF SerialInv, ManualSpanExact
<1>2. ASSUME NEW w \in Workers, Write(w) PROVE ManualSpanExact'
  <2> DEFINE i == rowId[w]
             new == entries'[i]
  <2>1. SpanOf(ent[w]) /\ ent[w].localId = entries[i].localId
    BY <1>2 DEF SerialInv, InHand, Write
  <2>2. /\ ent[w] \in Entity /\ new.localId = entries[i].localId /\ new.start = ent[w].start
        /\ new.duration = ent[w].duration
        /\ new.end = IF ent[w].end = Undef THEN entries[i].end ELSE ent[w].end
    BY <1>2, Written DEF SerialInv
  <2>3. ent[w].start + ent[w].duration # Undef
    BY <2>2, IdsAssumption DEF Entity
  <2>4. new.localId \in ManualIds => new.end = new.start + new.duration
    BY <2>1, <2>2, <2>3 DEF SpanOf
  <2>5. /\ DOMAIN entries' = DOMAIN entries
        /\ \A j \in DOMAIN entries : j # i => entries'[j] = entries[j]
    BY <1>2, WriteRows
  <2> HIDE DEF i
  <2> QED
    BY <2>4, <2>5 DEF SerialInv, ManualSpanExact
<1>3. CASE entries' = entries
  BY <1>3 DEF SerialInv, ManualSpanExact
<1> QED
  BY <1>1, <1>2, <1>3, EntriesChange

LEMMA SerialStep ==
  ASSUME OneAtATime, IInv, AllCarried, SerialInv, [Next]_vars
  PROVE  SerialInv'
<1>1. HeldUncorrected'
  BY HeldUncorrectedStep DEF SerialInv
<1>2. ManualSpanExact'
  BY SpanStep
<1>3. ASSUME NEW w \in Workers PROVE InHand(w)'
  <2>1. CASE UNCHANGED <<entries, pc, req, rowId, ent, dirty>>
    BY <2>1 DEF SerialInv, InHand, Kind, SpanOf
  <2>2. CASE \E v \in Workers : Arrive(v) \/ Serve(v) \/ Fail(v)
    <3>1. Arrive(w) \/ Serve(w) \/ Fail(w)
      BY <2>2 DEF OneAtATime
    <3> QED
      BY <3>1, InHandStep DEF SerialInv
  <2> QED
    BY <2>1, <2>2 DEF Next, Archive, Restore, vars, db
<1> QED
  BY <1>1, <1>2, <1>3 DEF SerialInv

LEMMA Serial == ASSUME OneAtATime PROVE Spec => [](IInv /\ AllCarried /\ SerialInv)
<1>1. Init => SerialInv
  BY DEF Init, SerialInv, HeldUncorrected, ManualSpanExact, InHand
<1>2. IInv /\ AllCarried /\ SerialInv /\ [Next]_vars => SerialInv'
  BY SerialStep
<1> QED
  BY <1>1, <1>2, Invariance, CarriedAlways, PTL DEF Spec

(* When requests do not overlap, a manual entry spans exactly its          *)
(* duration, through any number of corrections of its date, its duration   *)
(* or its task.                                                            *)
THEOREM ManualSpansHold == ASSUME OneAtATime PROVE Spec => []ManualSpanExact
<1>1. SerialInv => ManualSpanExact
  BY DEF SerialInv
<1> QED
  BY <1>1, Serial, PTL

(* When requests do not overlap, no sync and no correction loses an end    *)
(* time: the entity that is saved was made from a row that had it.         *)
THEOREM EndsStay == ASSUME OneAtATime PROVE Spec => EndNeverErased
<1>1. ASSUME IInv, SerialInv, [Next]_vars, NEW i \in DOMAIN entries, entries[i].end # Null
      PROVE  entries'[i].end # Null
  <2>1. ASSUME NEW w \in Workers, Write(w) PROVE entries'[i].end # Null
    <3>1. CASE i = rowId[w]
      <4>1. ent[w].end # Null
        BY <1>1, <2>1, <3>1 DEF SerialInv, InHand, Write
      <4>2. entries'[i].end = IF ent[w].end = Undef THEN entries[i].end ELSE ent[w].end
        BY <1>1, <2>1, <3>1, Written DEF SerialInv
      <4> QED
        BY <1>1, <4>1, <4>2
    <3> QED
      BY <1>1, <2>1, <3>1, WriteRows
  <2> QED
    BY <1>1, <2>1, EntriesChange, InsertRows
<1>2. IInv /\ SerialInv /\ [Next]_vars =>
        [\A i \in DOMAIN entries : entries[i].end # Null => entries'[i].end # Null]_vars
  BY <1>1
<1> QED
  BY <1>2, Serial, PTL DEF Spec, EndNeverErased

-----------------------------------------------------------------------------
(* What a sync has acknowledged: SyncAcknowledged, at every call of sync(). *)

Shown(r, k, n) ==
    \/ Foreign(r, r.batch[k])
    \/ Superseded(r, k, n)
    \/ \E i \in RowsOf(r.batch[k].localId) :
          entries[i].manuallyEdited \/ Reflects(entries[i], r.batch[k])

AckedBy(w) ==
    Kind(w) = "sync" /\ pc[w] \in {"next", "insert", "reload", "write"} =>
       \A k \in 1 .. pos[w] - 1 : Shown(req[w], k, pos[w] - 1)

AllAcked == \A w \in Workers : AckedBy(w)

(* The row of the current item says what the item says, and the row of     *)
(* every other localId is left alone.                                      *)
LEMMA ItemSaved ==
  ASSUME IInv, AllCarried, NEW w \in Workers, InHand(w), Kind(w) = "sync",
         Insert(w) \/ Write(w)
  PROVE  /\ \E i \in DOMAIN entries' : /\ entries'[i].localId = Current(w).localId
                                       /\ Reflects(entries'[i], Current(w))
         /\ \A i \in DOMAIN entries : entries[i].localId # Current(w).localId =>
               i \in DOMAIN entries' /\ entries'[i] = entries[i]
<1> DEFINE item == Current(w)
<1>1. /\ pc[w] \in {"insert", "write"} /\ Carries(ent[w], item)
      /\ pc[w] = "write" => entries[rowId[w]].localId = item.localId
  BY DEF AllCarried, Carried, Insert, Write
<1>2. item \in Item
  BY <1>1 DEF AllCarried, Carried, Current, SyncRequest
<1> HIDE DEF item
<1>3. item.end # Undef => item.end # Null /\ ent[w].end = item.end
  BY <1>1, <1>2, IdsAssumption DEF Carries, Item
<1>4. CASE Insert(w)
  <2> DEFINE i == Len(entries) + 1
             new == entries'[i]
  <2>1. /\ new.localId = ent[w].localId /\ new.employee = ent[w].employee
        /\ new.task = ent[w].task /\ new.start = ent[w].start
        /\ new.duration = ent[w].duration /\ new.end = Inserted(ent[w].end)
    BY <1>4, Stored
  <2> HIDE DEF new
  <2>2. new.localId = item.localId /\ Reflects(new, item)
    BY <1>1, <1>3, <2>1 DEF Carries, Reflects, Inserted
  <2>3. /\ i \in DOMAIN entries' /\ DOMAIN entries \subseteq DOMAIN entries'
        /\ \A j \in DOMAIN entries : entries'[j] = entries[j]
    BY <1>4, InsertRows
  <2> QED
    BY <2>2, <2>3 DEF new, item
<1>5. CASE Write(w)
  <2> DEFINE i == rowId[w]
             new == entries'[i]
  <2>1. /\ new.localId = entries[i].localId /\ new.employee = ent[w].employee
        /\ new.task = ent[w].task /\ new.start = ent[w].start
        /\ new.duration = ent[w].duration
        /\ new.end = IF ent[w].end = Undef THEN entries[i].end ELSE ent[w].end
    BY <1>5, Written
  <2>2. entries[i].localId = item.localId
    BY <1>1, <1>5 DEF Write
  <2> HIDE DEF new
  <2>3. new.localId = item.localId /\ Reflects(new, item)
    BY <1>1, <1>3, <2>1, <2>2 DEF Carries, Reflects
  <2>4. /\ i \in DOMAIN entries' /\ DOMAIN entries = DOMAIN entries'
        /\ \A j \in DOMAIN entries : j # i => entries'[j] = entries[j]
    BY <1>5, WriteRows
  <2> QED
    BY <2>2, <2>3, <2>4 DEF new, item
<1> QED
  BY <1>4, <1>5

(* Going on to the next item acknowledges the current one. *)
LEMMA AckNext ==
  ASSUME IInv, NEW w \in Workers, AckedBy(w), NEW r, NEW p \in Nat \ {0},
         r = req[w], p = pos[w], Kind(w) = "sync",
         pc[w] \in {"next", "insert", "reload", "write"}, NextItem(w), UNCHANGED req,
         Shown(r, p, p)',
         \A k \in 1 .. p - 1 : Shown(r, k, p - 1) => Shown(r, k, p)'
  PROVE  AckedBy(w)'
<1>1. pos'[w] = p + 1 /\ req'[w] = r
  BY DEF NextItem, IInv, TypeOK, RequestsOK
<1>2. \A k \in 1 .. p - 1 : Shown(r, k, p)'
  BY DEF AckedBy
<1>3. \A k \in 1 .. pos'[w] - 1 : Shown(r, k, p)'
  BY <1>1, <1>2
<1>4. pos'[w] - 1 = p
  BY <1>1
<1> QED
  BY <1>1, <1>3, <1>4 DEF AckedBy

LEMMA AckSkip ==
  ASSUME IInv, NEW w \in Workers, AckedBy(w), SkipForeign(w) \/ SkipCorrected(w)
  PROVE  AckedBy(w)'
<1>1. PICK r, p : r = req[w] /\ p = pos[w]
  OBVIOUS
<1>2. /\ InBatch(w) /\ NextItem(w) /\ UNCHANGED <<entries, req>>
      /\ \/ Foreign(r, r.batch[p])
         \/ \E i \in RowsOf(r.batch[p].localId) : entries[i].manuallyEdited
  BY <1>1 DEF SkipForeign, SkipCorrected, Current, Corrected, db
<1>3. pc[w] = "next" /\ Kind(w) = "sync" /\ p \in Nat \ {0}
  BY <1>1, <1>2, Kinds DEF InBatch, Kind, IInv, WorkersOK, Phase
<1>4. Shown(r, p, p)'
  BY <1>2 DEF Shown, RowsOf
<1>5. \A k \in 1 .. p - 1 : Shown(r, k, p - 1) => Shown(r, k, p)'
  BY <1>2, <1>3 DEF Shown, Superseded, RowsOf
<1> QED
  BY <1>1, <1>2, <1>3, <1>4, <1>5, AckNext

LEMMA AckSaved ==
  ASSUME IInv, AllCarried, NEW w \in Workers, InHand(w), AckedBy(w), Kind(w) = "sync",
         Insert(w) \/ Write(w)
  PROVE  AckedBy(w)'
<1>1. PICK r, p : r = req[w] /\ p = pos[w]
  OBVIOUS
<1>2. pc[w] \in {"insert", "write"} /\ NextItem(w) /\ UNCHANGED req
  BY DEF Insert, Write, AfterSave
<1>3. /\ p \in Nat \ {0} /\ Current(w) = r.batch[p] /\ ~Foreign(r, r.batch[p])
  <2>1. /\ req[w] \in SyncRequest /\ pos[w] \in 1 .. Len(req[w].batch)
        /\ ~Foreign(req[w], Current(w))
    BY <1>2 DEF AllCarried, Carried
  <2>2. Len(req[w].batch) \in Nat
    BY <2>1 DEF SyncRequest
  <2> QED
    BY <1>1, <2>1, <2>2 DEF Current
<1>4. /\ \E i \in DOMAIN entries' : /\ entries'[i].localId = r.batch[p].localId
                                    /\ Reflects(entries'[i], r.batch[p])
      /\ \A i \in DOMAIN entries : entries[i].localId # r.batch[p].localId =>
            i \in DOMAIN entries' /\ entries'[i] = entries[i]
  BY <1>3, ItemSaved
<1>5. Shown(r, p, p)'
  BY <1>4 DEF Shown, RowsOf
<1>6. ASSUME NEW k \in 1 .. p - 1, Shown(r, k, p - 1)
      PROVE  Shown(r, k, p)'
  <2>1. CASE r.batch[k].localId = r.batch[p].localId
    BY <1>3, <2>1 DEF Shown, Superseded
  <2>2. CASE r.batch[k].localId # r.batch[p].localId
    <3>1. CASE Foreign(r, r.batch[k]) \/ Superseded(r, k, p - 1)
      BY <1>3, <3>1 DEF Shown, Superseded
    <3>2. CASE \E i \in RowsOf(r.batch[k].localId) :
                  entries[i].manuallyEdited \/ Reflects(entries[i], r.batch[k])
      BY <1>4, <2>2, <3>2 DEF Shown, RowsOf
    <3> QED
      BY <1>6, <3>1, <3>2 DEF Shown
  <2> QED
    BY <2>1, <2>2
<1> QED
  BY <1>1, <1>2, <1>3, <1>5, <1>6, AckNext

LEMMA AckStep ==
  ASSUME IInv, AllCarried, NEW w \in Workers, InHand(w), AckedBy(w),
         Arrive(w) \/ Serve(w) \/ Fail(w)
  PROVE  AckedBy(w)'
<1>1. ASSUME pc'[w] \in {"idle", "manualTask", "updateTask", "audit"} PROVE AckedBy(w)'
  BY <1>1 DEF AckedBy
<1>2. ASSUME Finish(w) PROVE AckedBy(w)'
  BY <1>1, <1>2, Where DEF Finish
<1>3. CASE Arrive(w)
  <2>1. ASSUME NEW r \in SyncRequests, StartSync(w, r) PROVE AckedBy(w)'
    <3>1. pos'[w] = 1
      BY <2>1 DEF StartSync, IInv, TypeOK, RequestsOK
    <3> QED
      BY <3>1 DEF AckedBy
  <2>2. ASSUME NEW u \in Editors, NEW dto \in ManualDtos, StartManual(w, u, dto)
        PROVE  AckedBy(w)'
    BY <1>1, <2>2, Where DEF StartManual
  <2>3. ASSUME NEW u \in Editors, NEW id \in DOMAIN entries, NEW dto \in UpdateDtos,
               StartUpdate(w, u, id, dto)
        PROVE  AckedBy(w)'
    <3>1. req' = [req EXCEPT ![w] = [kind |-> "update", sub |-> u, dto |-> dto,
                                     previous |-> entries[id].duration]]
      BY <2>3 DEF StartUpdate
    <3>2. req'[w].kind = "update"
      BY <3>1 DEF IInv, TypeOK, RequestsOK
    <3> QED
      BY <3>2 DEF AckedBy, Kind
  <2> QED
    BY <1>3, <2>1, <2>2, <2>3 DEF Arrive
<1>4. CASE FindTracked(w) \/ FindNothing(w) \/ Reload(w)
  <2>1. UNCHANGED <<entries, req, pos>> /\ pc[w] \in {"next", "reload"}
    BY <1>4 DEF FindTracked, FindNothing, Reload, InBatch, db
  <2> QED
    BY <2>1 DEF AckedBy, Kind, Shown, RowsOf
<1>5. CASE BuildManual(w) \/ ApplyUpdate(w)
  <2>1. req[w] \in ManualRequest \cup UpdateRequest /\ UNCHANGED req
    BY <1>5 DEF BuildManual, ApplyUpdate, IInv, WorkersOK, Phase
  <2> QED
    BY <2>1, Kinds DEF AckedBy, Kind
<1>6. CASE Insert(w) \/ Write(w)
  <2>1. CASE Kind(w) = "sync"
    BY <1>6, <2>1, AckSaved
  <2>2. CASE Kind(w) # "sync"
    BY <1>1, <1>6, <2>2, Where DEF Insert, Write, AfterSave
  <2> QED
    BY <2>1, <2>2
<1> QED
  BY <1>2, <1>3, <1>4, <1>5, <1>6, AckSkip
     DEF Serve, Fail, SyncRespond, TaskNotFound, Rejected, WriteAudit

(* When requests do not overlap, what a sync has passed over in its batch  *)
(* is in the table: each item's row says what the item says, unless a      *)
(* later item of the localId or HR's correction does.  So a 200            *)
(* acknowledges everything the desktop app then forgets.                   *)
THEOREM SyncIsAcknowledged == ASSUME OneAtATime PROVE Spec => []SyncAcknowledged
<1>1. Init => AllAcked
  BY DEF Init, AllAcked, AckedBy
<1>2. ASSUME IInv, AllCarried, SerialInv, AllAcked, [Next]_vars PROVE AllAcked'
  <2>1. ASSUME NEW w \in Workers PROVE AckedBy(w)'
    <3>1. CASE UNCHANGED <<entries, pc, req, pos>>
      BY <1>2, <3>1 DEF AllAcked, AckedBy, Kind, Shown, RowsOf
    <3>2. CASE \E v \in Workers : Arrive(v) \/ Serve(v) \/ Fail(v)
      <4>1. Arrive(w) \/ Serve(w) \/ Fail(w)
        BY <3>2 DEF OneAtATime
      <4> QED
        BY <1>2, <4>1, AckStep DEF SerialInv, AllAcked
    <3> QED
      BY <1>2, <3>1, <3>2 DEF Next, Archive, Restore, vars, db
  <2> QED
    BY <2>1 DEF AllAcked
<1>3. IInv /\ AllAcked => SyncAcknowledged
  <2> SUFFICES ASSUME IInv, AllAcked, NEW w \in Workers, pc[w] = "next",
                      NEW k \in 1 .. pos[w] - 1
               PROVE  Shown(req[w], k, pos[w] - 1)
    BY DEF SyncAcknowledged, Shown
  <2>1. Kind(w) = "sync"
    BY Kinds DEF IInv, WorkersOK, Phase, Kind
  <2> QED
    BY <2>1 DEF AllAcked, AckedBy
<1>4. IInv /\ AllCarried /\ SerialInv /\ AllAcked /\ [Next]_vars => AllAcked'
  BY <1>2
<1> QED
  BY <1>1, <1>3, <1>4, Serial, PTL DEF Spec

-----------------------------------------------------------------------------
(* The history of corrections, as long as no database call has failed. *)

(* Only a row that stands corrected has audit rows. *)
Recorded ==
    \A k \in DOMAIN audits : /\ audits[k].entry \in DOMAIN entries
                             /\ entries[audits[k].entry].manuallyEdited

Chained ==
    \A k, m \in DOMAIN audits : Follows(m, k) => audits[m].previous = audits[k].new

(* A corrected row nobody is about to audit: its last audit row is right.  *)
EndsInRow ==
    \A i \in DOMAIN entries : entries[i].manuallyEdited /\ ~AuditPending(i) =>
       \E k \in DOMAIN audits : /\ audits[k].entry = i /\ Latest(k)
                                /\ audits[k].new = entries[i].duration

(* The audit row to be written goes on from the last one. *)
Pending ==
    \A w \in Workers : pc[w] = "audit" =>
       \A k \in DOMAIN audits : audits[k].entry = rowId[w] /\ Latest(k)
                                => audits[k].new = req[w].previous

Ledger == Recorded /\ Chained /\ EndsInRow /\ Pending

LEMMA FailuresCount ==
  ASSUME IInv, [Next]_vars, failures' = 0
  PROVE  failures = 0 /\ \A w \in Workers : ~Fail(w)
<1>1. \A w \in Workers : ~Fail(w)
  BY DEF Fail, IInv, TypeOK
<1>2. failures' = failures
  BY <1>1
     DEF Next, Arrive, StartSync, StartManual, StartUpdate, Serve, SkipForeign, SkipCorrected,
         FindTracked, FindNothing, SyncRespond, BuildManual, ApplyUpdate, TaskNotFound, Insert,
         Reload, Write, Rejected, WriteAudit, Archive, Restore, vars
<1> QED
  BY <1>1, <1>2

(* The steps between a saved correction and its audit row, and those that  *)
(* have to do with neither.                                                *)
LEMMA AuditStays ==
  ASSUME IInv, [Next]_vars, NEW w \in Workers,
         \A v \in Workers : ~Insert(v) /\ ~Write(v) /\ ~WriteAudit(v) /\ ~Fail(v)
  PROVE  /\ pc'[w] = "audit" => pc[w] = "audit"
         /\ pc[w] = "audit" => /\ pc'[w] = "audit" /\ rowId'[w] = rowId[w]
                               /\ req'[w] = req[w]
<1>1. ASSUME Arrive(w) \/ Serve(w) \/ Fail(w)
      PROVE  pc[w] # "audit" /\ pc'[w] # "audit"
  <2>1. pc[w] # "audit"
    BY <1>1 DEF Arrive, StartSync, StartManual, StartUpdate, Idle, Serve, SkipForeign,
       SkipCorrected, FindTracked, FindNothing, InBatch, SyncRespond, BuildManual, ApplyUpdate,
       TaskNotFound, Reload, Rejected
  <2>2. \/ \E p \in {"idle", "next", "manualTask", "updateTask", "write"} : Goto(w, p)
        \/ \E id, e : Save(w, id, e)
    BY <1>1, Zenon
       DEF Arrive, StartSync, StartManual, StartUpdate, Serve, SkipForeign,
           SkipCorrected, FindTracked, FindNothing, SyncRespond, BuildManual, ApplyUpdate,
           TaskNotFound, Reload, Rejected, Finish, NextItem
  <2> QED
    BY <2>1, <2>2, Where
<1>2. ASSUME NEW v \in Workers, Arrive(v) \/ Serve(v) \/ Fail(v), v # w
      PROVE  pc'[w] = pc[w] /\ rowId'[w] = rowId[w] /\ req'[w] = req[w]
  BY <1>2, OneStepsAtATime DEF Elsewhere
<1>3. CASE UNCHANGED <<pc, rowId, req>>
  BY <1>3
<1> QED
  BY <1>1, <1>2, <1>3 DEF Next, Archive, Restore, vars

LEMMA LedgerKept ==
  ASSUME IInv, Ledger, [Next]_vars,
         \A v \in Workers : ~Insert(v) /\ ~Write(v) /\ ~WriteAudit(v) /\ ~Fail(v)
  PROVE  Ledger'
<1>1. UNCHANGED <<entries, audits>>
  BY EntriesChange, AuditsChange
<1>2. \A i : AuditPending(i) => AuditPending(i)'
  BY AuditStays DEF AuditPending
<1>3. \A k, m : Follows(m, k)' = Follows(m, k) /\ Latest(k)' = Latest(k)
  BY <1>1 DEF Follows, Latest
<1>4. Recorded' /\ Chained'
  BY <1>1, <1>3 DEF Ledger, Recorded, Chained
<1>5. EndsInRow'
  BY <1>1, <1>2, <1>3 DEF Ledger, EndsInRow
<1>6. Pending'
  BY <1>1, <1>3, AuditStays DEF Ledger, Pending
<1> QED
  BY <1>4, <1>5, <1>6 DEF Ledger

(* A save that stores no correction. *)
LEMMA LedgerSync ==
  ASSUME OneAtATime, IInv, SerialInv, Ledger, NEW w \in Workers, Kind(w) = "sync",
         Insert(w) \/ Write(w)
  PROVE  Ledger'
<1>1. /\ UNCHANGED <<audits, req>> /\ pc[w] \in {"insert", "write"} /\ pc'[w] = "next"
  BY Where DEF Insert, Write, AfterSave, NextItem
<1>2. \A i : ~AuditPending(i) /\ ~AuditPending(i)'
  BY <1>1 DEF OneAtATime, AuditPending
<1>3. \A k, m : Follows(m, k)' = Follows(m, k) /\ Latest(k)' = Latest(k)
  BY <1>1 DEF Follows, Latest
<1>4. /\ DOMAIN entries \subseteq DOMAIN entries'
      /\ \A i \in DOMAIN entries : entries[i].manuallyEdited => entries'[i] = entries[i]
      /\ \A i \in DOMAIN entries' : entries'[i].manuallyEdited =>
            i \in DOMAIN entries /\ entries[i].manuallyEdited
  <2>1. ~ent[w].manuallyEdited
    BY <1>1, Kinds DEF IInv, WorkersOK, Phase, Kind
  <2>2. CASE Insert(w)
    BY <2>1, <2>2, Stored, InsertRows
  <2>3. CASE Write(w)
    <3>1. rowId[w] \in DOMAIN entries /\ ~entries[rowId[w]].manuallyEdited
      BY <1>1, <2>3, WriteRows DEF SerialInv, HeldUncorrected, Holding, Write
    <3>2. ~entries'[rowId[w]].manuallyEdited
      BY <2>1, <2>3, Written DEF SerialInv
    <3> QED
      BY <2>3, <3>1, <3>2, WriteRows
  <2> QED
    BY <2>2, <2>3
<1>5. Recorded' /\ Chained'
  BY <1>1, <1>3, <1>4 DEF Ledger, Recorded, Chained
<1>6. EndsInRow'
  BY <1>1, <1>2, <1>3, <1>4 DEF Ledger, EndsInRow
<1>7. Pending'
  BY <1>1 DEF OneAtATime, Pending
<1> QED
  BY <1>5, <1>6, <1>7 DEF Ledger

(* A save of a correction: the row waits for its audit row, which will go  *)
(* on from the duration the row had.                                       *)
LEMMA LedgerCorrected ==
  ASSUME OneAtATime, IInv, SerialInv, Ledger, NEW w \in Workers, Kind(w) # "sync",
         Insert(w) \/ Write(w)
  PROVE  Ledger'
<1>1. PICK id : /\ AfterSave(w, id)
                /\ \/ Insert(w) /\ id = Len(entries) + 1
                   \/ Write(w) /\ id = rowId[w]
  BY DEF Insert, Write
<1>2. /\ UNCHANGED <<audits, req>> /\ pc[w] \in {"insert", "write"}
      /\ pc'[w] = "audit" /\ rowId'[w] = id
  BY <1>1 DEF Insert, Write, AfterSave, Goto, IInv, TypeOK, RequestsOK, EntitiesOK
<1>3. /\ \A i : ~AuditPending(i)
      /\ \A i : AuditPending(i)' <=> i = id
  BY <1>2 DEF OneAtATime, AuditPending
<1>4. \A k, m : Follows(m, k)' = Follows(m, k) /\ Latest(k)' = Latest(k)
  BY <1>2 DEF Follows, Latest
<1>5. /\ DOMAIN entries' = DOMAIN entries \cup {id}
      /\ \A i \in DOMAIN entries : i # id => entries'[i] = entries[i]
      /\ entries'[id].manuallyEdited
  <2>1. ent[w].manuallyEdited
    BY <1>2 DEF SerialInv, InHand
  <2> QED
    BY <1>1, <2>1, Stored, Written, InsertRows, WriteRows DEF SerialInv
<1>6. Recorded' /\ Chained'
  BY <1>2, <1>4, <1>5 DEF Ledger, Recorded, Chained
<1>7. EndsInRow'
  BY <1>2, <1>3, <1>4, <1>5 DEF Ledger, EndsInRow
<1>8. ASSUME NEW k \in DOMAIN audits, audits[k].entry = id, Latest(k)
      PROVE  audits[k].new = req[w].previous
  <2>1. id \in DOMAIN entries /\ entries[id].manuallyEdited
    BY <1>8 DEF Ledger, Recorded
  <2>2. Write(w) /\ id = rowId[w]
    BY <1>1, <2>1, InsertRows
  <2>3. req[w].previous = entries[id].duration
    <3>1. Kind(w) = "update"
      BY <1>2, <2>2, Kinds DEF Write, IInv, WorkersOK, Phase, Kind
    <3> QED
      BY <2>2, <3>1 DEF SerialInv, InHand, Write
  <2>4. PICK j \in DOMAIN audits : /\ audits[j].entry = id /\ Latest(j)
                                   /\ audits[j].new = entries[id].duration
    BY <1>3, <2>1 DEF Ledger, EndsInRow
  <2>5. j = k
    BY <1>8, <2>4 DEF Latest, IInv, TypeOK, AuditsOK
  <2> QED
    BY <2>3, <2>4, <2>5
<1>9. Pending'
  BY <1>2, <1>4, <1>8 DEF OneAtATime, Pending
<1> QED
  BY <1>6, <1>7, <1>9 DEF Ledger

LEMMA LedgerAudited ==
  ASSUME OneAtATime, IInv, SerialInv, Ledger, NEW w \in Workers, WriteAudit(w)
  PROVE  Ledger'
<1>1. PICK id, a : id = rowId[w] /\ a = Audit(w)
  OBVIOUS
<1>2. /\ pc[w] = "audit" /\ pc'[w] = "idle" /\ UNCHANGED entries
      /\ audits' = Append(audits, a) /\ audits \in Seq(AuditRow)
  BY <1>1, Where DEF WriteAudit, Finish, IInv, TypeOK, AuditsOK
<1>3. a.entry = id /\ a.previous = req[w].previous /\ a.new = ent[w].duration
  BY <1>1 DEF Audit
<1>4. /\ id \in DOMAIN entries /\ entries[id].manuallyEdited
      /\ entries[id].duration = ent[w].duration
  BY <1>1, <1>2 DEF SerialInv, InHand, IInv, WorkersOK, Phase
<1> DEFINE n == Len(audits) + 1
<1>5. /\ DOMAIN audits = 1 .. Len(audits) /\ DOMAIN audits' = 1 .. n
      /\ Len(audits) \in Nat /\ Len(audits') = n
      /\ audits'[n] = a /\ \A k \in DOMAIN audits : audits'[k] = audits[k]
  BY <1>2, AppendProperties
<1>6. \A i : AuditPending(i) <=> i = id
  BY <1>1, <1>2 DEF OneAtATime, AuditPending
<1>7. Recorded'
  BY <1>2, <1>3, <1>4, <1>5 DEF Ledger, Recorded
<1>8. ASSUME NEW k \in DOMAIN audits', NEW m \in DOMAIN audits', Follows(m, k)'
      PROVE  audits'[m].previous = audits'[k].new
  <2>1. k \in DOMAIN audits
    BY <1>5, <1>8 DEF Follows
  <2>2. CASE m = n
    <3>1. audits[k].entry = id /\ Latest(k)
      BY <1>3, <1>5, <1>8, <2>1, <2>2 DEF Follows, Latest
    <3> QED
      BY <1>1, <1>2, <1>3, <1>5, <2>1, <2>2, <3>1 DEF Ledger, Pending
  <2>3. CASE m # n
    <3>1. m \in DOMAIN audits /\ Follows(m, k)
      BY <1>5, <1>8, <2>1, <2>3 DEF Follows
    <3> QED
      BY <1>5, <2>1, <3>1 DEF Ledger, Chained
  <2> QED
    BY <2>2, <2>3
<1>9. ASSUME NEW i \in DOMAIN entries, entries[i].manuallyEdited
      PROVE  \E k \in DOMAIN audits' : /\ audits'[k].entry = i /\ Latest(k)'
                                       /\ audits'[k].new = entries[i].duration
  <2>1. CASE i = id
    BY <1>3, <1>4, <1>5, <2>1 DEF Latest
  <2>2. CASE i # id
    <3>1. PICK k \in DOMAIN audits : /\ audits[k].entry = i /\ Latest(k)
                                     /\ audits[k].new = entries[i].duration
      BY <1>6, <1>9, <2>2 DEF Ledger, EndsInRow
    <3>2. Latest(k)'
      BY <1>3, <1>5, <2>2, <3>1 DEF Latest
    <3> QED
      BY <1>5, <3>1, <3>2
  <2> QED
    BY <2>1, <2>2
<1>10. Chained' /\ EndsInRow'
  BY <1>2, <1>8, <1>9 DEF Chained, EndsInRow
<1>11. Pending'
  BY <1>2 DEF OneAtATime, Pending
<1> QED
  BY <1>7, <1>10, <1>11 DEF Ledger

(* When requests do not overlap and no database call has failed, the       *)
(* history accounts for every corrected entry: it has audit rows, each     *)
(* continues from the duration the one before recorded, and the last one   *)
(* recorded the duration the row has.                                      *)
THEOREM HistoryAccounts == ASSUME OneAtATime PROVE Spec => []AuditLedger
<1> DEFINE LedgerInv == failures = 0 => Ledger
<1>1. Init => LedgerInv
  BY DEF Init, Ledger, Recorded, Chained, EndsInRow, Pending
<1>2. ASSUME IInv, SerialInv, LedgerInv, [Next]_vars PROVE LedgerInv'
  <2> SUFFICES ASSUME failures' = 0 PROVE Ledger'
    OBVIOUS
  <2>1. Ledger /\ \A w \in Workers : ~Fail(w)
    BY <1>2, FailuresCount
  <2>2. CASE \A w \in Workers : ~Insert(w) /\ ~Write(w) /\ ~WriteAudit(w)
    BY <1>2, <2>1, <2>2, LedgerKept
  <2>3. ASSUME NEW w \in Workers, Insert(w) \/ Write(w) PROVE Ledger'
    BY <1>2, <2>1, <2>3, LedgerSync, LedgerCorrected
  <2>4. ASSUME NEW w \in Workers, WriteAudit(w) PROVE Ledger'
    BY <1>2, <2>1, <2>4, LedgerAudited
  <2> QED
    BY <2>2, <2>3, <2>4
<1>3. LedgerInv => AuditLedger
  BY DEF Ledger, EndsInRow, Chained, AuditLedger
<1>4. IInv /\ AllCarried /\ SerialInv /\ LedgerInv /\ [Next]_vars => LedgerInv'
  BY <1>2
<1> QED
  BY <1>1, <1>3, <1>4, Serial, PTL DEF Spec
===============================================================================
