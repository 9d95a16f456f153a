---------------------------- MODULE CatalogProofs ----------------------------
(***************************************************************************)
(* Theorems of Catalog for every seed, every set of users, requests and    *)
(* workers.  Phase is what a worker holds at each call it waits for,       *)
(* however requests overlap; RowsOK is what the indexes and the NOT NULL   *)
(* columns make of the rows.  The invariants under Serial add what holds   *)
(* when requests do not overlap.                                           *)
(***************************************************************************)
EXTENDS Catalog, SequenceTheorems, TLAPS

Editor == {"checkName", "findClient", "reload", "write"}
Keeper == {"count", "cascade", "archive", "restore"}
Labels == {"idle", "insert"} \cup Editor \cup Keeper

(* An entity in memory: one that was deleted is not found.                 *)
Entity == [name: Names, detail: Details, department: Ids \cup {Null},
           parent: Ids \cup {Null}, createdBy: Ids \cup {Null}, deleted: {FALSE}]

(* A worker about to make call p for request r, with entity e, when the    *)
(* ids of the rows are ids.                                                *)
Phase(p, r, e, ids) ==
    /\ p # "idle" => r \in Request
    /\ p = "insert" \/ p \in Editor => e \in Entity
    /\ p \in Editor \cup Keeper => r.id \in ids

(* What the constraints of the tables say of one row.                      *)
Sound(row) == row \in Row /\ Linked(row) /\ (row.deleted => row.deletedBy # Null)

RowsOK == rows \in Seq(Row) /\ \A i \in DOMAIN rows : Sound(rows[i])

KeysUnique ==
    \A i, j \in DOMAIN rows :
       /\ ~rows[i].deleted /\ ~rows[j].deleted
       /\ SameKey(rows[j], rows[i].table, rows[i].name, rows[i].department)
       => i = j

MemoryOK ==
    /\ overlap \in BOOLEAN /\ failures \in Nat
    /\ pc \in [Workers -> Labels]
    /\ req \in [Workers -> Request \cup {NoRequest}]
    /\ ent \in [Workers -> Entity \cup {NoEntity}]
    /\ dirty \in [Workers -> SUBSET Columns]

WorkersOK == \A w \in Workers : Phase(pc[w], req[w], ent[w], DOMAIN rows)

IInv == RowsOK /\ KeysUnique /\ MemoryOK /\ WorkersOK

-----------------------------------------------------------------------------
(* Requests that do not overlap. *)

OneAtATime == \A v, w \in Workers : ~Idle(v) /\ ~Idle(w) => v = w

(* The entity w's request saves, were it to read the row now. *)
Wanted(w) ==
    IF req[w].op = "update" THEN Edited(Loaded(req[w].id), req[w].dto)
    ELSE [Loaded(req[w].id) EXCEPT !.parent = req[w].dto.parent]

(* What worker w holds is what the rows still say. *)
Fresh(w) ==
    /\ pc[w] \in Editor => /\ req[w].op \in {"update", "assign"}
                           /\ Active(req[w].id)
    /\ pc[w] = "checkName" => req[w].op = "update"
    /\ pc[w] = "findClient" => req[w].op = "assign"
    /\ pc[w] \in {"checkName", "findClient"} => ent[w] = Loaded(req[w].id)
    /\ pc[w] \in {"reload", "write"} => ent[w] = Wanted(w)
    /\ pc[w] = "write" => dirty[w] = Dirty(ent[w], rows[req[w].id], Columns)
    /\ pc[w] \in {"count", "cascade"} => Active(req[w].id)
    /\ pc[w] = "archive" => \A j \in DOMAIN rows : Child(j, req[w].id) => rows[j].deleted

(* The request of a manager stays in the manager's department. *)
AtHome(w) ==
    LET i    == req[w].id
        dto  == req[w].dto
        home == Home(req[w].user)
    IN  ~Idle(w) /\ RoleOf[req[w].user] = "MANAGER" =>
           /\ pc[w] \notin {"count", "cascade"}
           /\ pc[w] = "insert" => ent[w].department = home
           /\ pc[w] \in Editor => rows[i].department = home /\ home # Null
           /\ pc[w] \in {"archive", "restore"} =>
                 rows[i].department = home /\ rows[i].table = "tasks"
           /\ pc[w] \in Editor /\ req[w].op = "update" =>
                 /\ dto.parent = Undef
                 /\ rows[i].table = "clients" => Given(dto.department, home) = home
           /\ pc[w] \in Editor /\ req[w].op = "assign" => rows[i].table = "tasks"
           /\ pc[w] \in {"reload", "write"} /\ req[w].op = "assign" =>
                 dto.parent \in DOMAIN rows /\ rows[dto.parent].department = home

SerialInv == ~overlap => OneAtATime /\ \A w \in Workers : Fresh(w) /\ AtHome(w)

-----------------------------------------------------------------------------
(* Rows and entities. *)

LEMMA Nulls ==
  /\ Null \notin Ids /\ Undef \notin Ids /\ Null # Undef
  /\ Null \notin Names /\ Undef \notin Names /\ Null \notin Details /\ Undef \notin Details
BY CatalogAssumption, NullIsNotUndef

LEMMA UsersAreRows == Users \subseteq Ids
<1>1. Seed \in Seq(Row) /\ Users \subseteq DOMAIN Seed
  BY CatalogAssumption
<1> QED
  BY <1>1 DEF Ids

LEMMA RowIds ==
  ASSUME RowsOK
  PROVE  /\ DOMAIN rows = 1 .. Len(rows) /\ Len(rows) \in Nat
         /\ DOMAIN rows \subseteq Ids /\ Null \notin DOMAIN rows /\ 0 \notin DOMAIN rows
         /\ \A i \in DOMAIN rows : rows[i] \in Row
BY Nulls DEF RowsOK, Ids

LEMMA JoinedIs ==
  ASSUME RowsOK, NEW i \in Ids \cup {Null}
  PROVE  Joined(i) \in {i, Null} /\ Joined(i) \in Ids \cup {Null}
BY DEF Joined

LEMMA LoadedOK ==
  ASSUME RowsOK, NEW i, Active(i)
  PROVE  Loaded(i) \in Entity
<1>1. rows[i] \in Row /\ ~rows[i].deleted
  BY RowIds DEF Active
<1>2. /\ Joined(rows[i].department) \in Ids \cup {Null}
      /\ Joined(rows[i].parent) \in Ids \cup {Null}
      /\ Joined(rows[i].createdBy) \in Ids \cup {Null}
  BY <1>1, JoinedIs DEF Row
<1> QED
  BY <1>1, <1>2 DEF Loaded, Entity, Row

LEMMA EditedOK ==
  ASSUME NEW e \in Entity, NEW dto \in Dto
  PROVE  /\ Edited(e, dto) \in Entity
         /\ Edited(e, dto).name = Given(dto.name, e.name)
         /\ Edited(e, dto).detail = Given(dto.detail, e.detail)
         /\ Edited(e, dto).department = Given(dto.department, e.department)
         /\ Edited(e, dto).parent = Given(dto.parent, e.parent)
         /\ Edited(e, dto).createdBy = e.createdBy /\ Edited(e, dto).deleted = e.deleted
BY DEF Edited, Given, Entity, Dto

LEMMA NewEntityOK ==
  ASSUME NEW r \in Requests \cup Contending, r.op = "create"
  PROVE  NewEntity(r) \in Entity
<1>1. /\ r \in Request /\ r.dto.name \in Names /\ r.dto.detail \in Details
      /\ r.dto.department # Undef /\ r.dto.parent # Undef
  BY CatalogAssumption
<1>2. r.user \in Ids /\ r.dto \in Dto
  BY <1>1, UsersAreRows DEF Request
<1> QED
  BY <1>1, <1>2 DEF NewEntity, Entity, Dto

LEMMA StoredOK ==
  ASSUME NEW table \in Tables, NEW e \in Entity
  PROVE  /\ Stored(table, e) \in Row /\ ~Stored(table, e).deleted
         /\ Stored(table, e).department = e.department
BY DEF Stored, Entity, Row

(* What an UPDATE leaves alone, and what it makes of each column.          *)
LEMMA UpdatedOK ==
  ASSUME NEW row \in Row, NEW e \in Entity, NEW cols \in SUBSET Columns
  PROVE  /\ Updated(row, e, cols) \in Row
         /\ Updated(row, e, cols).table = row.table
         /\ Updated(row, e, cols).deletedBy = row.deletedBy
         /\ Updated(row, e, cols).deleted => row.deleted
<1> DEFINE n == IF "name" \in cols THEN e.name ELSE row.name
           d == IF "detail" \in cols THEN e.detail ELSE row.detail
           m == IF "department" \in cols THEN e.department ELSE row.department
           p == IF "parent" \in cols THEN e.parent ELSE row.parent
           c == IF "createdBy" \in cols THEN e.createdBy ELSE row.createdBy
           x == IF "deleted" \in cols THEN e.deleted ELSE row.deleted
<1>1. Updated(row, e, cols) = [row EXCEPT !.name = n, !.detail = d, !.department = m,
                                          !.parent = p, !.createdBy = c, !.deleted = x]
  BY DEF Updated
<1>2. /\ n \in Names /\ d \in Details /\ x \in BOOLEAN
      /\ m \in Ids \cup {Null} /\ p \in Ids \cup {Null} /\ c \in Ids \cup {Null}
      /\ x => row.deleted
  BY DEF Row, Entity
<1> HIDE DEF n, d, m, p, c, x
<1> QED
  BY <1>1, <1>2 DEF Row

LEMMA UpdatedColumns ==
  ASSUME NEW row \in Row, NEW e \in Entity, NEW cols \in SUBSET Columns, NEW col \in Columns
  PROVE  Updated(row, e, cols)[col] = IF col \in cols THEN e[col] ELSE row[col]
<1> DEFINE n == IF "name" \in cols THEN e.name ELSE row.name
           d == IF "detail" \in cols THEN e.detail ELSE row.detail
           m == IF "department" \in cols THEN e.department ELSE row.department
           p == IF "parent" \in cols THEN e.parent ELSE row.parent
           c == IF "createdBy" \in cols THEN e.createdBy ELSE row.createdBy
           x == IF "deleted" \in cols THEN e.deleted ELSE row.deleted
<1>1. Updated(row, e, cols) = [row EXCEPT !.name = n, !.detail = d, !.department = m,
                                          !.parent = p, !.createdBy = c, !.deleted = x]
  BY DEF Updated
<1> HIDE DEF n, d, m, p, c, x
<1>2. /\ Updated(row, e, cols)["name"] = n /\ Updated(row, e, cols)["detail"] = d
      /\ Updated(row, e, cols)["department"] = m /\ Updated(row, e, cols)["parent"] = p
      /\ Updated(row, e, cols)["createdBy"] = c /\ Updated(row, e, cols)["deleted"] = x
  BY <1>1 DEF Row
<1> QED
  BY <1>2 DEF n, d, m, p, c, x, Columns

LEMMA ArchivedOK ==
  ASSUME NEW row, Sound(row), NEW user \in Users
  PROVE  /\ Sound(Archived(row, user)) /\ Archived(row, user).deleted
         /\ Archived(row, user).table = row.table
         /\ Archived(row, user).department = row.department
         /\ Archived(row, user).parent = row.parent
<1>1. user \in Ids /\ user # Null
  BY UsersAreRows, Nulls
<1> QED
  BY <1>1 DEF Sound, Archived, Row, Linked

LEMMA RestoredOK ==
  ASSUME NEW row, Sound(row)
  PROVE  /\ Sound(Restored(row)) /\ ~Restored(row).deleted
         /\ Restored(row).table = row.table
         /\ Restored(row).department = row.department
         /\ Restored(row).parent = row.parent
BY DEF Sound, Restored, Row, Linked
-----------------------------------------------------------------------------
(* What the statements that write do to the rows. *)

(* An UPDATE of one row that the constraints let through.                  *)
LEMMA RowStored ==
  ASSUME RowsOK, KeysUnique, NEW i \in DOMAIN rows, NEW row, Sound(row), Indexed(i, row),
         rows' = [rows EXCEPT ![i] = row]
  PROVE  /\ RowsOK' /\ KeysUnique' /\ DOMAIN rows' = DOMAIN rows
         /\ rows'[i] = row /\ \A j \in DOMAIN rows \ {i} : rows'[j] = rows[j]
<1>1. /\ rows' \in Seq(Row) /\ DOMAIN rows' = DOMAIN rows
      /\ rows'[i] = row /\ \A j \in DOMAIN rows \ {i} : rows'[j] = rows[j]
  BY DEF RowsOK, Sound
<1>2. RowsOK'
  BY <1>1 DEF RowsOK
<1>3. ASSUME NEW j \in DOMAIN rows \ {i}, ~rows[j].deleted, ~row.deleted
      PROVE  /\ ~SameKey(rows[j], row.table, row.name, row.department)
             /\ ~SameKey(row, rows[j].table, rows[j].name, rows[j].department)
  BY <1>3 DEF Indexed, Active, SameKey
<1>4. ASSUME NEW j \in DOMAIN rows, NEW k \in DOMAIN rows,
             ~rows'[j].deleted, ~rows'[k].deleted,
             SameKey(rows'[k], rows'[j].table, rows'[j].name, rows'[j].department)
      PROVE  j = k
  <2>1. CASE j = i \/ k = i
    BY <1>1, <1>3, <1>4, <2>1
  <2>2. CASE j # i /\ k # i
    BY <1>1, <1>4, <2>2 DEF KeysUnique
  <2> QED
    BY <2>1, <2>2
<1> QED
  BY <1>1, <1>2, <1>4 DEF KeysUnique

(* An INSERT that the constraints let through.                             *)
LEMMA RowInserted ==
  ASSUME RowsOK, KeysUnique, NEW row, Sound(row), Indexed(0, row), rows' = Append(rows, row)
  PROVE  /\ RowsOK' /\ KeysUnique' /\ DOMAIN rows' = DOMAIN rows \cup {Len(rows) + 1}
         /\ rows'[Len(rows) + 1] = row /\ \A j \in DOMAIN rows : rows'[j] = rows[j]
<1> DEFINE i == Len(rows) + 1
<1>1. /\ rows' \in Seq(Row) /\ DOMAIN rows' = DOMAIN rows \cup {i} /\ i \notin DOMAIN rows
      /\ rows'[i] = row /\ \A j \in DOMAIN rows : rows'[j] = rows[j]
  BY AppendProperties, RowIds DEF RowsOK, Sound
<1> HIDE DEF i
<1>2. RowsOK'
  BY <1>1 DEF RowsOK
<1>3. ASSUME NEW j \in DOMAIN rows, ~rows[j].deleted, ~row.deleted
      PROVE  /\ ~SameKey(rows[j], row.table, row.name, row.department)
             /\ ~SameKey(row, rows[j].table, rows[j].name, rows[j].department)
  BY <1>3, RowIds DEF Indexed, Active, SameKey
<1>4. ASSUME NEW j \in DOMAIN rows', NEW k \in DOMAIN rows',
             ~rows'[j].deleted, ~rows'[k].deleted,
             SameKey(rows'[k], rows'[j].table, rows'[j].name, rows'[j].department)
      PROVE  j = k
  <2>1. CASE j = i \/ k = i
    BY <1>1, <1>3, <1>4, <2>1
  <2>2. CASE j # i /\ k # i
    BY <1>1, <1>4, <2>2 DEF KeysUnique
  <2> QED
    BY <2>1, <2>2
<1> QED
  BY <1>1, <1>2, <1>4 DEF KeysUnique, i

(* Statements that only archive rows, one or several.                      *)
LEMMA RowsArchived ==
  ASSUME RowsOK, KeysUnique, NEW user \in Users, NEW gone \in SUBSET DOMAIN rows,
         DOMAIN rows' = DOMAIN rows, rows' \in Seq(Row),
         \A j \in DOMAIN rows :
            rows'[j] = IF j \in gone THEN Archived(rows[j], user) ELSE rows[j]
  PROVE  RowsOK' /\ KeysUnique'
<1>1. \A j \in DOMAIN rows : Sound(rows[j])
  BY DEF RowsOK
<1>2. \A j \in gone : Sound(rows'[j]) /\ rows'[j].deleted
  BY <1>1, ArchivedOK
<1>3. RowsOK'
  BY <1>1, <1>2 DEF RowsOK
<1>4. \A j \in DOMAIN rows : ~rows'[j].deleted => rows'[j] = rows[j]
  BY <1>2
<1> QED
  BY <1>3, <1>4 DEF KeysUnique

(* Insert, Write, Cascade, Archive and Restore *)
LEMMA InsertRows ==
  ASSUME IInv, NEW w \in Workers, Insert(w)
  PROVE  /\ RowsOK' /\ KeysUnique' /\ Finish(w) /\ UNCHANGED <<overlap, failures>>
         /\ \/ UNCHANGED rows
            \/ LET row == Stored(req[w].table, ent[w])
               IN  /\ DOMAIN rows' = DOMAIN rows \cup {Len(rows) + 1}
                   /\ rows'[Len(rows) + 1] = row
                   /\ \A j \in DOMAIN rows : rows'[j] = rows[j]
<1> DEFINE row == Stored(req[w].table, ent[w])
<1>1. /\ pc[w] = "insert" /\ Finish(w) /\ UNCHANGED <<overlap, failures>>
      /\ IF Indexed(0, row) /\ Linked(row) THEN rows' = Append(rows, row) ELSE UNCHANGED rows
  BY DEF Insert
<1>2. req[w].table \in Tables /\ ent[w] \in Entity
  BY <1>1 DEF IInv, WorkersOK, Phase, Request
<1>3. row \in Row /\ ~row.deleted
  BY <1>2, StoredOK
<1> HIDE DEF row
<1>4. CASE Indexed(0, row) /\ Linked(row)
  <2>1. Sound(row)
    BY <1>3, <1>4 DEF Sound
  <2> QED
    BY <1>1, <1>4, <2>1, RowInserted DEF IInv, row
<1>5. CASE UNCHANGED rows
  BY <1>1, <1>5 DEF IInv, RowsOK, KeysUnique
<1> QED
  BY <1>1, <1>4, <1>5

LEMMA WriteRows ==
  ASSUME IInv, NEW w \in Workers, Write(w)
  PROVE  /\ RowsOK' /\ KeysUnique' /\ DOMAIN rows' = DOMAIN rows /\ req[w].id \in DOMAIN rows
         /\ \A j \in DOMAIN rows \ {req[w].id} : rows'[j] = rows[j]
         /\ rows'[req[w].id] \in {rows[req[w].id],
                                  Updated(rows[req[w].id], ent[w], dirty[w])}
<1> DEFINE i == req[w].id
           row == Updated(rows[i], ent[w], dirty[w])
<1>1. /\ pc[w] = "write"
      /\ IF Indexed(i, row) /\ Linked(row)
         THEN rows' = [rows EXCEPT ![i] = row] ELSE UNCHANGED rows
  BY DEF Write
<1>2. i \in DOMAIN rows /\ ent[w] \in Entity /\ dirty[w] \in SUBSET Columns /\ Sound(rows[i])
  BY <1>1 DEF IInv, WorkersOK, Phase, Editor, MemoryOK, RowsOK
<1>3. row \in Row /\ (row.deleted => row.deletedBy # Null)
  <2>1. rows[i] \in Row
    BY <1>2 DEF Sound
  <2>2. row \in Row /\ row.deletedBy = rows[i].deletedBy
    BY <1>2, <2>1, UpdatedOK
  <2>3. row.deleted => rows[i].deleted
    BY <1>2, <2>1, UpdatedOK
  <2> HIDE DEF row
  <2> QED
    BY <1>2, <2>2, <2>3 DEF Sound
<1>4. CASE Indexed(i, row) /\ Linked(row)
  <2>1. Sound(row) /\ rows' = [rows EXCEPT ![i] = row]
    BY <1>1, <1>3, <1>4 DEF Sound
  <2> HIDE DEF row, i
  <2>2. /\ RowsOK' /\ KeysUnique' /\ DOMAIN rows' = DOMAIN rows
        /\ rows'[i] = row /\ \A j \in DOMAIN rows \ {i} : rows'[j] = rows[j]
    BY <1>2, <1>4, <2>1, RowStored DEF IInv
  <2> QED
    BY <1>2, <2>2 DEF row, i
<1>5. CASE UNCHANGED rows
  BY <1>2, <1>5 DEF IInv, RowsOK, KeysUnique
<1> QED
  BY <1>1, <1>4, <1>5

LEMMA RestoreRows ==
  ASSUME IInv, NEW w \in Workers, Restore(w)
  PROVE  /\ RowsOK' /\ KeysUnique' /\ DOMAIN rows' = DOMAIN rows /\ req[w].id \in DOMAIN rows
         /\ \A j \in DOMAIN rows \ {req[w].id} : rows'[j] = rows[j]
         /\ rows'[req[w].id] \in {rows[req[w].id], Restored(rows[req[w].id])}
<1> DEFINE i == req[w].id
           row == Restored(rows[i])
<1>1. /\ pc[w] = "restore"
      /\ IF Indexed(i, row) THEN rows' = [rows EXCEPT ![i] = row] ELSE UNCHANGED rows
  BY DEF Restore
<1>2. i \in DOMAIN rows /\ Sound(row)
  BY <1>1, RestoredOK DEF IInv, WorkersOK, Phase, Keeper, RowsOK
<1> HIDE DEF row
<1>3. CASE Indexed(i, row)
  <2>1. /\ RowsOK' /\ KeysUnique' /\ DOMAIN rows' = DOMAIN rows
        /\ rows'[i] = row /\ \A j \in DOMAIN rows \ {i} : rows'[j] = rows[j]
    BY <1>1, <1>2, <1>3, RowStored DEF IInv
  <2> QED
    BY <1>2, <2>1 DEF row
<1>4. CASE UNCHANGED rows
  BY <1>2, <1>4 DEF IInv, RowsOK, KeysUnique
<1> QED
  BY <1>1, <1>3, <1>4

LEMMA ArchiveRows ==
  ASSUME IInv, NEW w \in Workers, Archive(w)
  PROVE  /\ RowsOK' /\ KeysUnique' /\ DOMAIN rows' = DOMAIN rows /\ req[w].id \in DOMAIN rows
         /\ \A j \in DOMAIN rows \ {req[w].id} : rows'[j] = rows[j]
         /\ req[w].user \in Users
         /\ rows'[req[w].id] = Archived(rows[req[w].id], req[w].user)
<1> DEFINE i == req[w].id
           row == Archived(rows[i], req[w].user)
<1>1. pc[w] = "archive" /\ rows' = [rows EXCEPT ![i] = row]
  BY DEF Archive
<1>2. i \in DOMAIN rows /\ req[w].user \in Users
  BY <1>1 DEF IInv, WorkersOK, Phase, Keeper, Request
<1>3. Sound(row) /\ row.deleted
  BY <1>2, ArchivedOK DEF IInv, RowsOK
<1> HIDE DEF row
<1>4. Indexed(i, row)
  BY <1>3 DEF Indexed
<1>5. /\ RowsOK' /\ KeysUnique' /\ DOMAIN rows' = DOMAIN rows
      /\ rows'[i] = row /\ \A j \in DOMAIN rows \ {i} : rows'[j] = rows[j]
  BY <1>1, <1>2, <1>3, <1>4, RowStored DEF IInv
<1> QED
  BY <1>2, <1>5 DEF row

LEMMA CascadeRows ==
  ASSUME IInv, NEW w \in Workers, Cascade(w)
  PROVE  /\ RowsOK' /\ KeysUnique' /\ DOMAIN rows' = DOMAIN rows /\ req[w].id \in DOMAIN rows
         /\ req[w].user \in Users
         /\ \A j \in DOMAIN rows :
               rows'[j] = IF Child(j, req[w].id) THEN Archived(rows[j], req[w].user)
                          ELSE rows[j]
<1> DEFINE gone == {j \in DOMAIN rows : Child(j, req[w].id)}
<1>1. /\ pc[w] = "cascade"
      /\ rows' = [j \in DOMAIN rows |-> IF Child(j, req[w].id)
                                        THEN Archived(rows[j], req[w].user) ELSE rows[j]]
  BY DEF Cascade
<1>2. req[w].id \in DOMAIN rows /\ req[w].user \in Users
  BY <1>1 DEF IInv, WorkersOK, Phase, Keeper, Request
<1>3. /\ DOMAIN rows' = DOMAIN rows
      /\ \A j \in DOMAIN rows : rows'[j] = IF Child(j, req[w].id)
                                           THEN Archived(rows[j], req[w].user) ELSE rows[j]
  BY <1>1
<1>4. \A j \in DOMAIN rows : rows'[j] \in Row
  BY <1>2, <1>3, ArchivedOK, RowIds DEF IInv, RowsOK, Sound
<1>5. rows' = [j \in 1 .. Len(rows) |-> rows'[j]] /\ Len(rows) \in Nat
  BY <1>1, RowIds DEF IInv
<1>6. rows' \in Seq(Row)
  BY <1>3, <1>4, <1>5, RowIds DEF IInv
<1>7. gone \in SUBSET DOMAIN rows /\ \A j \in DOMAIN rows :
         rows'[j] = IF j \in gone THEN Archived(rows[j], req[w].user) ELSE rows[j]
  BY <1>3
<1> HIDE DEF gone
<1>8. RowsOK' /\ KeysUnique'
  BY <1>2, <1>3, <1>6, <1>7, RowsArchived DEF IInv
<1> QED
  BY <1>2, <1>3, <1>8
-----------------------------------------------------------------------------
(* The inductive step of IInv: one lemma per action or group of actions. *)

(* A step of worker w that leaves it at call p with request r, entity e    *)
(* and columns d and deletes no id preserves the parts about workers.      *)
LEMMA WorkerStep ==
  ASSUME MemoryOK, WorkersOK, NEW w \in Workers, NEW p \in Labels,
         NEW r \in Request \cup {NoRequest}, NEW e \in Entity \cup {NoEntity},
         NEW d \in SUBSET Columns,
         pc' = [pc EXCEPT ![w] = p], req' = [req EXCEPT ![w] = r],
         ent' = [ent EXCEPT ![w] = e], dirty' = [dirty EXCEPT ![w] = d],
         DOMAIN rows \subseteq DOMAIN rows', Phase(p, r, e, DOMAIN rows'),
         overlap' \in BOOLEAN, failures' \in Nat
  PROVE  MemoryOK' /\ WorkersOK'
<1>1. MemoryOK'
  BY DEF MemoryOK
<1>2. ASSUME NEW v \in Workers
      PROVE  Phase(pc'[v], req'[v], ent'[v], DOMAIN rows')
  <2>1. CASE v = w
    <3>1. pc'[v] = p /\ req'[v] = r /\ ent'[v] = e
      BY <2>1 DEF MemoryOK
    <3> QED
      BY <3>1
  <2>2. CASE v # w
    <3>1. pc'[v] = pc[v] /\ req'[v] = req[v] /\ ent'[v] = ent[v]
      BY <2>2 DEF MemoryOK
    <3>2. Phase(pc[v], req[v], ent[v], DOMAIN rows)
      BY DEF WorkersOK
    <3> QED
      BY <3>1, <3>2 DEF Phase
  <2> QED
    BY <2>1, <2>2
<1> QED
  BY <1>1, <1>2 DEF WorkersOK

(* What a step leaves alone keeps its value. *)
LEMMA Kept ==
  ASSUME MemoryOK, NEW w \in Workers
  PROVE  /\ pc[w] \in Labels /\ req[w] \in Request \cup {NoRequest}
         /\ ent[w] \in Entity \cup {NoEntity} /\ dirty[w] \in SUBSET Columns
         /\ UNCHANGED req => req' = [req EXCEPT ![w] = req[w]]
         /\ UNCHANGED ent => ent' = [ent EXCEPT ![w] = ent[w]]
         /\ UNCHANGED dirty => dirty' = [dirty EXCEPT ![w] = dirty[w]]
BY DEF MemoryOK

LEMMA PhaseOf ==
  ASSUME WorkersOK, NEW w \in Workers
  PROVE  Phase(pc[w], req[w], ent[w], DOMAIN rows)
BY DEF WorkersOK

LEMMA FinishStep ==
  ASSUME MemoryOK, WorkersOK, NEW w \in Workers, Finish(w), DOMAIN rows \subseteq DOMAIN rows',
         overlap' \in BOOLEAN, failures' \in Nat
  PROVE  MemoryOK' /\ WorkersOK'
<1>1. Phase("idle", NoRequest, NoEntity, DOMAIN rows')
  BY DEF Phase, Editor, Keeper
<1>2. /\ pc' = [pc EXCEPT ![w] = "idle"] /\ req' = [req EXCEPT ![w] = NoRequest]
      /\ ent' = [ent EXCEPT ![w] = NoEntity] /\ dirty' = [dirty EXCEPT ![w] = {}]
  BY DEF Finish, Goto
<1> QED
  BY <1>1, <1>2, WorkerStep DEF Labels

(* A worker goes on to call p with entity e and the request it has. *)
LEMMA ProceedStep ==
  ASSUME IInv, NEW w \in Workers, NEW p \in Labels, NEW e \in Entity \cup {NoEntity},
         NEW r \in Request, req' = [req EXCEPT ![w] = r], Proceed(w, p, e),
         UNCHANGED <<rows, overlap, failures>>,
         p = "insert" \/ p \in Editor => e \in Entity,
         p \in Editor \cup Keeper => r.id \in DOMAIN rows
  PROVE  IInv'
<1>1. /\ pc' = [pc EXCEPT ![w] = p] /\ ent' = [ent EXCEPT ![w] = e]
      /\ dirty' = [dirty EXCEPT ![w] = dirty[w]] /\ dirty[w] \in SUBSET Columns
      /\ overlap' \in BOOLEAN /\ failures' \in Nat
  BY Kept DEF IInv, Proceed, Goto, MemoryOK
<1>2. Phase(p, r, e, DOMAIN rows')
  BY DEF Phase
<1>3. MemoryOK' /\ WorkersOK'
  BY <1>1, <1>2, WorkerStep DEF IInv
<1> QED
  BY <1>3 DEF IInv, RowsOK, KeysUnique

(* A request that arrives *)
LEMMA RequestOK == Requests \cup Contending \subseteq Request
BY CatalogAssumption

LEMMA CreateStep ==
  ASSUME IInv, NEW w \in Workers, NEW r \in Requests \cup Contending, StartCreate(w, r)
  PROVE  IInv'
<1>1. NewEntity(r) \in Entity /\ r \in Request
  BY NewEntityOK, RequestOK DEF StartCreate
<1>2. /\ req' = [req EXCEPT ![w] = r] /\ UNCHANGED <<rows, overlap, failures>>
      /\ Proceed(w, "insert", NewEntity(r))
  BY DEF StartCreate, Accept
<1> QED
  BY <1>1, <1>2, ProceedStep DEF Labels, Editor, Keeper

LEMMA UpdateStep ==
  ASSUME IInv, NEW w \in Workers, NEW r \in Requests \cup Contending, StartUpdate(w, r)
  PROVE  IInv'
<1> DEFINE e == Loaded(r.id)
<1>1. /\ req' = [req EXCEPT ![w] = r] /\ UNCHANGED <<rows, overlap, failures>>
      /\ Active(r.id) /\ r \in Request /\ r.dto \in Dto
  BY RequestOK DEF StartUpdate, Accept, Found, Request
<1>2. r.id \in DOMAIN rows /\ e \in Entity /\ Edited(e, r.dto) \in Entity
  BY <1>1, LoadedOK, EditedOK DEF Active, IInv
<1>3. Proceed(w, "checkName", e) \/ Proceed(w, "reload", Edited(e, r.dto))
  BY DEF StartUpdate, Save
<1> HIDE DEF e
<1> QED
  BY <1>1, <1>2, <1>3, ProceedStep DEF Labels, Editor, Keeper

LEMMA AssignStep ==
  ASSUME IInv, NEW w \in Workers, NEW r \in Requests \cup Contending, StartAssign(w, r)
  PROVE  IInv'
<1>1. /\ req' = [req EXCEPT ![w] = r] /\ UNCHANGED <<rows, overlap, failures>>
      /\ Active(r.id) /\ r \in Request /\ Proceed(w, "findClient", Loaded(r.id))
  BY RequestOK DEF StartAssign, Accept, Found
<1>2. r.id \in DOMAIN rows /\ Loaded(r.id) \in Entity
  BY <1>1, LoadedOK DEF Active, IInv
<1> QED
  BY <1>1, <1>2, ProceedStep DEF Labels, Editor, Keeper

LEMMA DeleteStep ==
  ASSUME IInv, NEW w \in Workers, NEW r \in Requests \cup Contending,
         StartDelete(w, r) \/ StartRestore(w, r)
  PROVE  IInv'
<1>1. /\ req' = [req EXCEPT ![w] = r] /\ UNCHANGED <<rows, overlap, failures>>
      /\ r \in Request
  BY RequestOK DEF StartDelete, StartRestore, Accept
<1>2. r.id \in DOMAIN rows
  BY DEF StartDelete, StartRestore, Found, Active
<1>3. PICK p \in {"count", "archive", "restore"} : Proceed(w, p, NoEntity)
  BY DEF StartDelete, StartRestore
<1> QED
  BY <1>1, <1>2, <1>3, ProceedStep DEF Labels, Editor, Keeper

(* A request that ends without a write *)
LEMMA GiveUpStep ==
  ASSUME IInv, NEW w \in Workers, Finish(w), UNCHANGED <<rows, overlap>>, failures' \in Nat
  PROVE  IInv'
<1>1. overlap' \in BOOLEAN
  BY DEF IInv, MemoryOK
<1>2. MemoryOK' /\ WorkersOK'
  BY <1>1, FinishStep DEF IInv
<1> QED
  BY <1>2 DEF IInv, RowsOK, KeysUnique

(* A call that only reads *)
LEMMA ReadStep ==
  ASSUME IInv, NEW w \in Workers, CheckName(w) \/ FindClient(w) \/ Count(w)
  PROVE  IInv'
<1>1. /\ pc[w] \in {"checkName", "findClient", "count"} /\ UNCHANGED <<rows, overlap, failures>>
      /\ failures' \in Nat
  BY DEF CheckName, FindClient, Count, IInv, MemoryOK
<1>2. /\ req[w] \in Request /\ req[w].id \in DOMAIN rows /\ req[w].dto \in Dto
      /\ pc[w] # "count" => ent[w] \in Entity
  BY <1>1, PhaseOf DEF IInv, Phase, Editor, Keeper, Request
<1>3. CASE Finish(w)
  BY <1>1, <1>3, GiveUpStep
<1>4. CASE ~Finish(w)
  <2>1. UNCHANGED req
    BY <1>4 DEF CheckName, FindClient, Count
  <2>2. req' = [req EXCEPT ![w] = req[w]]
    BY <2>1, Kept DEF IInv
  <2>3. CASE CheckName(w)
    <3>1. Edited(ent[w], req[w].dto) \in Entity
      BY <1>2, <2>3, EditedOK DEF CheckName
    <3>2. Proceed(w, "reload", Edited(ent[w], req[w].dto))
      BY <1>4, <2>3 DEF CheckName, Save
    <3> QED
      BY <1>1, <1>2, <2>2, <3>1, <3>2, ProceedStep DEF Labels, Editor, Keeper
  <2>4. CASE FindClient(w)
    <3> DEFINE client == req[w].dto.parent
               e == [ent[w] EXCEPT !.parent = client]
    <3>1. Active(client) /\ Proceed(w, "reload", e)
      BY <1>4, <2>4 DEF FindClient, Found, Save
    <3>2. client \in Ids
      BY <3>1, RowIds DEF IInv, Active
    <3>3. e \in Entity
      <4> HIDE DEF client
      <4> QED
        BY <1>2, <2>4, <3>2 DEF FindClient, Entity
    <3> HIDE DEF e
    <3> QED
      BY <1>1, <1>2, <2>2, <3>1, <3>3, ProceedStep DEF Labels, Editor, Keeper
  <2>5. CASE Count(w)
    <3>1. PICK p \in {"archive", "cascade"} : Proceed(w, p, NoEntity)
      BY <1>4, <2>5 DEF Count
    <3> QED
      BY <1>1, <1>2, <2>2, <3>1, ProceedStep DEF Labels, Editor, Keeper
  <2> QED
    BY <2>3, <2>4, <2>5
<1> QED
  BY <1>3, <1>4

LEMMA ReloadStep ==
  ASSUME IInv, NEW w \in Workers, Reload(w)
  PROVE  IInv'
<1> DEFINE d == Dirty(ent[w], rows[req[w].id], Columns)
<1>1. /\ pc[w] = "reload" /\ UNCHANGED <<rows, overlap, req, ent, failures>>
      /\ pc' = [pc EXCEPT ![w] = "write"] /\ dirty' = [dirty EXCEPT ![w] = d]
      /\ overlap' \in BOOLEAN /\ failures' \in Nat
  BY DEF Reload, Goto, IInv, MemoryOK
<1>2. d \in SUBSET Columns
  BY DEF Dirty
<1> HIDE DEF d
<1>3. /\ req' = [req EXCEPT ![w] = req[w]] /\ req[w] \in Request \cup {NoRequest}
      /\ ent' = [ent EXCEPT ![w] = ent[w]] /\ ent[w] \in Entity \cup {NoEntity}
  BY <1>1, Kept DEF IInv
<1>4. Phase("write", req[w], ent[w], DOMAIN rows')
  BY <1>1, PhaseOf DEF IInv, Phase, Editor, Keeper
<1>5. MemoryOK' /\ WorkersOK'
  BY <1>1, <1>2, <1>3, <1>4, WorkerStep DEF IInv, Labels, Editor
<1> QED
  BY <1>1, <1>5 DEF IInv, RowsOK, KeysUnique

LEMMA StoreStep ==
  ASSUME IInv, NEW w \in Workers, Insert(w) \/ Write(w) \/ Archive(w) \/ Restore(w)
  PROVE  IInv'
<1>1. RowsOK' /\ KeysUnique' /\ DOMAIN rows \subseteq DOMAIN rows'
  BY InsertRows, WriteRows, ArchiveRows, RestoreRows
<1>2. Finish(w) /\ overlap' \in BOOLEAN /\ failures' \in Nat
  BY DEF Insert, Write, Archive, Restore, IInv, MemoryOK
<1> QED
  BY <1>1, <1>2, FinishStep DEF IInv

LEMMA CascadeStep ==
  ASSUME IInv, NEW w \in Workers, Cascade(w)
  PROVE  IInv'
<1>1. RowsOK' /\ KeysUnique' /\ DOMAIN rows' = DOMAIN rows /\ req[w].id \in DOMAIN rows
  BY CascadeRows
<1>2. /\ pc[w] = "cascade" /\ pc' = [pc EXCEPT ![w] = "archive"] /\ UNCHANGED <<req, dirty>>
      /\ ent' = [ent EXCEPT ![w] = NoEntity] /\ overlap' \in BOOLEAN /\ failures' \in Nat
  BY DEF Cascade, Proceed, Goto, IInv, MemoryOK
<1>3. /\ req' = [req EXCEPT ![w] = req[w]] /\ req[w] \in Request
      /\ dirty' = [dirty EXCEPT ![w] = dirty[w]] /\ dirty[w] \in SUBSET Columns
  BY <1>2, Kept, PhaseOf DEF IInv, Phase
<1>4. Phase("archive", req[w], NoEntity, DOMAIN rows')
  BY <1>1, <1>3 DEF Phase, Editor
<1>5. MemoryOK' /\ WorkersOK'
  BY <1>1, <1>2, <1>3, <1>4, WorkerStep DEF IInv, Labels, Keeper
<1> QED
  BY <1>1, <1>5 DEF IInv

LEMMA InitOK == ASSUME Init PROVE IInv
<1>1. rows = Seed /\ Seed \in Seq(Row)
  BY CatalogAssumption DEF Init
<1>2. RowsOK
  <2>1. \A i \in DOMAIN Seed : Seed[i] \in Row
    BY <1>1
  <2> QED
    BY <1>1, <2>1, SeedAssumption DEF RowsOK, Sound
<1>3. KeysUnique
  BY <1>1, SeedAssumption DEF KeysUnique
<1>4. MemoryOK
  BY DEF Init, MemoryOK, Labels
<1>5. WorkersOK
  BY DEF Init, WorkersOK, Phase, Editor, Keeper
<1> QED
  BY <1>2, <1>3, <1>4, <1>5 DEF IInv

LEMMA TypeStep == ASSUME IInv, Next PROVE IInv'
<1>1. PICK w \in Workers : Arrive(w) \/ Serve(w) \/ Fail(w)
  BY DEF Next
<1>2. CASE Arrive(w)
  <2>1. PICK r \in Requests \cup Contending :
           \/ StartCreate(w, r) \/ StartUpdate(w, r) \/ StartAssign(w, r)
           \/ StartDelete(w, r) \/ StartRestore(w, r)
    BY <1>2 DEF Arrive
  <2> QED
    BY <2>1, CreateStep, UpdateStep, AssignStep, DeleteStep
<1>3. CASE Insert(w) \/ Write(w) \/ Archive(w) \/ Restore(w)
  BY <1>3, StoreStep
<1>4. CASE CheckName(w) \/ FindClient(w) \/ Count(w)
  BY <1>4, ReadStep
<1>5. CASE Reload(w) \/ Cascade(w)
  BY <1>5, ReloadStep, CascadeStep
<1>6. CASE Fail(w)
  BY <1>6, GiveUpStep DEF Fail, IInv, MemoryOK
<1> QED
  BY <1>1, <1>2, <1>3, <1>4, <1>5, <1>6 DEF Serve

LEMMA StutterOK == ASSUME IInv, UNCHANGED vars PROVE IInv'
BY DEF IInv, RowsOK, KeysUnique, MemoryOK, WorkersOK, vars

LEMMA Inductive == Spec => []IInv
<1>1. Init => IInv
  BY InitOK
<1>2. IInv /\ [Next]_vars => IInv'
  BY TypeStep, StutterOK
<1> QED
  BY <1>1, <1>2, PTL DEF Spec

(* However requests interleave and fail, the rows keep their types, and    *)
(* above all a client and a task their department and creator: save()      *)
(* writes null for a relation that was archived, and the NOT NULL columns  *)
(* refuse it.                                                              *)
THEOREM TypeCorrect == Spec => []TypeOK
<1>1. IInv => TypeOK
  BY DEF IInv, TypeOK, RowsOK, Sound, Linked, MemoryOK, Labels, Editor, Keeper
<1> QED
  BY <1>1, Inductive, PTL

(* Names stay unique among active rows: whatever was looked up before      *)
(* another request's write, the partial unique index is checked by the     *)
(* statement that stores the row, also by a restore.                       *)
THEOREM NamesStayUnique == Spec => []ActiveNamesUnique
<1>1. IInv => ActiveNamesUnique
  BY DEF IInv, KeysUnique, ActiveNamesUnique, SameKey, Active
<1> QED
  BY <1>1, Inductive, PTL

(* Every deleted row names who deleted it: no edit holds an entity that    *)
(* was deleted when it was read, so save() can bring a row back but never  *)
(* delete one anonymously.                                                 *)
THEOREM DeletionsNamed == Spec => []DeletionsAttributed
<1>1. IInv => DeletionsAttributed
  BY DEF IInv, RowsOK, Sound, DeletionsAttributed
<1> QED
  BY <1>1, Inductive, PTL

(* A worker that restores was asked to. *)
RestoresAsked ==
    \A w \in Workers : pc[w] = "restore" => /\ req[w] \in Requests \cup Contending
                                            /\ req[w].op = "restore"

(* The step of a worker leaves the others where they are. *)
LEMMA OthersStay ==
  ASSUME MemoryOK, NEW w \in Workers, Arrive(w) \/ Serve(w) \/ Fail(w),
         NEW v \in Workers, v # w
  PROVE  pc'[v] = pc[v] /\ req'[v] = req[v] /\ dirty'[v] = dirty[v]
<1>1. \E p : pc' = [pc EXCEPT ![w] = p]
  BY DEF Arrive, StartCreate, StartUpdate, StartAssign, StartDelete, StartRestore, Accept,
         Serve, Insert, CheckName, FindClient, Reload, Write, Count, Cascade, Archive,
         Restore, Fail, Save, Proceed, Finish, Goto
<1>2. req' = req \/ \E r : req' = [req EXCEPT ![w] = r]
  BY DEF Arrive, StartCreate, StartUpdate, StartAssign, StartDelete, StartRestore, Accept,
         Serve, Insert, CheckName, FindClient, Reload, Write, Count, Cascade, Archive,
         Restore, Fail, Save, Proceed, Finish, Goto
<1>3. dirty' = dirty \/ \E d : dirty' = [dirty EXCEPT ![w] = d]
  BY DEF Arrive, StartCreate, StartUpdate, StartAssign, StartDelete, StartRestore, Accept,
         Serve, Insert, CheckName, FindClient, Reload, Write, Count, Cascade, Archive,
         Restore, Fail, Save, Proceed, Finish, Goto
<1>4. v \in DOMAIN pc /\ v \in DOMAIN req /\ v \in DOMAIN dirty
  BY DEF MemoryOK
<1>5. pc'[v] = pc[v]
  BY <1>1, <1>4
<1>6. req'[v] = req[v]
  BY <1>2, <1>4
<1>7. dirty'[v] = dirty[v]
  BY <1>3, <1>4
<1> QED
  BY <1>5, <1>6, <1>7

LEMMA RestoresAskedStep == ASSUME IInv, RestoresAsked, [Next]_vars PROVE RestoresAsked'
<1>1. ASSUME NEW v \in Workers, pc'[v] = "restore",
             NEW w \in Workers, Arrive(w) \/ Serve(w) \/ Fail(w)
      PROVE  req'[v] \in Requests \cup Contending /\ req'[v].op = "restore"
  <2>1. CASE v # w
    BY <1>1, <2>1, OthersStay DEF IInv, RestoresAsked
  <2>2. CASE v = w
    <3>1. \A p : Goto(w, p) => p = "restore"
      BY <1>1, <2>2 DEF Goto, IInv, MemoryOK
    <3>2. PICK r \in Requests \cup Contending : StartRestore(w, r)
      BY <1>1, <3>1
         DEF Arrive, StartCreate, StartUpdate, StartAssign, StartDelete, Serve, Insert, CheckName,
             FindClient, Reload, Write, Count, Cascade, Archive, Restore, Fail, Finish, Save,
             Proceed
    <3>3. req' = [req EXCEPT ![w] = r] /\ r.op = "restore"
      BY <3>2 DEF StartRestore, Accept
    <3> QED
      BY <2>2, <3>3 DEF IInv, MemoryOK
  <2> QED
    BY <2>1, <2>2
<1>2. CASE UNCHANGED vars
  BY <1>2 DEF vars, RestoresAsked
<1> QED
  BY <1>1, <1>2 DEF Next, RestoresAsked

(* Only a restore and the write of an edit that reread the row before its  *)
(* deletion make a deleted row active.                                     *)
LEMMA DeletedStays ==
  ASSUME IInv, RestoresAsked, NEW i \in Unrestored, Deleted(i), Reviving(i) = {},
         NEW w \in Workers, Arrive(w) \/ Serve(w) \/ Fail(w)
  PROVE  Deleted(i)'
<1>1. CASE UNCHANGED rows
  BY <1>1 DEF Deleted
<1>2. CASE Insert(w)
  BY <1>2, InsertRows DEF Deleted
<1>3. CASE Write(w)
  <2>1. /\ DOMAIN rows' = DOMAIN rows /\ \A j \in DOMAIN rows \ {req[w].id} : rows'[j] = rows[j]
        /\ rows'[req[w].id] \in {rows[req[w].id],
                                 Updated(rows[req[w].id], ent[w], dirty[w])}
    BY <1>3, WriteRows
  <2>2. CASE req[w].id # i
    BY <2>1, <2>2 DEF Deleted
  <2>3. CASE req[w].id = i
    <3>1. "deleted" \notin dirty[w] /\ ent[w] \in Entity /\ dirty[w] \in SUBSET Columns
      BY <1>3, <2>3, PhaseOf DEF Write, Reviving, IInv, MemoryOK, Phase, Editor
    <3>2. rows[i] \in Row /\ "deleted" \in Columns
      BY DEF Deleted, IInv, RowsOK, Sound, Columns
    <3>3. Updated(rows[i], ent[w], dirty[w])["deleted"] = rows[i]["deleted"]
      BY <3>1, <3>2, UpdatedColumns
    <3> QED
      BY <2>1, <2>3, <3>3 DEF Deleted
  <2> QED
    BY <2>2, <2>3
<1>4. CASE Archive(w)
  <2>1. Archived(rows[req[w].id], req[w].user).deleted
    BY <1>4, ArchiveRows, ArchivedOK DEF IInv, RowsOK
  <2> QED
    BY <1>4, <2>1, ArchiveRows DEF Deleted
<1>5. CASE Cascade(w)
  <2>1. req[w].user \in Users /\ Sound(rows[i])
    BY <1>5, CascadeRows DEF IInv, RowsOK, Deleted
  <2>2. Archived(rows[i], req[w].user).deleted
    BY <2>1, ArchivedOK
  <2> QED
    BY <1>5, <2>2, CascadeRows DEF Deleted
<1>6. CASE Restore(w)
  <2>1. req[w].id # i
    BY <1>6 DEF Restore, RestoresAsked, Unrestored
  <2> QED
    BY <1>6, <2>1, RestoreRows DEF Deleted
<1> QED
  BY <1>1, <1>2, <1>3, <1>4, <1>5, <1>6
     DEF Arrive, StartCreate, StartUpdate, StartAssign, StartDelete, StartRestore, Accept,
         Serve, CheckName, FindClient, Reload, Count, Fail

(* No edit that could bring a deleted row back begins. *)
LEMMA NobodyRevives ==
  ASSUME IInv, NEW i, Deleted(i), Reviving(i) = {},
         NEW w \in Workers, Arrive(w) \/ Serve(w) \/ Fail(w)
  PROVE  Reviving(i)' = {}
<1> SUFFICES ASSUME NEW v \in Reviving(i)' PROVE FALSE
  OBVIOUS
<1>1. v \in Workers /\ pc'[v] \in Editor /\ req'[v].id = i
  BY DEF Reviving, Editor
<1>2. CASE v # w
  BY <1>1, <1>2, OthersStay DEF Reviving, IInv
<1>3. CASE v = w
  <2>1. \A p : Goto(w, p) => p \in Editor
    BY <1>1, <1>3 DEF Goto, IInv, MemoryOK
  <2>2. ~Finish(w) /\ \A e : ~Proceed(w, "insert", e) /\ ~Proceed(w, "count", e)
           /\ ~Proceed(w, "cascade", e) /\ ~Proceed(w, "archive", e)
           /\ ~Proceed(w, "restore", e)
    BY <2>1 DEF Finish, Proceed, Editor
  <2>3. \/ CheckName(w) \/ FindClient(w) \/ Reload(w)
        \/ \E r \in Requests \cup Contending : StartUpdate(w, r) \/ StartAssign(w, r)
    BY <2>2
       DEF Arrive, StartCreate, StartDelete, StartRestore, Serve, Insert, Write, Count,
           Cascade, Archive, Restore, Fail
  <2>4. CASE CheckName(w) \/ FindClient(w) \/ Reload(w)
    <3>1. pc[w] \in {"checkName", "findClient", "reload"} /\ UNCHANGED req
      BY <2>2, <2>4 DEF CheckName, FindClient, Reload
    <3> QED
      BY <1>1, <1>3, <3>1 DEF Reviving
  <2>5. CASE \E r \in Requests \cup Contending : StartUpdate(w, r) \/ StartAssign(w, r)
    <3>1. PICK r \in Requests \cup Contending : StartUpdate(w, r) \/ StartAssign(w, r)
      BY <2>5
    <3>2. req' = [req EXCEPT ![w] = r] /\ Active(r.id)
      BY <3>1 DEF StartUpdate, StartAssign, Accept, Found
    <3>3. req'[w] = r
      BY <3>2 DEF IInv, MemoryOK
    <3> QED
      BY <1>1, <1>3, <3>2, <3>3 DEF Active, Deleted
  <2> QED
    BY <2>3, <2>4, <2>5
<1> QED
  BY <1>2, <1>3

(* A deletion that nobody asks to undo is final, however requests overlap  *)
(* and fail, once no edit that read the row before has still to reread it  *)
(* or is about to write what it reread: update() and assignClient() find   *)
(* no deleted row, and save() writes only the columns that differ from the *)
(* row it reread.                                                          *)
THEOREM DeletionsAreFinal == Spec => DeletionsFinal
<1> SUFFICES ASSUME NEW i \in Unrestored
             PROVE  Spec => [](Deleted(i) /\ Reviving(i) = {} => []Deleted(i))
  BY DEF DeletionsFinal
<1>1. Init => RestoresAsked
  BY DEF Init, RestoresAsked
<1>2. IInv /\ RestoresAsked /\ [Next]_vars => RestoresAsked'
  BY RestoresAskedStep
<1>3. IInv /\ RestoresAsked /\ (Deleted(i) /\ Reviving(i) = {}) /\ [Next]_vars
      => (Deleted(i) /\ Reviving(i) = {})'
  <2>1. ASSUME UNCHANGED vars PROVE UNCHANGED <<Deleted(i), Reviving(i)>>
    BY <2>1 DEF vars, Deleted, Reviving
  <2> QED
    BY <2>1, DeletedStays, NobodyRevives DEF Next
<1>4. Deleted(i) /\ Reviving(i) = {} => Deleted(i)
  OBVIOUS
<1> QED
  BY <1>1, <1>2, <1>3, <1>4, Inductive, PTL DEF Spec

-----------------------------------------------------------------------------
(* Requests that do not overlap: the inductive step of SerialInv. *)

(* Only the worker that is not idle moves. *)
LEMMA OnlyStep ==
  ASSUME SerialInv, ~overlap, NEW w \in Workers, ~Idle(w), Next
  PROVE  Serve(w) \/ Fail(w)
<1>1. PICK v \in Workers : Arrive(v) \/ Serve(v) \/ Fail(v)
  BY DEF Next
<1>2. ~Arrive(v)
  BY DEF Arrive, StartCreate, StartUpdate, StartAssign, StartDelete, StartRestore, Accept
<1>3. ~Idle(v)
  BY <1>1, <1>2
     DEF Serve, Insert, CheckName, FindClient, Reload, Write, Count, Cascade, Archive, Restore,
         Fail, Idle
<1> QED
  BY <1>1, <1>2, <1>3 DEF SerialInv, OneAtATime

(* The step of the only worker that moves. *)
LEMMA SoloStep ==
  ASSUME IInv, SerialInv, ~overlap, NEW w \in Workers, Arrive(w) \/ Serve(w) \/ Fail(w),
         (Fresh(w) /\ AtHome(w))'
  PROVE  SerialInv'
<1>1. \A v \in Workers \ {w} : pc[v] = "idle"
  <2>1. CASE Arrive(w)
    BY <2>1
       DEF Arrive, StartCreate, StartUpdate, StartAssign, StartDelete, StartRestore, Accept, Idle
  <2>2. CASE Serve(w) \/ Fail(w)
    <3>1. ~Idle(w)
      BY <2>2
         DEF Serve, Insert, CheckName, FindClient, Reload, Write, Count, Cascade, Archive,
             Restore, Fail, Idle
    <3> QED
      BY <3>1 DEF SerialInv, OneAtATime, Idle
  <2> QED
    BY <2>1, <2>2
<1>2. \E p : pc' = [pc EXCEPT ![w] = p]
  BY DEF Arrive, StartCreate, StartUpdate, StartAssign, StartDelete, StartRestore, Accept,
         Serve, Insert, CheckName, FindClient, Reload, Write, Count, Cascade, Archive,
         Restore, Fail, Save, Proceed, Finish, Goto
<1>3. \A v \in Workers \ {w} : pc'[v] = "idle"
  BY <1>1, <1>2 DEF IInv, MemoryOK
<1>4. \A v \in Workers \ {w} : Fresh(v)' /\ AtHome(v)'
  BY <1>3 DEF Fresh, AtHome, Editor, Idle
<1> QED
  BY <1>3, <1>4 DEF SerialInv, OneAtATime, Idle

(* After Finish a worker holds nothing that could be stale. *)
LEMMA RestSerial ==
  ASSUME IInv, NEW w \in Workers, Finish(w)
  PROVE  (Fresh(w) /\ AtHome(w))'
<1>1. pc'[w] = "idle"
  BY DEF Finish, Goto, IInv, MemoryOK
<1> QED
  BY <1>1 DEF Fresh, AtHome, Editor, Idle

LEMMA SameRows ==
  ASSUME UNCHANGED rows
  PROVE  /\ \A i : Loaded(i)' = Loaded(i) /\ Active(i)' = Active(i)
         /\ \A i, j : Child(i, j)' = Child(i, j)
BY DEF Loaded, Joined, Active, Child

LEMMA OwnIs ==
  ASSUME NEW user, RoleOf[user] = "MANAGER", NEW i, Own(user, Loaded(i).department)
  PROVE  rows[i].department = Home(user) /\ Home(user) # Null
         /\ Loaded(i).department = Home(user)
BY DEF Own, Loaded, Joined
(* Where a worker is after a step that goes on, and after one that arrives. *)
LEMMA Where ==
  ASSUME IInv, NEW w \in Workers
  PROVE  /\ \A p, e : Proceed(w, p, e) => pc'[w] = p /\ ent'[w] = e /\ dirty'[w] = dirty[w]
         /\ \A r : Accept(w, r) => req'[w] = r /\ UNCHANGED rows /\ Permitted(r)
BY DEF Proceed, Accept, Goto, IInv, MemoryOK

LEMMA CreateSerial ==
  ASSUME IInv, NEW w \in Workers, NEW r \in Requests \cup Contending, StartCreate(w, r)
  PROVE  (Fresh(w) /\ AtHome(w))'
<1>1. pc'[w] = "insert" /\ ent'[w] = NewEntity(r) /\ req'[w] = r
  BY Where DEF StartCreate
<1>2. NewEntity(r).department = r.dto.department /\ Own(r.user, r.dto.department)
  BY DEF NewEntity, StartCreate
<1> QED
  BY <1>1, <1>2 DEF Fresh, AtHome, Editor, Own

LEMMA UpdateSerial ==
  ASSUME IInv, NEW w \in Workers, NEW r \in Requests \cup Contending, StartUpdate(w, r)
  PROVE  (Fresh(w) /\ AtHome(w))'
<1> DEFINE e == Loaded(r.id)
<1>1. /\ r.op = "update" /\ Active(r.id) /\ rows[r.id].table = r.table /\ Own(r.user, e.department)
      /\ r.table = "clients" => Own(r.user, Given(r.dto.department, e.department))
      /\ Accept(w, r)
      /\ Proceed(w, "checkName", e) \/ Proceed(w, "reload", Edited(e, r.dto))
  BY DEF StartUpdate, Found, Save
<1>2. req'[w] = r /\ UNCHANGED rows /\ Permitted(r)
  BY <1>1, Where
<1>3. \/ pc'[w] = "checkName" /\ ent'[w] = e
      \/ pc'[w] = "reload" /\ ent'[w] = Edited(e, r.dto)
  BY <1>1, Where
<1>4. Fresh(w)'
  <2>1. Active(r.id)' /\ Loaded(r.id)' = e
    BY <1>1, <1>2, SameRows
  <2>2. Wanted(w)' = Edited(e, r.dto)
    BY <1>1, <1>2, <2>1 DEF Wanted, Edited
  <2> HIDE DEF e
  <2> QED
    BY <1>1, <1>2, <1>3, <2>1, <2>2 DEF Fresh, Editor
<1>5. AtHome(w)'
  <2>1. SUFFICES ASSUME RoleOf[r.user] = "MANAGER"
                 PROVE  AtHome(w)'
    BY <1>2 DEF AtHome
  <2>2. /\ rows[r.id].department = Home(r.user) /\ Home(r.user) # Null
        /\ e.department = Home(r.user)
    BY <1>1, <2>1, OwnIs
  <2>3. r.table \in {"tasks", "clients"}
    BY <1>2, <2>1 DEF Permitted
  <2>4. r.dto.parent = Undef
    BY <1>1, <2>3, CatalogAssumption
  <2>5. r.table = "clients" => Given(r.dto.department, Home(r.user)) = Home(r.user)
    BY <1>1, <2>1, <2>2 DEF Own
  <2> HIDE DEF e
  <2> QED
    BY <1>1, <1>2, <1>3, <2>2, <2>4, <2>5 DEF AtHome, Editor
<1> QED
  BY <1>4, <1>5

LEMMA AssignSerial ==
  ASSUME IInv, NEW w \in Workers, NEW r \in Requests \cup Contending, StartAssign(w, r)
  PROVE  (Fresh(w) /\ AtHome(w))'
<1> DEFINE e == Loaded(r.id)
<1>1. /\ r.op = "assign" /\ Active(r.id) /\ rows[r.id].table = "tasks" /\ Own(r.user, e.department)
      /\ Accept(w, r) /\ Proceed(w, "findClient", e)
  BY DEF StartAssign, Found
<1>2. req'[w] = r /\ UNCHANGED rows /\ pc'[w] = "findClient" /\ ent'[w] = e
  BY <1>1, Where
<1>3. Active(r.id)' /\ Loaded(r.id)' = e
  BY <1>1, <1>2, SameRows
<1>4. RoleOf[r.user] = "MANAGER" => rows[r.id].department = Home(r.user) /\ Home(r.user) # Null
  BY <1>1, OwnIs
<1> HIDE DEF e
<1> QED
  BY <1>1, <1>2, <1>3, <1>4 DEF Fresh, AtHome, Editor

LEMMA DeleteSerial ==
  ASSUME IInv, NEW w \in Workers, NEW r \in Requests \cup Contending, StartDelete(w, r)
  PROVE  (Fresh(w) /\ AtHome(w))'
<1> DEFINE p == IF r.table \in {"departments", "clients"} THEN "count" ELSE "archive"
<1>1. /\ Active(r.id) /\ rows[r.id].table = r.table /\ Own(r.user, Loaded(r.id).department)
      /\ Accept(w, r) /\ Proceed(w, p, NoEntity) /\ r.op = "delete"
  BY DEF StartDelete, Found
<1>2. req'[w] = r /\ UNCHANGED rows /\ Permitted(r) /\ pc'[w] = p
  BY <1>1, Where
<1>3. Active(r.id)'
  BY <1>1, <1>2, SameRows
<1>4. r.table \notin {"departments", "clients"} => \A j : ~Child(j, r.id)'
  BY <1>1, <1>2 DEF Child
<1>5. Fresh(w)'
  BY <1>2, <1>3, <1>4 DEF Fresh, Editor
<1>6. RoleOf[r.user] = "MANAGER" => r.table = "tasks" /\ rows[r.id].department = Home(r.user)
  BY <1>1, <1>2, OwnIs DEF Permitted
<1> QED
  BY <1>1, <1>2, <1>5, <1>6 DEF AtHome, Editor

LEMMA RestoreSerial ==
  ASSUME IInv, NEW w \in Workers, NEW r \in Requests \cup Contending, StartRestore(w, r)
  PROVE  (Fresh(w) /\ AtHome(w))'
<1>1. /\ rows[r.id].table = r.table /\ Own(r.user, rows[r.id].department)
      /\ Accept(w, r) /\ Proceed(w, "restore", NoEntity) /\ r.op = "restore"
  BY DEF StartRestore
<1>2. req'[w] = r /\ UNCHANGED rows /\ Permitted(r) /\ pc'[w] = "restore"
  BY <1>1, Where
<1>3. RoleOf[r.user] = "MANAGER" => r.table = "tasks" /\ rows[r.id].department = Home(r.user)
  BY <1>1, <1>2 DEF Permitted, Own
<1> QED
  BY <1>1, <1>2, <1>3 DEF Fresh, AtHome, Editor

(* The calls after the first, for a worker that found its row. *)
LEMMA CheckNameSerial ==
  ASSUME IInv, NEW w \in Workers, Fresh(w), AtHome(w), CheckName(w)
  PROVE  (Fresh(w) /\ AtHome(w))'
<1>1. CASE Finish(w)
  BY <1>1, RestSerial
<1>2. CASE ~Finish(w)
  <2>1. /\ pc[w] = "checkName" /\ UNCHANGED <<rows, req>>
        /\ Proceed(w, "reload", Edited(ent[w], req[w].dto))
    BY <1>2 DEF CheckName, Save
  <2>2. /\ pc'[w] = "reload" /\ ent'[w] = Edited(ent[w], req[w].dto)
        /\ Active(req[w].id) /\ req[w].op = "update" /\ ent[w] = Loaded(req[w].id)
    BY <2>1, Where DEF Fresh, Editor
  <2>3. Active(req[w].id)' /\ Wanted(w)' = Edited(ent[w], req[w].dto)
    BY <2>1, <2>2, SameRows DEF Wanted, Edited
  <2>4. Fresh(w)'
    BY <2>1, <2>2, <2>3 DEF Fresh, Editor
  <2> QED
    BY <2>1, <2>2, <2>4 DEF AtHome, Editor, Idle
<1> QED
  BY <1>1, <1>2

LEMMA FindClientSerial ==
  ASSUME IInv, NEW w \in Workers, Fresh(w), AtHome(w), FindClient(w)
  PROVE  (Fresh(w) /\ AtHome(w))'
<1>1. CASE Finish(w)
  BY <1>1, RestSerial
<1>2. CASE ~Finish(w)
  <2> DEFINE client == req[w].dto.parent
             e == [ent[w] EXCEPT !.parent = client]
  <2>1. /\ pc[w] = "findClient" /\ UNCHANGED <<rows, req>>
        /\ Active(client) /\ Own(req[w].user, Loaded(client).department)
        /\ Proceed(w, "reload", e)
    BY <1>2 DEF FindClient, Save, Found
  <2>2. /\ pc'[w] = "reload" /\ ent'[w] = e
        /\ Active(req[w].id) /\ req[w].op = "assign" /\ ent[w] = Loaded(req[w].id)
    BY <2>1, Where DEF Fresh, Editor
  <2>3. Loaded(req[w].id)' = Loaded(req[w].id) /\ Active(req[w].id)'
    BY <2>1, <2>2, SameRows
  <2>4. Wanted(w)' = e
    BY <2>1, <2>2, <2>3 DEF Wanted
  <2> HIDE DEF e
  <2>5. Fresh(w)'
    BY <2>1, <2>2, <2>3, <2>4 DEF Fresh, Editor
  <2>6. RoleOf[req[w].user] = "MANAGER" => rows[client].department = Home(req[w].user)
    BY <2>1, OwnIs
  <2>7. client \in DOMAIN rows
    BY <2>1 DEF Active
  <2> QED
    BY <2>1, <2>2, <2>5, <2>6, <2>7 DEF AtHome, Editor, Idle
<1> QED
  BY <1>1, <1>2

LEMMA ReloadSerial ==
  ASSUME IInv, NEW w \in Workers, Fresh(w), AtHome(w), Reload(w)
  PROVE  (Fresh(w) /\ AtHome(w))'
<1> DEFINE d == Dirty(ent[w], rows[req[w].id], Columns)
<1>1. /\ pc[w] = "reload" /\ UNCHANGED <<rows, req, ent>>
      /\ pc'[w] = "write" /\ dirty'[w] = d
  BY DEF Reload, Goto, IInv, MemoryOK
<1>2. /\ Loaded(req[w].id)' = Loaded(req[w].id) /\ Active(req[w].id)
      /\ Active(req[w].id)' /\ ent[w] = Wanted(w) /\ req[w].op \in {"update", "assign"}
  BY <1>1, SameRows DEF Fresh, Editor
<1>3. Wanted(w)' = Wanted(w)
  BY <1>1, <1>2 DEF Wanted, Edited
<1>4. Dirty(ent[w], rows[req[w].id], Columns)' = d
  BY <1>1 DEF Dirty
<1> HIDE DEF d
<1>5. Fresh(w)'
  BY <1>1, <1>2, <1>3, <1>4 DEF Fresh, Editor
<1> QED
  BY <1>1, <1>5 DEF AtHome, Editor, Idle

(* Before the children are counted, the row is active: no active child     *)
(* means that every child is archived.                                     *)
LEMMA CountSerial ==
  ASSUME IInv, NEW w \in Workers, Fresh(w), AtHome(w), Count(w)
  PROVE  (Fresh(w) /\ AtHome(w))'
<1>1. CASE Finish(w)
  BY <1>1, RestSerial
<1>2. CASE ~Finish(w)
  <2>1. /\ pc[w] = "count" /\ UNCHANGED <<rows, req>>
        /\ \/ ActiveChildren(req[w].id) = {} /\ Proceed(w, "archive", NoEntity)
           \/ Proceed(w, "cascade", NoEntity)
    BY <1>2 DEF Count
  <2>2. Active(req[w].id) /\ Active(req[w].id)'
    BY <2>1, SameRows DEF Fresh
  <2>3. CASE ActiveChildren(req[w].id) = {} /\ Proceed(w, "archive", NoEntity)
    <3>1. pc'[w] = "archive"
      BY <2>3, Where
    <3>2. \A j \in DOMAIN rows : Child(j, req[w].id) => rows[j].deleted
      BY <2>2, <2>3 DEF ActiveChildren, Active
    <3>3. \A j \in DOMAIN rows : Child(j, req[w].id)' = Child(j, req[w].id)
      BY <2>1, SameRows
    <3>4. \A j \in DOMAIN rows' : Child(j, req[w].id)' => rows'[j].deleted
      BY <2>1, <3>2, <3>3
    <3>5. Fresh(w)'
      BY <2>1, <3>1, <3>4 DEF Fresh, Editor, Child
    <3> QED
      BY <2>1, <3>1, <3>5 DEF AtHome, Idle
  <2>4. CASE Proceed(w, "cascade", NoEntity)
    <3>1. pc'[w] = "cascade"
      BY <2>4, Where
    <3>2. Fresh(w)'
      BY <2>1, <2>2, <3>1 DEF Fresh, Editor
    <3> QED
      BY <2>1, <3>1, <3>2 DEF AtHome, Idle
  <2> QED
    BY <2>1, <2>3, <2>4
<1> QED
  BY <1>1, <1>2

LEMMA CascadeSerial ==
  ASSUME IInv, NEW w \in Workers, Fresh(w), AtHome(w), Cascade(w)
  PROVE  (Fresh(w) /\ AtHome(w))'
<1> DEFINE i == req[w].id
<1>1. pc[w] = "cascade" /\ UNCHANGED req /\ Proceed(w, "archive", NoEntity)
  BY DEF Cascade
<1>2. pc'[w] = "archive"
  BY <1>1, Where
<1>3. /\ DOMAIN rows' = DOMAIN rows /\ i \in DOMAIN rows /\ req[w].user \in Users
      /\ \A j \in DOMAIN rows : rows'[j] = IF Child(j, i) THEN Archived(rows[j], req[w].user)
                                           ELSE rows[j]
  BY CascadeRows
<1>4. \A j \in DOMAIN rows : /\ rows'[j].table = rows[j].table
                             /\ rows'[j].department = rows[j].department
                             /\ rows'[j].parent = rows[j].parent
                             /\ Child(j, i) => rows'[j].deleted
  BY <1>3, ArchivedOK DEF IInv, RowsOK
<1>5. \A j \in DOMAIN rows : Child(j, i)' => rows'[j].deleted
  BY <1>1, <1>3, <1>4 DEF Child
<1>6. Fresh(w)'
  BY <1>1, <1>2, <1>3, <1>5 DEF Fresh, Editor
<1> QED
  BY <1>1, <1>2, <1>6 DEF AtHome, Idle

(* Whether requests may overlap is chosen once.                            *)
LEMMA OverlapStays ==
  ASSUME Next
  PROVE  UNCHANGED overlap
<1>1. PICK w \in Workers : Arrive(w) \/ Serve(w) \/ Fail(w)
  BY DEF Next
<1>2. CASE Arrive(w)
  <2>1. PICK r \in Requests \cup Contending : Accept(w, r)
    BY <1>2, Zenon DEF Arrive, StartCreate, StartUpdate, StartAssign, StartDelete, StartRestore
  <2> QED
    BY <2>1 DEF Accept
<1>3. CASE FindClient(w)
  BY <1>3, Zenon DEF FindClient
<1>4. CASE Insert(w) \/ Write(w) \/ Restore(w) \/ Cascade(w) \/ Archive(w)
  BY <1>4, Zenon DEF Insert, Write, Restore, Cascade, Archive
<1>5. CASE CheckName(w) \/ Reload(w) \/ Count(w) \/ Fail(w)
  BY <1>5, Zenon DEF CheckName, Reload, Count, Fail
<1> QED
  BY <1>1, <1>2, <1>3, <1>4, <1>5 DEF Serve

LEMMA SerialStep ==
  ASSUME IInv, SerialInv, [Next]_vars
  PROVE  SerialInv'
<1>1. CASE UNCHANGED vars
  <2>1. UNCHANGED <<rows, overlap, pc, req, ent, dirty>>
    BY <1>1 DEF vars
  <2>2. ASSUME NEW w \in Workers PROVE Fresh(w)' = Fresh(w) /\ AtHome(w)' = AtHome(w)
    BY <2>1, SameRows DEF Fresh, AtHome, Wanted, Edited, Dirty, Idle, Loaded, Joined, Active, Child
  <2> QED
    BY <2>1, <2>2 DEF SerialInv, OneAtATime, Idle
<1>2. CASE overlap
  <2>1. ASSUME Next PROVE UNCHANGED overlap
    BY <2>1, OverlapStays
  <2> QED
    BY <1>1, <1>2, <2>1 DEF SerialInv
<1>3. CASE ~overlap /\ Next
  <2>1. PICK w \in Workers : Arrive(w) \/ Serve(w) \/ Fail(w)
    BY <1>3 DEF Next
  <2>2. Fresh(w) /\ AtHome(w)
    BY <1>3 DEF SerialInv
  <2>3. CASE Arrive(w)
    <3>1. PICK r \in Requests \cup Contending :
             \/ StartCreate(w, r) \/ StartUpdate(w, r) \/ StartAssign(w, r)
             \/ StartDelete(w, r) \/ StartRestore(w, r)
      BY <2>3 DEF Arrive
    <3>2. (Fresh(w) /\ AtHome(w))'
      BY <3>1, CreateSerial, UpdateSerial, AssignSerial, DeleteSerial, RestoreSerial
    <3> QED
      BY <1>3, <2>3, <3>2, SoloStep
  <2>4. CASE Insert(w) \/ Write(w) \/ Archive(w) \/ Restore(w) \/ Fail(w)
    <3>1. Finish(w)
      BY <2>4 DEF Insert, Write, Archive, Restore, Fail
    <3> QED
      BY <1>3, <2>1, <3>1, RestSerial, SoloStep
  <2>5. CASE CheckName(w) \/ FindClient(w) \/ Reload(w) \/ Count(w) \/ Cascade(w)
    <3>1. (Fresh(w) /\ AtHome(w))'
      BY <2>2, <2>5, CheckNameSerial, FindClientSerial, ReloadSerial, CountSerial, CascadeSerial
    <3> QED
      BY <1>3, <2>1, <3>1, SoloStep
  <2> QED
    BY <2>1, <2>3, <2>4, <2>5 DEF Serve
<1> QED
  BY <1>1, <1>2, <1>3

LEMMA Serial == Spec => [](IInv /\ SerialInv)
<1>1. Init => SerialInv
  BY DEF Init, SerialInv, OneAtATime, Fresh, AtHome, Idle, Editor
<1>2. IInv /\ SerialInv /\ [Next]_vars => SerialInv'
  BY SerialStep
<1> QED
  BY <1>1, <1>2, Inductive, PTL DEF Spec

(* A row changed: the worker whose call it was, and which call.            *)
LEMMA ChangedBy ==
  ASSUME IInv, SerialInv, ~overlap, [Next]_vars, NEW w \in Workers, ~Idle(w), rows' # rows
  PROVE  /\ pc[w] = "insert" => Insert(w)
         /\ pc[w] = "write" => Write(w)
         /\ pc[w] = "archive" => Archive(w)
         /\ pc[w] = "restore" => Restore(w)
<1>1. Serve(w) \/ Fail(w)
  BY OnlyStep DEF vars
<1>2. ~Fail(w)
  BY DEF Fail
<1>3. /\ CheckName(w) => UNCHANGED rows
      /\ FindClient(w) => UNCHANGED rows
      /\ Reload(w) => UNCHANGED rows
      /\ Count(w) => UNCHANGED rows
  BY Zenon DEF CheckName, FindClient, Reload, Count
<1>4. /\ Insert(w) => pc[w] = "insert"
      /\ Write(w) => pc[w] = "write"
      /\ Archive(w) => pc[w] = "archive"
      /\ Restore(w) => pc[w] = "restore"
      /\ Cascade(w) => pc[w] = "cascade"
  BY DEF Insert, Write, Archive, Restore, Cascade
<1> QED
  BY <1>1, <1>2, <1>3, <1>4 DEF Serve

(* What the UPDATE of an entity that holds what the row still says makes   *)
(* of each column.                                                         *)
LEMMA ColumnsWritten ==
  ASSUME IInv, NEW w \in Workers, Fresh(w), Write(w), req[w].op = "update",
         rows'[req[w].id] # rows[req[w].id], NEW c \in Columns,
         rows'[req[w].id][c] # rows[req[w].id][c]
  PROVE  LET i == req[w].id
         IN  \/ c \in DOMAIN req[w].dto /\ req[w].dto[c] # Undef
             \/ rows'[i][c] = Null /\ ~Active(rows[i][c])
<1> DEFINE i == req[w].id
           old == Loaded(i)
           dto == req[w].dto
<1>1. /\ pc[w] = "write" /\ i \in DOMAIN rows /\ dirty[w] \in SUBSET Columns
      /\ ent[w] \in Entity /\ rows[i] \in Row /\ req[w] \in Request
  BY RowIds DEF Write, IInv, WorkersOK, Phase, Editor, MemoryOK
<1>2. Active(i) /\ ent[w] = Edited(old, dto) /\ dirty[w] = Dirty(ent[w], rows[i], Columns)
  BY <1>1 DEF Fresh, Wanted, Editor
<1>3. old \in Entity /\ dto \in Dto
  BY <1>1, <1>2, LoadedOK DEF IInv, Request
<1>4. rows'[i] = Updated(rows[i], ent[w], dirty[w])
  BY WriteRows
<1>5. rows'[i][c] = (IF c \in dirty[w] THEN ent[w][c] ELSE rows[i][c])
  BY <1>1, <1>4, UpdatedColumns
<1>6. c \in dirty[w] /\ rows'[i][c] = ent[w][c] /\ ent[w][c] # rows[i][c]
  BY <1>2, <1>5 DEF Dirty
<1>7. DOMAIN dto = {"name", "detail", "department", "parent"}
  BY <1>3 DEF Dto
<1>8. /\ old.name = rows[i].name /\ old.detail = rows[i].detail
      /\ old.department = Joined(rows[i].department) /\ old.parent = Joined(rows[i].parent)
      /\ old.createdBy = Joined(rows[i].createdBy) /\ old.deleted = rows[i].deleted
  BY DEF Loaded
<1> HIDE DEF old
<1>9. /\ ent[w].name = Given(dto.name, old.name)
      /\ ent[w].detail = Given(dto.detail, old.detail)
      /\ ent[w].department = Given(dto.department, old.department)
      /\ ent[w].parent = Given(dto.parent, old.parent)
      /\ ent[w].createdBy = old.createdBy /\ ent[w].deleted = old.deleted
  BY <1>2, <1>3, EditedOK
<1> HIDE DEF dto, i
<1>10. CASE c = "name"
  BY <1>6, <1>7, <1>8, <1>9, <1>10 DEF Given, dto, i
<1>11. CASE c = "detail"
  BY <1>6, <1>7, <1>8, <1>9, <1>11 DEF Given, dto, i
<1>12. CASE c = "department"
  BY <1>6, <1>7, <1>8, <1>9, <1>12 DEF Given, Joined, dto, i
<1>13. CASE c = "parent"
  BY <1>6, <1>7, <1>8, <1>9, <1>13 DEF Given, Joined, dto, i
<1>14. CASE c = "createdBy"
  BY <1>6, <1>8, <1>9, <1>14 DEF Joined, i
<1>15. c # "deleted"
  BY <1>6, <1>8, <1>9
<1> QED
  BY <1>10, <1>11, <1>12, <1>13, <1>14, <1>15 DEF Columns

(* When requests do not overlap, an edit writes the columns its body names *)
(* and at most drops the link to an archived row: the entity save() puts   *)
(* back still is what the row says.                                        *)
THEOREM EditsAreNamed == Spec => EditsWhatItNames
<1> DEFINE Named(w) ==
      ~overlap /\ pc[w] = "write" /\ req[w].op = "update" /\ rows' # rows
      => LET i == req[w].id
         IN  /\ \A j \in DOMAIN rows \ {i} : rows'[j] = rows[j]
             /\ \A c \in DOMAIN rows[i] :
                   \/ rows'[i][c] = rows[i][c]
                   \/ c \in DOMAIN req[w].dto /\ req[w].dto[c] # Undef
                   \/ rows'[i][c] = Null /\ ~Active(rows[i][c])
<1>1. ASSUME IInv, SerialInv, [Next]_vars, NEW w \in Workers,
             ~overlap, pc[w] = "write", req[w].op = "update", rows' # rows
      PROVE  LET i == req[w].id
             IN  /\ \A j \in DOMAIN rows \ {i} : rows'[j] = rows[j]
                 /\ \A c \in DOMAIN rows[i] :
                       \/ rows'[i][c] = rows[i][c]
                       \/ c \in DOMAIN req[w].dto /\ req[w].dto[c] # Undef
                       \/ rows'[i][c] = Null /\ ~Active(rows[i][c])
  <2>1. Write(w) /\ Fresh(w)
    BY <1>1, ChangedBy DEF SerialInv, Idle
  <2> DEFINE i == req[w].id
  <2>2. /\ i \in DOMAIN rows /\ \A j \in DOMAIN rows \ {i} : rows'[j] = rows[j]
        /\ rows'[i] \in {rows[i], Updated(rows[i], ent[w], dirty[w])}
    BY <1>1, <2>1, WriteRows
  <2>3. rows[i] \in Row /\ ent[w] \in Entity /\ dirty[w] \in SUBSET Columns
    BY <1>1, <2>2, RowIds DEF IInv, WorkersOK, Phase, Editor, MemoryOK
  <2>4. rows'[i].table = rows[i].table /\ rows'[i].deletedBy = rows[i].deletedBy
    BY <2>2, <2>3, UpdatedOK
  <2>5. DOMAIN rows[i] = Columns \cup {"table", "deletedBy"}
    BY <2>3 DEF Row, Columns
  <2>6. ASSUME NEW c \in Columns, rows'[i][c] # rows[i][c]
        PROVE  \/ c \in DOMAIN req[w].dto /\ req[w].dto[c] # Undef
               \/ rows'[i][c] = Null /\ ~Active(rows[i][c])
    BY <1>1, <2>1, <2>6, ColumnsWritten
  <2> QED
    BY <2>2, <2>4, <2>5, <2>6
<1>2. IInv /\ SerialInv /\ [Next]_vars => [\A w \in Workers : Named(w)]_vars
  BY <1>1
<1> QED
  BY <1>2, Serial, PTL DEF Spec, EditsWhatItNames

(* When requests do not overlap, deleting a department or a client leaves  *)
(* none of its children active: none was there when they were counted, or  *)
(* the cascade reached them, and no request came in between.               *)
THEOREM DeletionsReach == Spec => DeletionReachesChildren
<1> DEFINE Reaches(w) ==
      ~overlap /\ pc[w] = "archive" /\ rows' # rows
      => LET i == req[w].id
         IN  \A j \in DOMAIN rows : Child(j, i) => rows'[j].deleted
<1>1. ASSUME IInv, SerialInv, [Next]_vars, NEW w \in Workers,
             ~overlap, pc[w] = "archive", rows' # rows,
             NEW j \in DOMAIN rows, Child(j, req[w].id)
      PROVE  rows'[j].deleted
  <2>1. Archive(w) /\ rows[j].deleted
    BY <1>1, ChangedBy DEF SerialInv, Idle, Fresh
  <2>2. /\ req[w].user \in Users /\ rows'[req[w].id] = Archived(rows[req[w].id], req[w].user)
        /\ \A k \in DOMAIN rows \ {req[w].id} : rows'[k] = rows[k]
    BY <1>1, <2>1, ArchiveRows
  <2>3. CASE j = req[w].id
    BY <1>1, <2>2, <2>3, ArchivedOK DEF IInv, RowsOK
  <2> QED
    BY <2>1, <2>2, <2>3
<1>2. IInv /\ SerialInv /\ [Next]_vars => [\A w \in Workers : Reaches(w)]_vars
  BY <1>1
<1> QED
  BY <1>2, Serial, PTL DEF Spec, DeletionReachesChildren

(* What an edit by a manager makes of the row it is about.                 *)
LEMMA WriteAtHome ==
  ASSUME IInv, NEW w \in Workers, Fresh(w), AtHome(w), Write(w),
         RoleOf[req[w].user] = "MANAGER"
  PROVE  LET i    == req[w].id
             home == Home(req[w].user)
         IN  rows'[i] # rows[i] =>
                /\ rows[i].department = home
                /\ rows[i].table = "clients" => rows'[i].department = home
                /\ rows'[i].parent \notin {rows[i].parent, Null}
                   => rows[rows'[i].parent].department = home
<1> DEFINE i == req[w].id
           dto == req[w].dto
           home == Home(req[w].user)
           old == Loaded(i)
<1>1. /\ pc[w] = "write" /\ i \in DOMAIN rows /\ dirty[w] \in SUBSET Columns
      /\ ent[w] \in Entity /\ rows[i] \in Row /\ req[w] \in Request
  BY RowIds DEF Write, IInv, WorkersOK, Phase, Editor, MemoryOK
<1>2. /\ Active(i) /\ req[w].op \in {"update", "assign"}
      /\ ent[w] = Wanted(w) /\ rows[i].department = home
  BY <1>1 DEF Fresh, AtHome, Editor, Idle
<1>3. old \in Entity /\ dto \in Dto
  BY <1>1, <1>2, LoadedOK DEF IInv, Request
<1>4. rows'[i] \in {rows[i], Updated(rows[i], ent[w], dirty[w])} /\ RowsOK'
  BY WriteRows
<1>5. SUFFICES ASSUME rows'[i] # rows[i]
               PROVE  /\ rows[i].table = "clients" => rows'[i].department = home
                      /\ rows'[i].parent \notin {rows[i].parent, Null}
                         => rows[rows'[i].parent].department = home
  BY <1>2
<1>6. /\ rows'[i].department \in {rows[i].department, ent[w].department}
      /\ rows'[i].parent \in {rows[i].parent, ent[w].parent}
  BY <1>1, <1>4, <1>5, UpdatedColumns DEF Columns
<1>7. rows'[i].table = rows[i].table
  BY <1>1, <1>4, <1>5, UpdatedOK
<1>8. rows[i].table = "clients" => rows'[i].department # Null
  BY <1>1, <1>4, <1>7, WriteRows DEF RowsOK, Sound, Linked
<1>9. old.department \in {home, Null} /\ old.parent \in {rows[i].parent, Null}
  BY <1>2 DEF Loaded, Joined
<1> HIDE DEF old
<1>10. CASE req[w].op = "update"
  <2>1. /\ dto.parent = Undef
        /\ rows[i].table = "clients" => Given(dto.department, home) = home
    BY <1>1, <1>10 DEF AtHome, Editor, Idle
  <2>2. ent[w] = Edited(old, dto)
    BY <1>2, <1>10 DEF Wanted, old
  <2>3. /\ ent[w].department = Given(dto.department, old.department)
        /\ ent[w].parent = Given(dto.parent, old.parent)
    BY <1>3, <2>2, EditedOK
  <2>4. rows[i].table = "clients" => ent[w].department \in {home, Null}
    BY <1>9, <2>1, <2>3 DEF Given
  <2>5. ent[w].parent \in {rows[i].parent, Null}
    BY <1>9, <2>1, <2>3 DEF Given
  <2> QED
    BY <1>2, <1>6, <1>8, <2>4, <2>5
<1>11. CASE req[w].op = "assign"
  <2>1. rows[i].table = "tasks" /\ rows[dto.parent].department = home
    BY <1>1, <1>11 DEF AtHome, Editor, Idle
  <2>2. ent[w] = [old EXCEPT !.parent = dto.parent]
    BY <1>2, <1>11 DEF Wanted, old
  <2>3. ent[w].parent = dto.parent
    BY <1>3, <2>2 DEF Entity
  <2> QED
    BY <1>6, <2>1, <2>3
<1> QED
  BY <1>2, <1>10, <1>11

(* When requests do not overlap, a manager's request changes only clients  *)
(* and tasks of the manager's own department, leaves a client in it, and   *)
(* links a task to no client of another: the checks on the entity that was *)
(* read are still true of the row that is written, and the NOT NULL column *)
(* stops the one edit that would take a client out of every department.    *)
THEOREM ManagersStay == Spec => ManagersStayHome
<1> DEFINE Stays(w) ==
      ~overlap /\ pc[w] \in {"insert", "write", "archive", "restore"}
      /\ RoleOf[req[w].user] = "MANAGER"
      => \A i \in DOMAIN rows' :
            LET home == Home(req[w].user)
            IN  IF i \notin DOMAIN rows THEN rows'[i].department = home
                ELSE rows'[i] # rows[i] =>
                        /\ rows[i].department = home
                        /\ rows[i].table = "clients" => rows'[i].department = home
                        /\ rows'[i].parent \notin {rows[i].parent, Null}
                           => rows[rows'[i].parent].department = home
<1>1. ASSUME IInv, SerialInv, [Next]_vars, NEW w \in Workers,
             ~overlap, pc[w] \in {"insert", "write", "archive", "restore"},
             RoleOf[req[w].user] = "MANAGER", NEW i \in DOMAIN rows'
      PROVE  LET home == Home(req[w].user)
             IN  IF i \notin DOMAIN rows THEN rows'[i].department = home
                 ELSE rows'[i] # rows[i] =>
                         /\ rows[i].department = home
                         /\ rows[i].table = "clients" => rows'[i].department = home
                         /\ rows'[i].parent \notin {rows[i].parent, Null}
                            => rows[rows'[i].parent].department = home
  <2> DEFINE home == Home(req[w].user)
             k == req[w].id
  <2>1. Fresh(w) /\ AtHome(w) /\ ~Idle(w)
    BY <1>1 DEF SerialInv, Idle
  <2>2. CASE UNCHANGED rows
    BY <1>1, <2>2
  <2>3. CASE rows' # rows /\ pc[w] = "insert"
    <3>1. Insert(w)
      BY <1>1, <2>1, <2>3, ChangedBy
    <3>2. /\ DOMAIN rows' = DOMAIN rows \cup {Len(rows) + 1}
          /\ rows'[Len(rows) + 1] = Stored(req[w].table, ent[w])
          /\ \A j \in DOMAIN rows : rows'[j] = rows[j]
      BY <1>1, <2>3, <3>1, InsertRows
    <3>3. req[w].table \in Tables /\ ent[w] \in Entity
      BY <1>1, <2>3 DEF IInv, WorkersOK, Phase, Request
    <3>4. ent[w].department = home
      BY <1>1, <2>1, <2>3 DEF AtHome
    <3> QED
      BY <3>2, <3>3, <3>4, StoredOK
  <2>4. CASE rows' # rows /\ pc[w] = "write"
    <3>1. Write(w)
      BY <1>1, <2>1, <2>4, ChangedBy
    <3>2. DOMAIN rows' = DOMAIN rows /\ \A j \in DOMAIN rows \ {k} : rows'[j] = rows[j]
      BY <1>1, <3>1, WriteRows
    <3>3. CASE i = k
      BY <1>1, <2>1, <3>1, <3>2, <3>3, WriteAtHome
    <3> QED
      BY <3>2, <3>3
  <2>5. CASE rows' # rows /\ pc[w] \in {"archive", "restore"}
    <3>1. Archive(w) \/ Restore(w)
      BY <1>1, <2>1, <2>5, ChangedBy
    <3>2. /\ DOMAIN rows' = DOMAIN rows /\ k \in DOMAIN rows
          /\ \A j \in DOMAIN rows \ {k} : rows'[j] = rows[j]
          /\ \/ rows'[k] = rows[k]
             \/ req[w].user \in Users /\ rows'[k] = Archived(rows[k], req[w].user)
             \/ rows'[k] = Restored(rows[k])
      BY <1>1, <3>1, ArchiveRows, RestoreRows
    <3>3. rows[k].department = home /\ rows[k].table = "tasks"
      BY <1>1, <2>1, <2>5 DEF AtHome
    <3>4. rows'[k].parent = rows[k].parent
      BY <1>1, <3>2, ArchivedOK, RestoredOK DEF IInv, RowsOK
    <3> QED
      BY <3>2, <3>3, <3>4
  <2> QED
    BY <1>1, <2>2, <2>3, <2>4, <2>5
<1>2. IInv /\ SerialInv /\ [Next]_vars => [\A w \in Workers : Stays(w)]_vars
  BY <1>1
<1> QED
  BY <1>2, Serial, PTL DEF Spec, ManagersStayHome
===============================================================================
