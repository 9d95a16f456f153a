------------------------------- MODULE Catalog -------------------------------
(***************************************************************************)
(* The soft-deletable records HR and managers keep: departments, clients,  *)
(* tasks and employees (departments.service.ts, clients.service.ts,        *)
(* tasks.service.ts, employees.service.ts).  The four services share one   *)
(* shape - find, check, save(); archive with or without the children;      *)
(* restore - and differ in their checks, so the tables are one sequence of *)
(* rows here and the differences are conditions on a row's table.          *)
(*                                                                         *)
(* As in TimeEntries, a step of a worker is one database call with the     *)
(* code up to the next one, and save() is a second read and an UPDATE of   *)
(* the columns that differ from it.  Requests that only end in an error    *)
(* (no such row, a name that is taken, another department's record) change *)
(* nothing and have no step.                                               *)
(*                                                                         *)
(* name stands for a department's or client's name, a task's title and an  *)
(* employee's email and username; detail for the columns no rule is about  *)
(* (description, fullName, status, passwordHash, role); parent for a       *)
(* task's client and an employee's manager.                                *)
(***************************************************************************)
EXTENDS RowStore, Integers, Sequences, FiniteSets

CONSTANTS
    Workers,        \* request contexts of the server
    Names, Details, \* values of the columns name and detail
    Seed,           \* the rows the seed script leaves
    Users,          \* ids of employees of the seed who send requests
    RoleOf,         \* the role in each user's access token
    Requests,       \* the requests they send one at a time
    Contending,     \* those they send at once
    MaxRows,        \* bound on rows
    MaxFailures     \* bound on failed database calls

Tables == {"departments", "clients", "tasks", "employees"}
Roles == {"EMPLOYEE", "MANAGER", "HR", "ADMIN"}
Ids == Nat \ {0}

Row == [table: Tables, name: Names, detail: Details, department: Ids \cup {Null},
        parent: Ids \cup {Null}, createdBy: Ids \cup {Null},
        deleted: BOOLEAN, deletedBy: Ids \cup {Null}]

(* The columns an entity of any of the tables loads. *)
Columns == {"name", "detail", "department", "parent", "createdBy", "deleted"}

(* A body: for an update, Undef in what it leaves alone. *)
Dto == [name: Names \cup {Undef}, detail: Details \cup {Undef},
        department: Ids \cup {Undef, Null}, parent: Ids \cup {Undef, Null}]

(* id is 0 for a create; assign-client has the client as dto.parent.       *)
Request == [op: {"create", "update", "assign", "delete", "restore"},
            user: Users, table: Tables, id: Nat, dto: Dto, force: BOOLEAN]

ASSUME CatalogAssumption ==
    /\ Null \notin Names \cup Details \cup Ids
    /\ Undef \notin Names \cup Details \cup Ids
    /\ Seed \in Seq(Row)
    /\ Users \subseteq DOMAIN Seed
    /\ RoleOf \in [Users -> Roles]
    /\ Requests \cup Contending \subseteq Request
    /\ \A r \in Requests \cup Contending : r.op = "create" => /\ r.dto.name \in Names
                                              /\ r.dto.detail \in Details
                                              /\ r.dto.department # Undef
                                              /\ r.dto.parent # Undef
    /\ \A r \in Requests \cup Contending :          \* UpdateTaskDto has no clientId
          r.op = "update" /\ r.table \in {"clients", "tasks"} => r.dto.parent = Undef
    /\ MaxRows \in Nat /\ MaxFailures \in Nat

VARIABLES
    rows,       \* the four tables
    overlap,    \* whether requests may overlap; chosen once
    pc,         \* the database call each worker makes next
    req,        \* the request each worker serves
    ent,        \* the entity in memory
    dirty,      \* save(): the columns the UPDATE will write
    failures    \* database calls that failed

vars == <<rows, overlap, pc, req, ent, dirty, failures>>

-----------------------------------------------------------------------------
(* Rows. *)

Active(i) == i \in DOMAIN rows /\ ~rows[i].deleted

(* The relation to a soft-deleted row joins as null. *)
Joined(i) == IF Active(i) THEN i ELSE Null

Loaded(i) ==
    [name |-> rows[i].name, detail |-> rows[i].detail,
     department |-> Joined(rows[i].department), parent |-> Joined(rows[i].parent),
     createdBy |-> Joined(rows[i].createdBy), deleted |-> rows[i].deleted]

NoEntity == [name |-> Undef, detail |-> Undef, department |-> Null, parent |-> Null,
             createdBy |-> Null, deleted |-> FALSE]

(* findOne() does not see soft-deleted rows. *)
Found(i, table) == Active(i) /\ rows[i].table = table

(* Whose names must differ: departments' and employees' everywhere,        *)
(* clients' within a department, tasks' titles nowhere.                    *)
SameKey(row, table, name, department) ==
    /\ table # "tasks"
    /\ row.table = table /\ row.name = name
    /\ table = "clients" => row.department = department

(* assertNameAvailable(), assertNameAvailableInDepartment() and            *)
(* assertEmailAndUsernameAvailable(): a findOne() that, for clients, joins *)
(* the department.                                                         *)
NameTaken(table, name, department) ==
    \E j \in DOMAIN rows : /\ Active(j)
                           /\ SameKey(rows[j], table, name, department)
                           /\ table = "clients" => Active(department)

(* The partial unique indexes, for a row about to be stored as row i. *)
MutantIndexed(i, row) == TRUE
Indexed(i, row) ==
    row.deleted \/ \A j \in DOMAIN rows \ {i} :
        Active(j) => ~SameKey(rows[j], row.table, row.name, row.department)

(* NOT NULL foreign keys of clients and tasks. *)
MutantLinked(row) == TRUE
Linked(row) ==
    row.table \in {"clients", "tasks"} => row.department # Null /\ row.createdBy # Null

(* The database accepted the seed. *)
ASSUME SeedAssumption ==
    \A i \in DOMAIN Seed :
       /\ Linked(Seed[i])
       /\ Seed[i].deleted => Seed[i].deletedBy # Null
       /\ \A j \in DOMAIN Seed :
             /\ ~Seed[i].deleted /\ ~Seed[j].deleted
             /\ SameKey(Seed[j], Seed[i].table, Seed[i].name, Seed[i].department)
             => i = j

(* What a forced delete archives along: a department's clients, a client's *)
(* tasks.                                                                  *)
Child(j, i) ==
    \/ rows[i].table = "departments" /\ rows[j].table = "clients" /\ rows[j].department = i
    \/ rows[i].table = "clients" /\ rows[j].table = "tasks" /\ rows[j].parent = i

MutantActiveChildren(i) == {j \in DOMAIN rows : rows[j].department = i /\ Child(j, i) /\ Active(j)}
ActiveChildren(i) == {j \in DOMAIN rows : Child(j, i) /\ Active(j) /\ Active(i)}

MutantArchived(row, user) == [row EXCEPT !.deleted = TRUE]
Archived(row, user) == [row EXCEPT !.deleted = TRUE, !.deletedBy = user]
Restored(row) == [row EXCEPT !.deleted = FALSE, !.deletedBy = Null]

-----------------------------------------------------------------------------
(* A worker's request. *)

Idle(w) == pc[w] = "idle"
NoRequest == [op |-> "none"]
Goto(w, label) == pc' = [pc EXCEPT ![w] = label]

Finish(w) ==
    /\ Goto(w, "idle")
    /\ req' = [req EXCEPT ![w] = NoRequest]
    /\ ent' = [ent EXCEPT ![w] = NoEntity]
    /\ dirty' = [dirty EXCEPT ![w] = {}]

Proceed(w, label, e) ==
    /\ Goto(w, label)
    /\ ent' = [ent EXCEPT ![w] = e]
    /\ UNCHANGED dirty

Save(w, e) == Proceed(w, "reload", e)

(* RolesGuard, with the @Roles of the four controllers *)
Permitted(r) ==
    \/ RoleOf[r.user] \in {"HR", "ADMIN"}
    \/ /\ RoleOf[r.user] = "MANAGER"
       /\ r.table = "tasks" \/ (r.table = "clients" /\ r.op \in {"create", "update"})

(* The department in the user's access token *)
Home(user) == Seed[user].department

(* The checks on managers: is this department theirs?  That of a record    *)
(* whose department is archived (undefined) is not, not even for a manager *)
(* without one (null).                                                     *)
MutantOwn(user, department) == TRUE
Own(user, department) ==
    RoleOf[user] = "MANAGER" => department # Null /\ department = Home(user)

(* The request reaches the handler: JwtStrategy found the user's row.      *)
Accept(w, r) ==
    /\ Idle(w)
    /\ overlap \/ \A v \in Workers : Idle(v)
    /\ Active(r.user) /\ Permitted(r)
    /\ req' = [req EXCEPT ![w] = r]
    /\ UNCHANGED <<rows, overlap, failures>>

-----------------------------------------------------------------------------
(* create() *)

Room == Len(rows) + Cardinality({v \in Workers : pc[v] = "insert"}) < MaxRows

(* Only clients and tasks note their creator. *)
NewEntity(r) ==
    [name |-> r.dto.name, detail |-> r.dto.detail, department |-> r.dto.department,
     parent |-> r.dto.parent,
     createdBy |-> IF r.table \in {"clients", "tasks"} THEN r.user ELSE Null,
     deleted |-> FALSE]

StartCreate(w, r) ==
    /\ r.op = "create"
    /\ Room
    /\ Own(r.user, r.dto.department)
    /\ ~NameTaken(r.table, r.dto.name, r.dto.department)
    /\ Accept(w, r)
    /\ Proceed(w, "insert", NewEntity(r))

Stored(table, e) ==
    [table |-> table, name |-> e.name, detail |-> e.detail, department |-> e.department,
     parent |-> e.parent, createdBy |-> e.createdBy, deleted |-> e.deleted,
     deletedBy |-> Null]

Insert(w) ==
    /\ pc[w] = "insert"
    /\ LET row == Stored(req[w].table, ent[w])
       IN  IF Indexed(0, row) /\ Linked(row)
           THEN rows' = Append(rows, row)
           ELSE UNCHANGED rows
    /\ Finish(w)
    /\ UNCHANGED <<overlap, failures>>

-----------------------------------------------------------------------------
(* update(), changePassword() and assignClient() *)

Given(a, b) == IF a = Undef THEN b ELSE a

MutantEdited(e, dto) ==
    [e EXCEPT !.name = Given(dto.name, @), !.detail = Given(dto.detail, @),
              !.department = Given(dto.department, Null), !.parent = Given(dto.parent, @)]

Edited(e, dto) ==
    [e EXCEPT !.name = Given(dto.name, @), !.detail = Given(dto.detail, @),
              !.department = Given(dto.department, @), !.parent = Given(dto.parent, @)]

(* Must the name be looked up first?  A client's, also when it moves. *)
Rekeyed(table, e, dto) ==
    \/ table # "tasks" /\ dto.name \notin {Undef, e.name}
    \/ table = "clients" /\ dto.department \notin {Undef, e.department}

(* A renamed client whose department is archived: client.department.id     *)
(* throws.                                                                 *)
KeyKnown(table, e, dto) == table = "clients" => Given(dto.department, e.department) # Null

StartUpdate(w, r) ==
    /\ r.op = "update"
    /\ Found(r.id, r.table)
    /\ LET e == Loaded(r.id)
       IN  /\ Own(r.user, e.department)
           /\ r.table = "clients" => Own(r.user, Given(r.dto.department, e.department))
           /\ IF Rekeyed(r.table, e, r.dto)
              THEN KeyKnown(r.table, e, r.dto) /\ Proceed(w, "checkName", e)
              ELSE Save(w, Edited(e, r.dto))
    /\ Accept(w, r)

CheckName(w) ==
    /\ pc[w] = "checkName"
    /\ LET key == Edited(ent[w], req[w].dto)
       IN  IF NameTaken(req[w].table, key.name, key.department)
           THEN Finish(w)
           ELSE Save(w, key) /\ UNCHANGED req
    /\ UNCHANGED <<rows, overlap, failures>>

StartAssign(w, r) ==
    /\ r.op = "assign"
    /\ Found(r.id, "tasks")
    /\ Own(r.user, Loaded(r.id).department)
    /\ Accept(w, r)
    /\ Proceed(w, "findClient", Loaded(r.id))

FindClient(w) ==
    /\ pc[w] = "findClient"
    /\ LET client == req[w].dto.parent
       IN  IF Found(client, "clients") /\ Own(req[w].user, Loaded(client).department)
           THEN Save(w, [ent[w] EXCEPT !.parent = client]) /\ UNCHANGED req
           ELSE Finish(w)
    /\ UNCHANGED <<rows, overlap, failures>>

(* save() of an entity that has an id. *)
Reload(w) ==
    /\ pc[w] = "reload"
    /\ dirty' = [dirty EXCEPT ![w] = Dirty(ent[w], rows[req[w].id], Columns)]
    /\ Goto(w, "write")
    /\ UNCHANGED <<rows, overlap, req, ent, failures>>

MutantUpdated(row, e, cols) ==
    [row EXCEPT !.name = e.name, !.detail = e.detail, !.department = e.department,
                !.parent = e.parent, !.createdBy = e.createdBy, !.deleted = e.deleted]

Updated(row, e, cols) ==
    [row EXCEPT !.name = IF "name" \in cols THEN e.name ELSE @,
                !.detail = IF "detail" \in cols THEN e.detail ELSE @,
                !.department = IF "department" \in cols THEN e.department ELSE @,
                !.parent = IF "parent" \in cols THEN e.parent ELSE @,
                !.createdBy = IF "createdBy" \in cols THEN e.createdBy ELSE @,
                !.deleted = IF "deleted" \in cols THEN e.deleted ELSE @]

Write(w) ==
    /\ pc[w] = "write"
    /\ LET i   == req[w].id
           row == Updated(rows[i], ent[w], dirty[w])
       IN  IF Indexed(i, row) /\ Linked(row)
           THEN rows' = [rows EXCEPT ![i] = row]
           ELSE UNCHANGED rows
    /\ Finish(w)
    /\ UNCHANGED <<overlap, failures>>

-----------------------------------------------------------------------------
(* softDelete() and restore() *)

StartDelete(w, r) ==
    /\ r.op = "delete"
    /\ Found(r.id, r.table)
    /\ Own(r.user, Loaded(r.id).department)
    /\ Accept(w, r)
    /\ Proceed(w, IF r.table \in {"departments", "clients"} THEN "count" ELSE "archive", NoEntity)

Count(w) ==
    /\ pc[w] = "count"
    /\ IF ActiveChildren(req[w].id) = {}
       THEN Proceed(w, "archive", NoEntity) /\ UNCHANGED req
       ELSE IF req[w].force
       THEN Proceed(w, "cascade", NoEntity) /\ UNCHANGED req
       ELSE Finish(w)
    /\ UNCHANGED <<rows, overlap, failures>>

(* The UPDATE reaches the children archived before, too. *)
Cascade(w) ==
    /\ pc[w] = "cascade"
    /\ rows' = [j \in DOMAIN rows |-> IF Child(j, req[w].id)
                                      THEN Archived(rows[j], req[w].user) ELSE rows[j]]
    /\ Proceed(w, "archive", NoEntity)
    /\ UNCHANGED <<overlap, req, failures>>

Archive(w) ==
    /\ pc[w] = "archive"
    /\ rows' = [rows EXCEPT ![req[w].id] = Archived(@, req[w].user)]
    /\ Finish(w)
    /\ UNCHANGED <<overlap, failures>>

(* restore() reads the row with its department whether deleted or not. *)
StartRestore(w, r) ==
    /\ r.op = "restore"
    /\ r.id \in DOMAIN rows /\ rows[r.id].table = r.table
    /\ Own(r.user, rows[r.id].department)
    /\ Accept(w, r)
    /\ Proceed(w, "restore", NoEntity)

Restore(w) ==
    /\ pc[w] = "restore"
    /\ LET row == Restored(rows[req[w].id])
       IN  IF Indexed(req[w].id, row)
           THEN rows' = [rows EXCEPT ![req[w].id] = row]
           ELSE UNCHANGED rows
    /\ Finish(w)
    /\ UNCHANGED <<overlap, failures>>

(* A database call rejects, or the process restarts: the request ends. *)
Fail(w) ==
    /\ ~Idle(w)
    /\ failures < MaxFailures
    /\ failures' = failures + 1
    /\ Finish(w)
    /\ UNCHANGED <<rows, overlap>>

-----------------------------------------------------------------------------
Init ==
    /\ rows = Seed
    /\ overlap \in BOOLEAN
    /\ pc = [w \in Workers |-> "idle"]
    /\ req = [w \in Workers |-> NoRequest]
    /\ ent = [w \in Workers |-> NoEntity]
    /\ dirty = [w \in Workers |-> {}]
    /\ failures = 0

Arrive(w) ==
    \E r \in IF overlap THEN Contending ELSE Requests :
       \/ StartCreate(w, r) \/ StartUpdate(w, r) \/ StartAssign(w, r)
       \/ StartDelete(w, r) \/ StartRestore(w, r)

Serve(w) ==
    \/ Insert(w) \/ CheckName(w) \/ FindClient(w) \/ Reload(w) \/ Write(w)
    \/ Count(w) \/ Cascade(w) \/ Archive(w) \/ Restore(w)

Next == \E w \in Workers : Arrive(w) \/ Serve(w) \/ Fail(w)

Spec == Init /\ [][Next]_vars

-----------------------------------------------------------------------------
(* Properties.  The first four hold however requests interleave and fail;  *)
(* the others, when requests do not overlap.                               *)

(* Type invariant.  Beyond the types: a client and a task keep their       *)
(* department and creator although save() writes null for those that were  *)
(* soft-deleted.                                                           *)
TypeOK ==
    /\ rows \in Seq(Row)
    /\ \A i \in DOMAIN rows : rows[i].table \in {"clients", "tasks"} =>
                              rows[i].department # Null /\ rows[i].createdBy # Null
    /\ overlap \in BOOLEAN
    /\ pc \in [Workers -> {"idle", "insert", "checkName", "findClient", "reload",
                           "write", "count", "cascade", "archive", "restore"}]
    /\ req \in [Workers -> Request \cup {NoRequest}]
    /\ dirty \in [Workers -> SUBSET Columns]
    /\ failures \in Nat

(* No two active departments share a name, no two active employees an      *)
(* email, no two active clients of a department a name: not through        *)
(* creates or renames that race after the pre-check (the comments of       *)
(* assertNameAvailable() and its siblings), nor through a restore of a row *)
(* whose name was taken meanwhile.                                         *)
ActiveNamesUnique ==
    \A i, j \in DOMAIN rows :
       /\ Active(i) /\ Active(j)
       /\ rows[i].table = rows[j].table /\ rows[i].name = rows[j].name
       /\ rows[i].table \in {"departments", "employees"}
          \/ (rows[i].table = "clients" /\ rows[i].department = rows[j].department)
       => i = j

(* The audit list can name who deleted each row it shows: no interleaving  *)
(* of deletes, restores and stale edits leaves a deleted row without one.  *)
DeletionsAttributed == \A i \in DOMAIN rows : rows[i].deleted => rows[i].deletedBy # Null

(* The edits that can bring back row i, were it archived now: they found   *)
(* it and have still to reread it, or reread it archived and are about to  *)
(* write the empty deletedAt of their entity.                              *)
Reviving(i) ==
    {w \in Workers : /\ \/ pc[w] \in {"checkName", "findClient", "reload"}
                        \/ pc[w] = "write" /\ "deleted" \in dirty[w]
                     /\ req[w].id = i}

(* A deletion that nobody asks to undo is final, unless it lands between   *)
(* the two reads of an edit of the row: the edit then writes the old       *)
(* deletedAt back.  One that lands between the second read and the UPDATE  *)
(* survives it, and so does one that finds its row at rest, whatever is    *)
(* requested later.                                                        *)
Deleted(i) == i \in DOMAIN rows /\ rows[i].deleted

Unrestored ==
    {i \in 1 .. MaxRows : \A r \in Requests \cup Contending : r.op = "restore" => r.id # i}

DeletionsFinal ==
    \A i \in Unrestored : [](Deleted(i) /\ Reviving(i) = {} => []Deleted(i))

(* An edit writes the columns its body names.  The one thing it changes    *)
(* besides is the link to a row that was archived, which it drops; it      *)
(* never brings a deleted row back.                                        *)
EditsWhatItNames ==
    [][\A w \in Workers :
          ~overlap /\ pc[w] = "write" /\ req[w].op = "update" /\ rows' # rows
          => LET i == req[w].id
             IN  /\ \A j \in DOMAIN rows \ {i} : rows'[j] = rows[j]
                 /\ \A c \in DOMAIN rows[i] :
                       \/ rows'[i][c] = rows[i][c]
                       \/ c \in DOMAIN req[w].dto /\ req[w].dto[c] # Undef
                       \/ rows'[i][c] = Null /\ ~Active(rows[i][c])]_vars

(* Deleting a department leaves none of its clients active, deleting a     *)
(* client none of its tasks, in whichever departments the tasks are.       *)
DeletionReachesChildren ==
    [][\A w \in Workers :
          ~overlap /\ pc[w] = "archive" /\ rows' # rows
          => LET i == req[w].id
             IN  \A j \in DOMAIN rows : Child(j, i) => rows'[j].deleted]_vars

(* What managers create lies in their own department, and of the rows that *)
(* exist their requests change only its clients and tasks: a client stays  *)
(* in it, and assign-client gives a task only a client of it (the messages *)
(* of the services' ForbiddenExceptions).  That is all: update() lets them *)
(* move a task to any department, and create() give a new task any client, *)
(* whosever it is; only its department is compared.                        *)
ManagersStayHome ==
    [][\A w \in Workers :
          ~overlap /\ pc[w] \in {"insert", "write", "archive", "restore"}
          /\ RoleOf[req[w].user] = "MANAGER"
          => \A i \in DOMAIN rows' :
                LET home == Home(req[w].user)
                IN  IF i \notin DOMAIN rows THEN rows'[i].department = home
                    ELSE rows'[i] # rows[i] =>
                            /\ rows[i].department = home
                            /\ rows[i].table = "clients" => rows'[i].department = home
                            /\ rows'[i].parent \notin {rows[i].parent, Null}
                               => rows[rows'[i].parent].department = home]_vars
=============================================================================
