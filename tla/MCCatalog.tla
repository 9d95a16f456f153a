------------------------------ MODULE MCCatalog ------------------------------
(* Values of Catalog's constants for TLC. *)
EXTENDS Catalog, TLC

CONSTANTS w1, w2, a, b

Line(table, name, department, parent, createdBy) ==
    [table |-> table, name |-> name, detail |-> a, department |-> department,
     parent |-> parent, createdBy |-> createdBy, deleted |-> FALSE, deletedBy |-> Null]

(* Two departments; HR and a manager of the first; a client and a task of  *)
(* the first department, both created by the manager.                      *)
MCSeed == <<Line("departments", a, Null, Null, Null), Line("departments", b, Null, Null, Null),
            Line("employees", a, 2, Null, Null), Line("employees", b, 1, 3, Null),
            Line("clients", a, 1, Null, 4), Line("tasks", a, 1, 5, 4)>>
hr == 3
manager == 4
client == 5
task == 6
MCRole == (hr :> "HR") @@ (manager :> "MANAGER")

Body(name, detail, department, parent) ==
    [name |-> name, detail |-> detail, department |-> department, parent |-> parent]
Nothing == Body(Undef, Undef, Undef, Undef)
Describe == [Nothing EXCEPT !.detail = b]

Ask(op, user, table, id, dto) ==
    [op |-> op, user |-> user, table |-> table, id |-> id, dto |-> dto, force |-> FALSE]
Create(user, table, dto) == Ask("create", user, table, 0, dto)
Update(user, id, dto) == Ask("update", user, MCSeed[id].table, id, dto)
Delete(user, id, force) ==
    [Ask("delete", user, MCSeed[id].table, id, Nothing) EXCEPT !.force = force]
AssignNew(user) == Ask("assign", user, "tasks", task, [Nothing EXCEPT !.parent = 7])
DeleteNew(user) == Ask("delete", user, "tasks", 7, Nothing)
RestoreNew(user) == Ask("restore", user, "tasks", 7, Nothing)
RestoreOf(user, id) == Ask("restore", user, MCSeed[id].table, id, Nothing)

(* A create, a rename and a restore that want one name; deletes of a       *)
(* department, a client and its task, and edits of them.                   *)
MCContending ==
    {Create(manager, "clients", Body(b, a, 1, Null)),
     Update(manager, client, [Nothing EXCEPT !.name = b]),
     Delete(hr, 1, TRUE), Delete(hr, client, TRUE), RestoreOf(hr, client),
     Update(manager, task, Describe), Delete(manager, task, FALSE), AssignNew(hr)}

(* One at a time.  The client may be in the other department by the time   *)
(* the manager creates a task for it.                                      *)
MCRequests ==
    {Create(manager, "clients", Body(b, a, 2, Null)), Create(hr, "clients", Body(b, a, 2, Null)),
     Create(manager, "tasks", Body(b, a, 1, client)),
     Create(hr, "departments", Body(b, a, Null, Null)),
     Create(hr, "employees", Body(a, a, 2, 4)),
     Update(hr, client, [Nothing EXCEPT !.department = 2]),
     Update(manager, client, [Nothing EXCEPT !.department = 2, !.name = b]),
     Update(manager, task, [Nothing EXCEPT !.department = 2]),
     Update(hr, manager, Describe), Update(hr, 2, [Nothing EXCEPT !.name = a]),
     AssignNew(manager),
     Delete(manager, task, FALSE), DeleteNew(manager), RestoreNew(manager),
     Delete(hr, client, FALSE), Delete(hr, client, TRUE), RestoreOf(hr, client),
     Delete(hr, 1, TRUE), Delete(hr, 2, FALSE), RestoreOf(hr, 1), RestoreOf(hr, 2),
     Delete(hr, manager, FALSE), RestoreOf(hr, manager)}


=============================================================================
