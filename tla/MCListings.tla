----------------------------- MODULE MCListings -----------------------------
(* Values of Listings' constants for TLC. *)
EXTENDS Listings

CONSTANTS hr, admin

MCTables == <<"clients", "tasks">>

Kept(table, created) == [table |-> table, created |-> created, deleted |-> Null, by |-> Null]
Gone(table, created, deleted) ==
    [table |-> table, created |-> created, deleted |-> deleted, by |-> hr]

(* Three tasks and a client; all active, one of them since a stale save;   *)
(* or some archived one by one, or archived together.                      *)
MCSeeds ==
    {<<Kept("clients", 0), [Kept("tasks", 0) EXCEPT !.by = hr], Kept("tasks", 1),
       Kept("tasks", 1)>>,
     <<Gone("clients", 0, 1), Gone("tasks", 0, 0), Gone("tasks", 1, 1), Kept("tasks", 1)>>,
     <<Gone("clients", 0, 2), Gone("tasks", 0, 1), Gone("tasks", 0, 1), Kept("tasks", 1)>>}

Deletions(tables, by, from, to, limit) ==
    [list |-> "deletions", tables |-> tables, by |-> by, from |-> from, to |-> to, limit |-> limit]
FindAll(list, limit) ==
    [list |-> list, tables |-> {"tasks"}, by |-> Null, from |-> NoEnd, to |-> NoEnd,
     limit |-> limit]
MCViews == {FindAll("active", 1), FindAll("all", 2),
            Deletions({"clients", "tasks"}, Null, NoEnd, NoEnd, 1),
            Deletions({"clients", "tasks"}, Null, NoEnd, NoEnd, 2),
            Deletions({"tasks"}, hr, NoEnd, BlankAt(0), 1),
            Deletions({"clients", "tasks"}, Null, DateOf(0), DateOf(0), 1)}
=============================================================================
