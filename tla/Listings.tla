------------------------------ MODULE Listings ------------------------------
(***************************************************************************)
(* The lists that are read page by page while others write: the findAll()  *)
(* of the services (newest first by createdAt) and the list of deletions   *)
(* (audit.service.ts), which merges the soft-deleted rows of several       *)
(* tables, newest deletion first.  A page is a request of its own: offset  *)
(* and limit into what the list is at that moment.                         *)
(*                                                                         *)
(* One reader walks through a list from page 1 until the number of pages   *)
(* of the last answer is reached.  A step of the server is a database call *)
(* with the code up to the next one; rows are created, archived and        *)
(* restored between any two of them.                                       *)
(***************************************************************************)
EXTENDS DateRange, Sequences, FiniteSets, SequencesExt

CONSTANTS
    Tables,     \* names of tables, in the order of the audit's loaders
    Users,      \* who archives rows
    Seeds,      \* what the tables may hold at the start
    Start,      \* the time then
    Views,      \* the lists readers ask for
    MaxRows, MaxTime, MaxWrites,    \* bounds
    Null

TableNames == ToSet(Tables)

Row == [table: TableNames, created: Nat, deleted: Nat \cup {Null}, by: Users \cup {Null}]

(* Which rows: the active ones of a table, all of it (withDeleted), or the *)
(* deletions; by and the range are QueryAuditDto's filters, limit is       *)
(* PaginationQueryDto's.                                                   *)
View == [list: {"active", "all", "deletions"}, tables: SUBSET TableNames,
         by: Users \cup {Null}, from: Ends \cup {NoEnd}, to: Ends \cup {NoEnd}, limit: 1 .. 100]

(* A row of a seed that is archived names who did it, as softDelete() and  *)
(* the cascade write both columns; an active one may still name somebody.  *)
ASSUME ListingsAssumption ==
    /\ Tables \in Seq(TableNames)
    /\ Seeds \subseteq Seq(Row) /\ Views \subseteq View
    /\ \A s \in Seeds : \A i \in DOMAIN s : s[i].deleted # Null => s[i].by # Null
    /\ \A v \in Views : v.list # "deletions" => Cardinality(v.tables) = 1
    /\ {Start, MaxRows, MaxTime, MaxWrites} \subseteq Nat
    /\ Null \notin Nat \cup Users

VARIABLES
    rows,       \* the tables, by id
    now,        \* the clock
    writes,     \* rows created, archived and restored so far
    pc,         \* idle, ask (for the next page), load, fetch, count, done
    view,       \* the list being read
    page,       \* number of the page asked for
    pending,    \* tables whose loader has not answered
    loaded,     \* what the calls of this request have read
    answer,     \* the last answer
    (* for the properties only *)
    owed,       \* the rows of the list when the walk began, not shown since
    seen, again,    \* the rows shown since, and those shown twice
    entered, left,  \* has a row come into, gone from the list since?
    tied        \* the rows whose stamp another row of the table has shared since

database == <<rows, now, writes>>
watched == <<entered, left, tied>>
history == <<owed, seen, again, watched>>
request == <<pc, view, page, pending, loaded, answer, owed, seen, again>>
vars == <<rows, now, writes, pc, view, page, pending, loaded, answer,
          owed, seen, again, entered, left, tied>>

-----------------------------------------------------------------------------
(* applyCommonFilters().  The process parses from as UTC, but to, with a   *)
(* time appended, by its own clock.  With two times in it, to is an        *)
(* Invalid Date, and no stamp is greater.                                  *)
DeletedWithin(t, v) ==
    /\ v.from # NoEnd => t >= v.from.at
    /\ v.to # NoEnd => v.to.kind = "blank" \/ t <= EndOfDay(v.to)

InList(row, v) ==
    /\ row.table \in v.tables
    /\ v.list = "active" => row.deleted = Null
    /\ v.list = "deletions" => /\ row.deleted # Null
                               /\ v.by # Null => row.by = v.by
                               /\ DeletedWithin(row.deleted, v)

Stamp(row, v) == IF v.list = "deletions" THEN row.deleted ELSE row.created

(* A row as a list shows it. *)
Item(i, v) == [id |-> i, table |-> rows[i].table, at |-> Stamp(rows[i], v)]
Shared(v) ==
    {i \in DOMAIN rows : \E j \in DOMAIN rows \ {i} :
        /\ InList(rows[i], v) /\ InList(rows[j], v)
        /\ rows[i].table = rows[j].table /\ Stamp(rows[i], v) = Stamp(rows[j], v)}
Items(v, tables) ==
    {Item(i, v) : i \in {j \in DOMAIN rows : InList(rows[j], v) /\ rows[j].table \in tables}}

Rank(table) == CHOOSE k \in DOMAIN Tables : Tables[k] = table

(* Newest first.  Equal stamps of a table come in any order: the queries   *)
(* of the loaders have none, those of findAll() no second key (TypeORM     *)
(* adds the id where it joins).  Those of two tables come in the order of  *)
(* the loaders, for sort() is stable.                                      *)
MutantNewestFirst(a, b) == TRUE
NewestFirst(a, b) == a.at > b.at \/ (a.at = b.at /\ Rank(a.table) <= Rank(b.table))

Orders(items) ==
    {s \in SetToSeqs(items) : \A x, y \in DOMAIN s : x < y => NewestFirst(s[x], s[y])}

MutantSlice(s) == SubSeq(s, page * view.limit + 1, Min({(page + 1) * view.limit, Len(s)}))
Slice(s) == SubSeq(s, (page - 1) * view.limit + 1, Min({page * view.limit, Len(s)}))

(* buildPaginatedResult() *)
MutantTotalPages(total) == total \div view.limit
TotalPages(total) == (total + view.limit - 1) \div view.limit

-----------------------------------------------------------------------------
(* The walk. *)

NoAnswer == [rows |-> 0, total |-> 0]
NoView == [list |-> "none"]
Goto(label) == pc' = label

Open(v) ==
    /\ pc = "idle"
    /\ Goto("ask")
    /\ view' = v
    /\ owed' = {i \in DOMAIN rows : InList(rows[i], v)}
    /\ tied' = Shared(v)
    /\ UNCHANGED <<database, page, pending, loaded, answer, seen, again, entered, left>>

(* The request for the next page reaches findAll() or findDeletions(). *)
Ask ==
    /\ pc = "ask"
    /\ Goto("load")
    /\ page' = page + 1
    /\ pending' = view.tables
    /\ UNCHANGED <<database, view, loaded, answer, history>>

(* The answer; pages the reader will ask for are counted from its total.   *)
Respond(data, total) ==
    /\ LET ids == {item.id : item \in data}
       IN  /\ owed' = owed \ ids
           /\ seen' = seen \cup ids
           /\ again' = again \cup (seen \cap ids)
    /\ answer' = [rows |-> Cardinality(data), total |-> total]
    /\ loaded' = {}
    /\ Goto(IF page < TotalPages(total) THEN "ask" ELSE "done")

(* A loader of the audit list; they run at once, and the last to answer is *)
(* followed by the merge.                                                  *)
LoadDeletions(table) ==
    /\ pc = "load" /\ view.list = "deletions"
    /\ table \in pending
    /\ pending' = pending \ {table}
    /\ LET all == loaded \cup Items(view, {table})
       IN  IF pending' = {}
           THEN \E s \in Orders(all) : Respond(ToSet(Slice(s)), Len(s))
           ELSE loaded' = all /\ UNCHANGED <<pc, answer, owed, seen, again>>
    /\ UNCHANGED <<database, view, page, watched>>

(* getManyAndCount(): the ids of the page, *)
SelectPage ==
    /\ pc = "load" /\ view.list # "deletions"
    /\ \E s \in Orders(Items(view, view.tables)) : loaded' = ToSet(Slice(s))
    /\ pending' = {}
    /\ Goto("fetch")
    /\ UNCHANGED <<database, view, page, answer, history>>

(* the rows with these ids that are still in the list, *)
FetchRows ==
    /\ pc = "fetch"
    /\ loaded' = loaded \cap Items(view, view.tables)
    /\ Goto("count")
    /\ UNCHANGED <<database, view, page, pending, answer, history>>

(* and their number, which TypeORM may also infer from a page that is not  *)
(* full.                                                                   *)
Count ==
    /\ pc = "count"
    /\ \/ Respond(loaded, Cardinality(Items(view, view.tables)))
       \/ /\ Cardinality(loaded) \in 1 .. view.limit - 1
          /\ Respond(loaded, (page - 1) * view.limit + Cardinality(loaded))
    /\ UNCHANGED <<database, view, page, pending, watched>>

Close ==
    /\ pc = "done"
    /\ Goto("idle")
    /\ view' = NoView /\ page' = 0 /\ answer' = NoAnswer
    /\ owed' = {} /\ seen' = {} /\ again' = {}
    /\ entered' = FALSE /\ left' = FALSE /\ tied' = {}
    /\ UNCHANGED <<database, pending, loaded>>

-----------------------------------------------------------------------------
(* Others write, except while the reader looks at the last page: that can  *)
(* wait until it is closed.                                                *)

Watch ==
    /\ pc # "done"
    /\ IF pc = "idle" THEN UNCHANGED watched
       ELSE LET before == Items(view, TableNames)
                after  == Items(view, TableNames)'
            IN  /\ entered' = (entered \/ after \ before # {})
                /\ left' = (left \/ before \ after # {})
                /\ tied' = tied \cup Shared(view)'

MutantArchived(row, user) == [row EXCEPT !.deleted = now]
Archived(row, user) == [row EXCEPT !.deleted = now, !.by = user]

(* The UPDATE of a soft delete: of one row, also one that an overlapping   *)
(* request has archived meanwhile, or of all the children a forced delete  *)
(* takes along, those archived before included.                            *)
Delete(batch, user) ==
    /\ \A i, j \in batch : rows[i].table = rows[j].table
    /\ writes < MaxWrites /\ writes' = writes + 1
    /\ rows' = [i \in DOMAIN rows |-> IF i \in batch THEN Archived(rows[i], user) ELSE rows[i]]
    /\ UNCHANGED <<now, request>>
    /\ Watch

Update(i, row) ==
    /\ row # rows[i]
    /\ writes < MaxWrites /\ writes' = writes + 1
    /\ rows' = [rows EXCEPT ![i] = row]
    /\ UNCHANGED <<now, request>>
    /\ Watch

Restored(row) == [row EXCEPT !.deleted = Null, !.by = Null]
Restore(i) == Update(i, Restored(rows[i]))

(* The save() of an update() that read the row before somebody archived    *)
(* it: deletedAt differs from the entity's and is written, deletedBy was   *)
(* not loaded and is not.                                                  *)
Resurrected(row) == [row EXCEPT !.deleted = Null]
StaleSave(i) == Update(i, Resurrected(rows[i]))

Create(table) ==
    /\ Len(rows) < MaxRows
    /\ writes < MaxWrites /\ writes' = writes + 1
    /\ rows' = Append(rows, [table |-> table, created |-> now, deleted |-> Null, by |-> Null])
    /\ UNCHANGED <<now, request>>
    /\ Watch

Tick ==
    /\ now < MaxTime /\ pc # "done"
    /\ now' = now + 1
    /\ UNCHANGED <<rows, writes, request, watched>>

-----------------------------------------------------------------------------
Init ==
    /\ rows \in Seeds
    /\ now = Start /\ writes = 0
    /\ pc = "idle" /\ view = NoView /\ page = 0
    /\ pending = {} /\ loaded = {} /\ answer = NoAnswer
    /\ owed = {} /\ seen = {} /\ again = {}
    /\ entered = FALSE /\ left = FALSE /\ tied = {}

Read ==
    \/ \E v \in Views : Open(v)
    \/ Ask \/ SelectPage \/ FetchRows \/ Count \/ Close
    \/ \E table \in TableNames : LoadDeletions(table)

Write ==
    \/ \E batch \in SUBSET DOMAIN rows \ {{}}, user \in Users : Delete(batch, user)
    \/ \E i \in DOMAIN rows : Restore(i) \/ StaleSave(i)
    \/ \E table \in TableNames : Create(table)
    \/ Tick

Next == Read \/ Write

Spec == Init /\ [][Next]_vars

-----------------------------------------------------------------------------
(* Properties. *)

(* Type invariant: among the rest, an archived row names who archived it.  *)
(* (An active one may, too: a stale save() leaves deletedBy.)              *)
TypeOK ==
    /\ rows \in Seq(Row)
    /\ \A i \in DOMAIN rows : rows[i].deleted # Null => rows[i].by # Null
    /\ now \in Nat
    /\ view \in Views \cup {NoView}
    /\ page \in Nat
    /\ answer.total \in Nat
    /\ again \subseteq seen /\ owed \cap seen = {}

(* Rows that are archived or created while somebody pages through a list   *)
(* only push others to later pages: a walk shows every row that was there  *)
(* when it began, unless one left the list (which pulls the others         *)
(* forward) or its stamp is shared.                                        *)
NothingSkipped ==
    pc = "done" /\ ~left => owed \subseteq tied

(* Conversely, rows that leave the list make no page repeat a row.         *)
NothingRepeated == ~entered => again \subseteq tied

(* Page, limit and total of an answer agree: each page is full up to the   *)
(* last.  Always in the list of deletions, although its tables are read at *)
(* different moments; elsewhere when nothing came or went, for the rows    *)
(* and their number are read apart.                                        *)
PagesFill ==
    /\ pc \in {"ask", "done"} /\ page > 0
    /\ view.list = "deletions" \/ (~entered /\ ~left)
    => answer.rows = Max({0, Min({view.limit, answer.total - (page - 1) * view.limit})})
=============================================================================
