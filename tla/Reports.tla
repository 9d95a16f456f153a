------------------------------- MODULE Reports -------------------------------
(***************************************************************************)
(* The time report HR exports (reports.service.ts, its utils): entries     *)
(* grouped by employee, task and UTC day.  The handler makes two database  *)
(* calls, a check of the employees asked for and a query of the entries.   *)
(* The tables of the workbook are built from the second's answer, the cell *)
(* that says whose time they show from the names the first one found;      *)
(* syncs and soft deletes go on between them.                              *)
(*                                                                         *)
(* A workbook is that cell, the day columns and, per employee and task, a  *)
(* row of cells with its total.  Its two sheets have the same rows, in     *)
(* hours and minutes and in hundredths of an hour, each cell and total     *)
(* converted for itself; colours, borders and the order of rows are left   *)
(* out.                                                                    *)
(***************************************************************************)
EXTENDS DateRange, Sequences, FiniteSets, SequencesExt, TLC

CONSTANTS
    Employees, Tasks, Departments,
    DepartmentOf,   \* each employee's department
    Inputs,         \* the entries that desktop apps synchronise
    Queries,        \* the requests for a report
    Volatile,       \* what may be soft-deleted and restored
    HalvesUp,       \* the n for which n + 1/2 hundredths, as a double, round up
    MaxEntries,     \* bound on entries
    Null            \* a relation to a soft-deleted row; a filter not given

Entry == [employee: Employees, task: Tasks, start: Nat, duration: Nat]

(* ExportReportQueryDto; no employees asked for means all of them *)
Query == [from: Ends \cup {NoEnd}, to: Ends \cup {NoEnd},
          department: Departments \cup {Null}, employees: SUBSET Employees]

ASSUME ReportsAssumption ==
    /\ DepartmentOf \in [Employees -> Departments]
    /\ Inputs \subseteq Entry /\ Queries \subseteq Query
    /\ Volatile \subseteq Employees \cup Tasks \cup Departments
    /\ Null \notin Employees \cup Tasks \cup Departments
    /\ HalvesUp \subseteq Nat
    /\ MaxEntries \in Nat

VARIABLES
    entries,    \* table time_entries
    archived,   \* soft-deleted employees, tasks and departments
    pc,         \* idle, fetch (the query comes next) or answered
    query,      \* the request
    kept,       \* selectedEmployeeNames: the employees the first call found
    report      \* the workbook it was answered with

vars == <<entries, archived, pc, query, kept, report>>

-----------------------------------------------------------------------------
(* The query.  A relation to a soft-deleted row joins as null. *)

Joined(x) == IF x \in archived THEN Null ELSE x
MutantWho(e) == e.employee
Who(e) == Joined(e.employee)
DepartmentJoined(e) == IF Who(e) = Null THEN Null ELSE Joined(DepartmentOf[e.employee])

Matches(e, q) ==
    /\ q.department # Null => DepartmentJoined(e) = q.department
    /\ q.employees # {} => Who(e) \in q.employees
    /\ InRange(e.start, q.from, q.to)

(* The entries found, by their place in the table. *)
Fetched(q) == {i \in DOMAIN entries : Matches(entries[i], q)}

-----------------------------------------------------------------------------
(* buildPivot(): groups by employee, in them rows by task, in them seconds *)
(* by day.  Entries without an employee share a group, those without a     *)
(* task a row.                                                             *)

At(f, x, default) == IF x \in DOMAIN f THEN f[x] ELSE default
Put(f, x, v) == [y \in DOMAIN f \cup {x} |-> IF y = x THEN v ELSE f[y]]

NoRow == [byDay |-> <<>>, total |-> 0]
NoGroup == [tasks |-> <<>>, all |-> NoRow]

MutantAdded(row, e) ==
    [byDay |-> Put(row.byDay, DateKey(e.start), e.duration), total |-> row.total + e.duration]
Added(row, e) ==
    LET day == DateKey(e.start)
    IN  [byDay |-> Put(row.byDay, day, At(row.byDay, day, 0) + e.duration),
         total |-> row.total + e.duration]

AddEntry(groups, e) ==
    LET group == At(groups, Who(e), NoGroup)
        task  == Joined(e.task)
    IN  Put(groups, Who(e),
            [tasks |-> Put(group.tasks, task, Added(At(group.tasks, task, NoRow), e)),
             all |-> Added(group.all, e)])

Pivot(found) == FoldSet(LAMBDA i, groups : AddEntry(groups, entries[i]), <<>>, found)

(* enumerateDateKeys(): of a range with two ends its days, else the days   *)
(* from the first to the last entry.  A date with a time, with             *)
(* T00:00:00.000Z appended, is an Invalid Date, and the loop is not        *)
(* entered.                                                                *)
DateKeys(q, found) ==
    LET days == {DateKey(entries[i].start) : i \in found}
    IN  IF q.from # NoEnd /\ q.to # NoEnd
        THEN IF q.from.kind = "date" /\ q.to.kind = "date"
             THEN DateKey(q.from.at) .. DateKey(q.to.at) ELSE {}
        ELSE IF days = {} THEN {} ELSE Min(days) .. Max(days)

(* cellValue() of both sheets: "0s" or the hours and minutes begun, and    *)
(* hundredths of an hour, rounded.                                         *)
Hundredths(s) ==
    LET n == s \div 36
        r == s % 36
    IN  IF r > 18 \/ (r = 18 /\ n \in HalvesUp) THEN n + 1 ELSE n

CellValue(s) == [some |-> s > 0, minutes |-> s \div 60, hundredths |-> Hundredths(s)]

(* writePivotTable(): a cell per day column, and the total. *)
Shown(row, days) ==
    [cells |-> [d \in days |-> CellValue(At(row.byDay, d, 0))], total |-> CellValue(row.total)]

(* peopleLabel: the names kept, else the department asked for, by its name *)
(* if the first entry knows it, else all.                                  *)
People(q, names, found) ==
    [employees |-> names,
     department |-> IF names = {} THEN q.department ELSE Null,
     named |-> names = {} /\ q.department # Null /\ found # {}]

Workbook(q, names) ==
    LET found  == Fetched(q)
        days   == DateKeys(q, found)
        groups == Pivot(found)
    IN  [people |-> People(q, names, found),
         days |-> days,
         groups |-> [g \in DOMAIN groups |->
             [tasks |-> [t \in DOMAIN groups[g].tasks |-> Shown(groups[g].tasks[t], days)],
              all |-> Shown(groups[g].all, days)]]]

-----------------------------------------------------------------------------
(* buildExportWorkbook() *)

NoQuery == [from |-> NoEnd, to |-> NoEnd, department |-> Null, employees |-> {}]
NoReport ==
    [people |-> [employees |-> {}, department |-> Null, named |-> FALSE],
     days |-> {}, groups |-> <<>>]

(* An employee that is not found is answered 400. *)
MutantKnown(q) == TRUE
Known(q) == q.employees \cap archived = {}

Export(q) ==
    /\ pc = "idle"
    /\ Known(q)
    /\ pc' = "fetch"
    /\ query' = q
    /\ kept' = q.employees \ archived
    /\ UNCHANGED <<entries, archived, report>>

Fetch ==
    /\ pc = "fetch"
    /\ Readable(query.from, query.to)
    /\ pc' = "answered"
    /\ report' = Workbook(query, kept)
    /\ kept' = {}
    /\ UNCHANGED <<entries, archived, query>>

(* The query fails, and the request with it. *)
Refuse ==
    /\ pc = "fetch"
    /\ ~Readable(query.from, query.to)
    /\ pc' = "idle"
    /\ query' = NoQuery
    /\ kept' = {}
    /\ UNCHANGED <<entries, archived, report>>

(* HR closes the workbook.  What happens while it is open cannot change it *)
(* and is left to happen afterwards.                                       *)
Close ==
    /\ pc = "answered"
    /\ pc' = "idle"
    /\ query' = NoQuery
    /\ report' = NoReport
    /\ UNCHANGED <<entries, archived, kept>>

Track(e) ==
    /\ pc # "answered"
    /\ Len(entries) < MaxEntries
    /\ entries' = Append(entries, e)
    /\ UNCHANGED <<archived, pc, query, kept, report>>

Archive(x) ==
    /\ pc # "answered"
    /\ archived' = archived \cup {x}
    /\ UNCHANGED <<entries, pc, query, kept, report>>

Restore(x) ==
    /\ pc # "answered"
    /\ archived' = archived \ {x}
    /\ UNCHANGED <<entries, pc, query, kept, report>>

-----------------------------------------------------------------------------
Init ==
    /\ entries = <<>>
    /\ archived = {}
    /\ pc = "idle"
    /\ query = NoQuery
    /\ kept = {}
    /\ report = NoReport

Next ==
    \/ \E q \in Queries : Export(q)
    \/ Fetch \/ Refuse \/ Close
    \/ \E e \in Inputs : Track(e)
    \/ \E x \in Volatile : Archive(x) \/ Restore(x)

Spec == Init /\ [][Next]_vars

-----------------------------------------------------------------------------
(* Properties of every answered report, whatever was tracked, archived and *)
(* restored before it and between its two calls.  They take Zone to be 0.  *)

Answered == pc = "answered"
Groups == DOMAIN report.groups

(* Type invariant: among the rest, no table is of somebody who was         *)
(* archived by the time of the query, also if they were asked for while    *)
(* active.                                                                 *)
TypeOK ==
    /\ entries \in Seq(Entry)
    /\ archived \subseteq Volatile
    /\ pc \in {"idle", "fetch", "answered"}
    /\ query \in Queries \cup {NoQuery}
    /\ kept \subseteq Employees
    /\ report.days \subseteq Nat
    /\ Groups \subseteq (Employees \ archived) \cup {Null}

(* The People cell, half of it from the first call, covers the tables of   *)
(* the second: it names just the employees asked for, also one archived    *)
(* since, who has no table; all tables are of those employees, or of the   *)
(* department it names; and "All" stands for a report without a filter.    *)
(* Its department goes by a name only if that was not archived.            *)
PeopleCovered ==
    LET people == report.people
    IN  Answered =>
           /\ people.employees = query.employees
           /\ people.employees # {} => Groups \subseteq people.employees
           /\ people.department # Null =>
                 \A g \in Groups : g \in Employees /\ DepartmentOf[g] = people.department
           /\ people.employees = {} /\ people.department = Null => query.department = Null
           /\ people.named => people.department \notin archived

(* Only a report without two ends, or between two dates, has its days for  *)
(* columns; the others have none.                                          *)
HasDays ==
    query.from = NoEnd \/ query.to = NoEnd
    \/ (query.from.kind = "date" /\ query.to.kind = "date")

(* Every cell and every total is converted for itself, so a total may show *)
(* more than its cells: of k cells with time in them less than k minutes   *)
(* more, or half a hundredth for each and for itself, more or less.        *)
AddsUp(total, cells) ==
    LET k          == Cardinality({x \in DOMAIN cells : cells[x].some})
        minutes    == total.minutes - SumFunction([x \in DOMAIN cells |-> cells[x].minutes])
        hundredths == total.hundredths
                      - SumFunction([x \in DOMAIN cells |-> cells[x].hundredths])
    IN  /\ total.some <=> k > 0
        /\ 0 <= minutes /\ (minutes > 0 => minutes < k)
        /\ -(k + 1) <= 2 * hundredths /\ 2 * hundredths <= k + 1

(* The tables add up, but for the rounding: the day cells of a row to its  *)
(* total, with no time in a day that has no column, and the tasks of an    *)
(* employee to the employee.                                               *)
TablesAddUp ==
    \A g \in Groups :
       LET tasks == report.groups[g].tasks
           all   == report.groups[g].all
       IN  /\ HasDays => \A row \in {tasks[t] : t \in DOMAIN tasks} \cup {all} :
                            AddsUp(row.total, row.cells)
           /\ \A d \in report.days :
                 AddsUp(all.cells[d], [t \in DOMAIN tasks |-> tasks[t].cells[d]])
           /\ AddsUp(all.total, [t \in DOMAIN tasks |-> tasks[t].total])

(* What was asked for: the entries between two instants, or by calendar,   *)
(* of the days from the first to the last, both included.                  *)
Day(t) == t \div DayLength
NotBefore(t, end) ==
    end = NoEnd \/ (IF end.kind = "date" THEN Day(t) >= Day(end.at) ELSE t >= end.at)
NotAfter(t, end) ==
    end = NoEnd \/ (IF end.kind = "date" THEN Day(t) <= Day(end.at) ELSE t <= end.at)
Asked(e) ==
    /\ NotBefore(e.start, query.from) /\ NotAfter(e.start, query.to)
    /\ query.department # Null => DepartmentJoined(e) = query.department
    /\ query.employees # {} => Who(e) \in query.employees

Worked(g, t, days) ==
    SumFunctionOnSet([i \in DOMAIN entries |-> entries[i].duration],
                     {i \in DOMAIN entries : /\ Asked(entries[i])
                                             /\ Who(entries[i]) = g
                                             /\ Joined(entries[i].task) = t
                                             /\ Day(entries[i].start) \in days})

Shows(g, t) == g \in Groups /\ t \in DOMAIN report.groups[g].tasks
Cell(g, t, d) ==
    IF Shows(g, t) /\ d \in report.days THEN report.groups[g].tasks[t].cells[d] ELSE CellValue(0)
Total(g, t) == IF Shows(g, t) THEN report.groups[g].tasks[t].total ELSE CellValue(0)

(* Each entry asked for counts in one row, that of its employee and task,  *)
(* there in the cell of its day, and nothing else does: not an entry in    *)
(* the last instants of the last day lost (the comment of                  *)
(* toInclusiveEndOfDay()), none counted twice, none of a range without one *)
(* of its ends, or with the ends swapped, left without a column.           *)
HoursComplete ==
    LET days == {Day(e.start) : e \in ToSet(entries)}
    IN  Answered =>
           \A g \in Employees \cup {Null}, t \in Tasks \cup {Null} :
              /\ Total(g, t) = CellValue(Worked(g, t, days))
              /\ HasDays => \A d \in report.days \cup days :
                               Cell(g, t, d) = CellValue(Worked(g, t, {d}))
=============================================================================
