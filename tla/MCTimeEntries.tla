---------------------------- MODULE MCTimeEntries ----------------------------
(* Values of TimeEntries' constants for TLC. *)
EXTENDS TimeEntries, TLC

CONSTANTS e1, e2, hr, t1, t2, noTask, l1, l2, m1, m2, w1, w2

Item1 == [localId |-> l1, employee |-> e1, task |-> t1, start |-> 1, end |-> Undef,
          duration |-> Undef]
Item1End == [Item1 EXCEPT !.end = 3, !.duration = 2]
Item2 == [Item1End EXCEPT !.localId = l2]
ForeignItem == [Item1 EXCEPT !.localId = l2, !.employee = e2]
PoisonItem == [Item1 EXCEPT !.localId = l2, !.task = noTask]

By(user, role, batch) == [kind |-> "sync", sub |-> user, role |-> role, batch |-> batch]

(* A running entry; the finished one; a batch that also holds another      *)
(* user's entry; an entry of the other user, sent by HR.                   *)
Batches == {By(e1, "EMPLOYEE", <<Item1>>),
            By(e1, "EMPLOYEE", <<ForeignItem, Item1End>>),
            By(hr, "HR", <<ForeignItem>>)}
LongBatches == {By(e1, "EMPLOYEE", <<Item1>>),
                By(e1, "MANAGER", <<ForeignItem, Item1End, Item2, Item1>>)}
OwnBatches == {By(e1, "EMPLOYEE", <<ForeignItem, Item1End>>),
               By(e2, "MANAGER", <<PoisonItem, ForeignItem>>)}
PoisonBatch == {By(e1, "EMPLOYEE", <<PoisonItem, Item1End>>)}
OneEntry == {By(e1, "EMPLOYEE", <<Item1End>>)}

Manual(t) == [employee |-> e1, task |-> t, date |-> 4, duration |-> 2]
OneManual == {Manual(t1)}
ManualOrBad == {Manual(t1), Manual(noTask)}

Change(t, d, s) == [task |-> t, date |-> d, duration |-> s]
OneChange == {Change(t2, Undef, 1)}
AllChanges == {Change(t, d, s) : t \in {t2, Undef}, d \in {0, Undef}, s \in {1, Undef}}
Retime == {Change(Undef, Undef, 1)}

Sym == Permutations(Workers)
=============================================================================
