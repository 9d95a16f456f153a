------------------------------ MODULE MCReports ------------------------------
(* Values of Reports' constants for TLC: days of four instants. *)
EXTENDS Reports

CONSTANTS e1, e2, t1, t2, d1, d2

MCDepartmentOf == (e1 :> d1) @@ (e2 :> d2)

Work(employee, task, start, duration) ==
    [employee |-> employee, task |-> task, start |-> start, duration |-> duration]

(* The last instant of day 0, the first and the last of day 1; two entries *)
(* may be equal.  Half a minute, and one, three and five halves of a       *)
(* hundredth of an hour.                                                   *)
MCInputs == {Work(e1, t1, 3, 30), Work(e1, t1, 4, 30), Work(e1, t2, 7, 18),
             Work(e2, t1, 3, 54), Work(e2, t2, 7, 90)}

(* 0.005 and 0.025 are stored as a little more, 0.015 as a little less. *)
MCHalvesUp == {0, 2}

Ranges == {<<NoEnd, NoEnd>>, <<NoEnd, DateOf(0)>>, <<DateOf(1), NoEnd>>,
           <<DateOf(0), DateOf(1)>>, <<DateOf(1), DateOf(1)>>,
           <<DateOf(1), DateOf(0)>>, <<DateOf(2), DateOf(2)>>,
           <<InstantOf(3), InstantOf(6)>>, <<DateOf(0), InstantOf(4)>>,
           <<BlankAt(4), DateOf(1)>>, <<MonthOf(0), NoEnd>>, <<NoEnd, BlankAt(4)>>}
Filters == {<<Null, {}>>, <<d1, {}>>, <<Null, {e1}>>, <<d2, {e1, e2}>>}

MCQueries ==
    {[from |-> r[1], to |-> r[2], department |-> f[1], employees |-> f[2]] :
        r \in Ranges, f \in Filters}
=============================================================================
