---------------------------- MODULE ReportsProofs ----------------------------
(***************************************************************************)
(* Proofs about Reports, for any number of entries, employees, tasks and   *)
(* days.  A workbook is built by one pass over the entries found and its   *)
(* properties are about sums, so that the proofs rest on two inductions    *)
(* over a finite set, the pass and the sum.  No induction theorem is used: *)
(* a set of sets that fails a claim has a smallest member                  *)
(* (SmallestSubset), and the claim holds of whatever is smaller than it.   *)
(***************************************************************************)
EXTENDS Reports, FiniteSetTheorems, WellFoundedInduction, TLAPS

-----------------------------------------------------------------------------
(* Sums.  SumFunctionOnSet() takes the elements in the order CHOOSE gives, *)
(* by a recursive function on the subsets of the set.                      *)

Some(s) == CHOOSE x \in s : TRUE

Summing(f, S, g) ==
    g = [s \in SUBSET S |-> IF s = {} THEN 0 ELSE f[Some(s)] + g[s \ {Some(s)}]]

(* Any non-empty set of subsets of a finite set has a smallest member.     *)
LEMMA SmallestSubset ==
    ASSUME NEW S, IsFiniteSet(S), NEW T, T \subseteq SUBSET S, T # {}
    PROVE  \E s \in T : \A r \in T : ~(r \subseteq s /\ r # s)
<1>1. IsWellFoundedOn(StrictSubsetOrdering(S), SUBSET S)
  BY FS_FiniteSubsetsOfFinite, FS_StrictSubsetOrderingWellFounded, Zenon
<1>2. PICK s \in T : \A r \in T : ~(<<r, s>> \in StrictSubsetOrdering(S))
  BY <1>1, WFMin, Zenon
<1>3. ASSUME NEW r \in T, r \subseteq s, r # s PROVE FALSE
  <2>1. <<r, s>> \in StrictSubsetOrdering(S)
    BY <1>3, r \in SUBSET S, s \in SUBSET S DEF StrictSubsetOrdering
  <2> QED
    BY <1>2, <2>1
<1> QED
  BY <1>3

(* Any non-empty set of numbers has a least member.                        *)
LEMMA LeastNumber ==
    ASSUME NEW T, T \subseteq Nat, T # {}
    PROVE  \E n \in T : \A m \in T : n <= m
<1>1. PICK n \in T : \A m \in T : ~(<<m, n>> \in OpToRel(<, Nat))
  BY NatLessThanWellFounded, WFMin, Zenon
<1>2. ASSUME NEW m \in T PROVE ~(m < n)
  BY <1>1 DEF OpToRel
<1> QED
  BY <1>2

LEMMA SomeIsMember == ASSUME NEW s, s # {} PROVE Some(s) \in s
  BY Zenon DEF Some

(* There is such a function: one that is right about the sets of up to n   *)
(* elements is made right about those of n + 1.                            *)
LEMMA SummingExists ==
    ASSUME NEW f, NEW S, IsFiniteSet(S)
    PROVE  \E g : Summing(f, S, g)
<1> DEFINE Sum(g, s) == IF s = {} THEN 0 ELSE f[Some(s)] + g[s \ {Some(s)}]
           Upto(n) == \E g : \A s \in SUBSET S : Cardinality(s) <= n => g[s] = Sum(g, s)
           Bad == {n \in Nat : ~Upto(n)}
<1> HIDE DEF Sum
<1>0. \A s \in SUBSET S : IsFiniteSet(s) /\ Cardinality(s) \in Nat
                          /\ Cardinality(s) <= Cardinality(S)
  BY FS_Subset, FS_CardinalityType
<1>1. ASSUME NEW s \in SUBSET S, s # {}
      PROVE  /\ s \ {Some(s)} \in SUBSET S
             /\ Cardinality(s \ {Some(s)}) = Cardinality(s) - 1
             /\ Cardinality(s) # 0
  BY <1>0, <1>1, SomeIsMember, FS_RemoveElement, FS_EmptySet
<1>2. ASSUME Bad # {} PROVE FALSE
  <2>1. PICK n \in Bad : \A m \in Bad : n <= m
    BY <1>2, LeastNumber
  <2>2. n # 0
    <3>1. ASSUME NEW s \in SUBSET S, Cardinality(s) <= 0 PROVE s = {}
      BY <3>1, <1>0, FS_EmptySet
    <3>2. Upto(0)
      <4> DEFINE g == [s \in SUBSET S |-> 0]
      <4>1. \A s \in SUBSET S : Cardinality(s) <= 0 => g[s] = Sum(g, s)
        BY <3>1 DEF Sum
      <4> QED
        BY <4>1
    <3> QED
      BY <3>2
  <2>3. n \in Nat /\ n - 1 \in Nat /\ n - 1 \notin Bad
    BY <2>1, <2>2
  <2>4. PICK g : \A s \in SUBSET S : Cardinality(s) <= n - 1 => g[s] = Sum(g, s)
    BY <2>3
  <2> DEFINE h == [s \in SUBSET S |-> IF Cardinality(s) = n THEN Sum(g, s) ELSE g[s]]
  <2>5. ASSUME NEW s \in SUBSET S, Cardinality(s) <= n PROVE h[s] = Sum(h, s)
    <3>1. s # {} => /\ s \ {Some(s)} \in SUBSET S
                    /\ Cardinality(s \ {Some(s)}) # n
      BY <1>0, <1>1, <2>3, <2>5
    <3>2. Sum(h, s) = Sum(g, s)
      BY <3>1 DEF Sum
    <3> QED
      BY <1>0, <2>3, <2>4, <2>5, <3>2
  <2>6. Upto(n)
    BY <2>5
  <2> QED
    BY <2>1, <2>6
<1>3. Upto(Cardinality(S))
  BY <1>2, FS_CardinalityType
<1>4. PICK g : \A s \in SUBSET S : g[s] = Sum(g, s)
  BY <1>0, <1>3
<1> DEFINE h == [s \in SUBSET S |-> g[s]]
<1>5. \A s \in SUBSET S : h[s] = Sum(h, s)
  BY <1>1, <1>4 DEF Sum
<1>6. h = [s \in SUBSET S |-> Sum(h, s)]
  BY <1>5
<1> QED
  BY <1>6, Zenon DEF Summing, Sum

LEMMA SumUnfolds ==
    ASSUME NEW f, NEW S, IsFiniteSet(S)
    PROVE  \E g : Summing(f, S, g) /\ SumFunctionOnSet(f, S) = g[S]
<1> DEFINE g == CHOOSE g : Summing(f, S, g)
<1>1. Summing(f, S, g)
  BY SummingExists, Zenon
<1>2. SumFunctionOnSet(f, S) = g[S]
  BY Zenon DEF SumFunctionOnSet, FoldFunctionOnSet, MapThenFoldSet, Summing, Some
<1> QED
  BY <1>1, <1>2, Zenon

(* The functions of two sets and of functions that agree give the same     *)
(* sum to a set that both contain.                                         *)
LEMMA SummingsAgree ==
    ASSUME NEW S, NEW T, NEW f, NEW h, NEW g, NEW k,
           Summing(f, S, g), Summing(h, T, k),
           NEW U, IsFiniteSet(U), U \subseteq S, U \subseteq T,
           \A x \in U : f[x] = h[x]
    PROVE  g[U] = k[U]
<1> DEFINE Bad == {s \in SUBSET U : g[s] # k[s]}
<1>1. ASSUME Bad # {} PROVE FALSE
  <2>1. PICK s \in Bad : \A r \in Bad : ~(r \subseteq s /\ r # s)
    <3>1. Bad \subseteq SUBSET U
      OBVIOUS
    <3> HIDE DEF Bad
    <3> QED
      BY <1>1, <3>1, SmallestSubset
  <2>2. /\ g[s] = IF s = {} THEN 0 ELSE f[Some(s)] + g[s \ {Some(s)}]
        /\ k[s] = IF s = {} THEN 0 ELSE h[Some(s)] + k[s \ {Some(s)}]
    BY s \in SUBSET S, s \in SUBSET T DEF Summing
  <2>3. s # {}
    BY <2>1, <2>2
  <2>4. Some(s) \in s
    BY <2>3, SomeIsMember
  <2>5. g[s \ {Some(s)}] = k[s \ {Some(s)}]
    BY <2>1, <2>4
  <2> QED
    BY <2>1, <2>2, <2>3, <2>4, <2>5
<1> QED
  BY <1>1

LEMMA SumOfNone == ASSUME NEW f PROVE SumFunctionOnSet(f, {}) = 0
<1>1. PICK g : Summing(f, {}, g) /\ SumFunctionOnSet(f, {}) = g[{}]
  BY SumUnfolds, FS_EmptySet
<1> QED
  BY <1>1 DEF Summing

LEMMA SumsAgree ==
    ASSUME NEW f, NEW h, NEW S, IsFiniteSet(S), \A x \in S : f[x] = h[x]
    PROVE  SumFunctionOnSet(f, S) = SumFunctionOnSet(h, S)
<1>1. PICK g : Summing(f, S, g) /\ SumFunctionOnSet(f, S) = g[S]
  BY SumUnfolds
<1>2. PICK k : Summing(h, S, k) /\ SumFunctionOnSet(h, S) = k[S]
  BY SumUnfolds
<1> QED
  BY <1>1, <1>2, SummingsAgree

LEMMA SumStep ==
    ASSUME NEW f, NEW S, IsFiniteSet(S), S # {}
    PROVE  SumFunctionOnSet(f, S) = f[Some(S)] + SumFunctionOnSet(f, S \ {Some(S)})
<1> DEFINE R == S \ {Some(S)}
<1>1. IsFiniteSet(R)
  BY FS_Subset
<1>2. PICK g : Summing(f, S, g) /\ SumFunctionOnSet(f, S) = g[S]
  BY SumUnfolds
<1>3. PICK k : Summing(f, R, k) /\ SumFunctionOnSet(f, R) = k[R]
  BY <1>1, SumUnfolds
<1>4. g[R] = k[R]
  BY <1>1, <1>2, <1>3, SummingsAgree
<1>5. g[S] = f[Some(S)] + g[R]
  BY <1>2 DEF Summing
<1> QED
  BY <1>2, <1>3, <1>4, <1>5

LEMMA SumIsNumber ==
    ASSUME NEW f, NEW S, IsFiniteSet(S), \A x \in S : f[x] \in Nat
    PROVE  SumFunctionOnSet(f, S) \in Nat
<1> DEFINE Bad == {s \in SUBSET S : SumFunctionOnSet(f, s) \notin Nat}
<1>1. ASSUME Bad # {} PROVE FALSE
  <2>1. PICK s \in Bad : \A r \in Bad : ~(r \subseteq s /\ r # s)
    <3>1. Bad \subseteq SUBSET S
      OBVIOUS
    <3> HIDE DEF Bad
    <3> QED
      BY <1>1, <3>1, SmallestSubset
  <2>2. s # {}
    <3>1. SumFunctionOnSet(f, {}) \in Nat
      BY SumOfNone
    <3> QED
      BY <2>1, <3>1
  <2>3. Some(s) \in s
    BY <2>2, SomeIsMember
  <2>4. SumFunctionOnSet(f, s) = f[Some(s)] + SumFunctionOnSet(f, s \ {Some(s)})
    BY <2>1, <2>2, SumStep, FS_Subset
  <2>5. SumFunctionOnSet(f, s \ {Some(s)}) \in Nat
    BY <2>1, <2>3
  <2> QED
    BY <2>1, <2>3, <2>4, <2>5
<1> QED
  BY <1>1

(* The order does not matter: any element can be added last.               *)
LEMMA SumWithout ==
    ASSUME NEW f, NEW S, IsFiniteSet(S), \A x \in S : f[x] \in Nat
    PROVE  \A x \in S : SumFunctionOnSet(f, S) = f[x] + SumFunctionOnSet(f, S \ {x})
<1> DEFINE Sum(s) == SumFunctionOnSet(f, s)
           Bad == {s \in SUBSET S : ~ \A x \in s : Sum(s) = f[x] + Sum(s \ {x})}
<1> HIDE DEF Sum
<1>1. \A s \in SUBSET S : IsFiniteSet(s) /\ Sum(s) \in Nat
  BY SumIsNumber, FS_Subset DEF Sum
<1>2. \A s \in SUBSET S : s # {} => Sum(s) = f[Some(s)] + Sum(s \ {Some(s)})
  BY <1>1, SumStep DEF Sum
<1>3. ASSUME Bad # {} PROVE FALSE
  <2>1. PICK s \in Bad : \A r \in Bad : ~(r \subseteq s /\ r # s)
    <3>1. Bad \subseteq SUBSET S
      OBVIOUS
    <3> HIDE DEF Bad
    <3> QED
      BY <1>3, <3>1, SmallestSubset
  <2>2. PICK x \in s : Sum(s) # f[x] + Sum(s \ {x})
    BY <2>1
  <2> DEFINE p == Some(s)
  <2>3. p \in s /\ Sum(s) = f[p] + Sum(s \ {p})
    BY <1>2, <2>2, SomeIsMember
  <2> HIDE DEF p
  <2>4. p # x
    BY <2>2, <2>3
  <2>5. Sum(s \ {p}) = f[x] + Sum((s \ {p}) \ {x})
    BY <2>1, <2>2, <2>3, <2>4
  <2>6. Sum(s \ {x}) = f[p] + Sum((s \ {x}) \ {p})
    BY <2>1, <2>2, <2>3, <2>4
  <2>7. (s \ {p}) \ {x} = (s \ {x}) \ {p}
    OBVIOUS
  <2>8. Sum((s \ {x}) \ {p}) \in Nat /\ f[x] \in Nat /\ f[p] \in Nat
    BY <1>1, <2>2, <2>3
  <2>9. /\ Sum(s) = f[p] + (f[x] + Sum((s \ {x}) \ {p}))
        /\ f[x] + Sum(s \ {x}) = f[x] + (f[p] + Sum((s \ {x}) \ {p}))
    BY <2>3, <2>5, <2>6, <2>7, Zenon
  <2> HIDE DEF Bad
  <2> QED
    BY <2>2, <2>8, <2>9
<1> QED
  BY <1>3 DEF Sum

LEMMA SumOfBoth ==
    ASSUME NEW f, NEW S, NEW T, IsFiniteSet(S), IsFiniteSet(T), S \cap T = {},
           \A x \in S \cup T : f[x] \in Nat
    PROVE  SumFunctionOnSet(f, S \cup T) = SumFunctionOnSet(f, S) + SumFunctionOnSet(f, T)
<1> DEFINE Sum(s) == SumFunctionOnSet(f, s)
           Bad == {s \in SUBSET S : Sum(s \cup T) # Sum(s) + Sum(T)}
<1> HIDE DEF Sum
<1>1. \A s \in SUBSET (S \cup T) : /\ IsFiniteSet(s) /\ Sum(s) \in Nat
                                   /\ \A x \in s : Sum(s) = f[x] + Sum(s \ {x})
  <2>1. ASSUME NEW s \in SUBSET (S \cup T)
        PROVE  IsFiniteSet(s) /\ \A x \in s : f[x] \in Nat
    BY FS_Subset, FS_Union
  <2> QED
    BY <2>1, SumIsNumber, SumWithout DEF Sum
<1>2. Sum({}) = 0
  BY SumOfNone DEF Sum
<1>3. ASSUME Bad # {} PROVE FALSE
  <2>1. PICK s \in Bad : \A r \in Bad : ~(r \subseteq s /\ r # s)
    <3>1. Bad \subseteq SUBSET S
      OBVIOUS
    <3> HIDE DEF Bad
    <3> QED
      BY <1>3, <3>1, SmallestSubset
  <2>2. s # {}
    <3>1. SUFFICES ASSUME s = {} PROVE FALSE
      OBVIOUS
    <3>2. s \cup T = T /\ Sum(T) \in Nat
      BY <1>1, <3>1
    <3> QED
      BY <1>2, <2>1, <3>1, <3>2
  <2>3. PICK x \in s : TRUE
    BY <2>2
  <2>4. Sum(s) = f[x] + Sum(s \ {x}) /\ Sum(s \cup T) = f[x] + Sum((s \cup T) \ {x})
    BY <1>1, <2>3
  <2>5. (s \cup T) \ {x} = (s \ {x}) \cup T
    BY <2>3
  <2>6. Sum((s \ {x}) \cup T) = Sum(s \ {x}) + Sum(T)
    BY <2>1, <2>3
  <2>7. Sum(s \ {x}) \in Nat /\ Sum(T) \in Nat /\ f[x] \in Nat
    BY <1>1, <2>3
  <2> QED
    BY <2>1, <2>4, <2>5, <2>6, <2>7
<1> QED
  BY <1>3 DEF Sum

(* A sum is the sum of the sums of the parts that a key cuts its set into. *)
LEMMA SumByKey ==
    ASSUME NEW f, NEW S, IsFiniteSet(S), \A x \in S : f[x] \in Nat,
           NEW key, NEW K, IsFiniteSet(K), \A x \in S : key[x] \in K,
           NEW parts, \A k \in K : parts[k] = SumFunctionOnSet(f, {x \in S : key[x] = k})
    PROVE  SumFunctionOnSet(f, S) = SumFunctionOnSet(parts, K)
<1> DEFINE Of(L) == {x \in S : key[x] \in L}
           Bad == {L \in SUBSET K : SumFunctionOnSet(f, Of(L)) # SumFunctionOnSet(parts, L)}
<1>1. \A L \in SUBSET K : IsFiniteSet(L) /\ IsFiniteSet(Of(L))
  BY FS_Subset
<1>2. ASSUME Bad # {} PROVE FALSE
  <2>1. PICK L \in Bad : \A M \in Bad : ~(M \subseteq L /\ M # L)
    <3>1. Bad \subseteq SUBSET K
      OBVIOUS
    <3> HIDE DEF Bad
    <3> QED
      BY <1>2, <3>1, SmallestSubset
  <2>2. L # {}
    <3>1. Of({}) = {}
      OBVIOUS
    <3> QED
      BY <2>1, <3>1, SumOfNone
  <2> DEFINE k == Some(L)
             M == L \ {k}
  <2>3. k \in L
    BY <2>2, SomeIsMember
  <2>4. SumFunctionOnSet(parts, L) = parts[k] + SumFunctionOnSet(parts, M)
    BY <1>1, <2>2, SumStep
  <2> HIDE DEF k
  <2>5. SumFunctionOnSet(f, Of(M)) = SumFunctionOnSet(parts, M)
    BY <2>1, <2>3
  <2>6. /\ Of(L) = {x \in S : key[x] = k} \cup Of(M)
        /\ {x \in S : key[x] = k} \cap Of(M) = {}
    BY <2>3
  <2>7. SumFunctionOnSet(f, Of(L)) = parts[k] + SumFunctionOnSet(f, Of(M))
    <3>1. IsFiniteSet({x \in S : key[x] = k}) /\ IsFiniteSet(Of(M))
      BY FS_Subset
    <3>2. \A x \in {x \in S : key[x] = k} \cup Of(M) : f[x] \in Nat
      OBVIOUS
    <3> DEFINE A == {x \in S : key[x] = k}
    <3>3. SumFunctionOnSet(f, A) = parts[k]
      BY <2>3
    <3> HIDE DEF Of, A
    <3>4. SumFunctionOnSet(f, A \cup Of(M)) = SumFunctionOnSet(f, A) + SumFunctionOnSet(f, Of(M))
      BY <2>6, <3>1, <3>2, SumOfBoth, Zenon DEF A
    <3> QED
      BY <2>6, <3>3, <3>4, Zenon DEF A
  <2> QED
    BY <2>1, <2>4, <2>5, <2>7
<1>3. Of(K) = S
  OBVIOUS
<1> QED
  BY <1>2, <1>3

-----------------------------------------------------------------------------
(* buildPivot().  The entries are known by their places, and a row, a      *)
(* group and the table are right for a set of places if each number is the *)
(* sum of the durations at the places it stands for.  A day, task or       *)
(* employee that was not met yet is right for no places.                   *)

RowOK(row, places, dur, day) ==
    /\ DOMAIN row.byDay = {day[i] : i \in places}
    /\ \A d : At(row.byDay, d, 0) = SumFunctionOnSet(dur, {i \in places : day[i] = d})
    /\ row.total = SumFunctionOnSet(dur, places)

GroupOK(group, places, dur, day, task) ==
    /\ RowOK(group.all, places, dur, day)
    /\ DOMAIN group.tasks = {task[i] : i \in places}
    /\ \A t : RowOK(At(group.tasks, t, NoRow), {i \in places : task[i] = t}, dur, day)

PivotOK(groups, places, dur, day, task, who) ==
    /\ DOMAIN groups = {who[i] : i \in places}
    /\ \A p : GroupOK(At(groups, p, NoGroup), {i \in places : who[i] = p}, dur, day, task)

LEMMA EmptyRowOK == ASSUME NEW dur, NEW day PROVE RowOK(NoRow, {}, dur, day)
<1>1. NoRow.byDay = <<>> /\ NoRow.total = 0
  BY DEF NoRow
<1>2. DOMAIN <<>> = {}
  OBVIOUS
<1>3. \A d : {i \in {} : day[i] = d} = {}
  OBVIOUS
<1> QED
  BY <1>1, <1>2, <1>3, SumOfNone, Zenon DEF RowOK, At

LEMMA EmptyGroupOK ==
    ASSUME NEW dur, NEW day, NEW task PROVE GroupOK(NoGroup, {}, dur, day, task)
<1>1. NoGroup.all = NoRow /\ NoGroup.tasks = <<>> /\ DOMAIN <<>> = {}
  BY DEF NoGroup
<1>2. \A t : {i \in {} : task[i] = t} = {}
  OBVIOUS
<1> QED
  BY <1>1, <1>2, EmptyRowOK, Zenon DEF GroupOK, At

LEMMA EmptyPivotOK ==
    ASSUME NEW dur, NEW day, NEW task, NEW who
    PROVE  PivotOK(<<>>, {}, dur, day, task, who)
<1>1. DOMAIN <<>> = {}
  OBVIOUS
<1>2. \A p : {i \in {} : who[i] = p} = {}
  OBVIOUS
<1> QED
  BY <1>1, <1>2, EmptyGroupOK, Zenon DEF PivotOK, At

(* An entry more in a row. *)
LEMMA RowAdded ==
    ASSUME NEW places, NEW place, IsFiniteSet(places), place \notin places,
           NEW dur, \A i \in places \cup {place} : dur[i] \in Nat,
           NEW day, NEW row, RowOK(row, places, dur, day),
           NEW e, e.duration = dur[place], DateKey(e.start) = day[place]
    PROVE  RowOK(Added(row, e), places \cup {place}, dur, day)
<1> DEFINE more == places \cup {place}
           new == Added(row, e)
<1>1. /\ new.byDay = Put(row.byDay, day[place], At(row.byDay, day[place], 0) + dur[place])
      /\ new.total = row.total + dur[place]
  BY DEF Added
<1> HIDE DEF new
<1>2. ASSUME NEW S, S \subseteq places
      PROVE  /\ SumFunctionOnSet(dur, S) \in Nat
             /\ SumFunctionOnSet(dur, S \cup {place}) = SumFunctionOnSet(dur, S) + dur[place]
  <2>1. IsFiniteSet(S) /\ IsFiniteSet(S \cup {place})
    BY <1>2, FS_Subset, FS_AddElement
  <2>2. (S \cup {place}) \ {place} = S
    BY <1>2
  <2>3. SumFunctionOnSet(dur, S) \in Nat
    BY <1>2, <2>1, SumIsNumber
  <2>4. SumFunctionOnSet(dur, S \cup {place}) = dur[place] + SumFunctionOnSet(dur, S)
    <3> DEFINE T == S \cup {place}
    <3>1. IsFiniteSet(T) /\ place \in T /\ \A i \in T : dur[i] \in Nat
      BY <1>2, <2>1
    <3> HIDE DEF T
    <3>2. SumFunctionOnSet(dur, T) = dur[place] + SumFunctionOnSet(dur, T \ {place})
      BY <3>1, SumWithout
    <3> QED
      BY <2>2, <3>2, Zenon DEF T
  <2> QED
    BY <2>3, <2>4
<1>3. DOMAIN new.byDay = {day[i] : i \in more}
  BY <1>1 DEF RowOK, Put
<1>4. ASSUME NEW d
      PROVE  At(new.byDay, d, 0) = SumFunctionOnSet(dur, {i \in more : day[i] = d})
  <2> DEFINE S == {i \in places : day[i] = d}
  <2>1. At(row.byDay, d, 0) = SumFunctionOnSet(dur, S)
    BY DEF RowOK
  <2>2. CASE d = day[place]
    <3>1. {i \in more : day[i] = d} = S \cup {place}
      BY <2>2
    <3>2. At(new.byDay, d, 0) = At(row.byDay, d, 0) + dur[place]
      BY <1>1, <2>2 DEF At, Put
    <3>3. SumFunctionOnSet(dur, S \cup {place}) = SumFunctionOnSet(dur, S) + dur[place]
      BY <1>2
    <3> QED
      BY <2>1, <3>1, <3>2, <3>3, Zenon
  <2>3. CASE d # day[place]
    <3>1. {i \in more : day[i] = d} = S
      BY <2>3
    <3>2. At(new.byDay, d, 0) = At(row.byDay, d, 0)
      BY <1>1, <2>3 DEF At, Put
    <3> QED
      BY <2>1, <3>1, <3>2, Zenon
  <2> QED
    BY <2>2, <2>3
<1>5. new.total = SumFunctionOnSet(dur, more)
  <2>1. SumFunctionOnSet(dur, more) = SumFunctionOnSet(dur, places) + dur[place]
    BY <1>2
  <2> QED
    BY <1>1, <2>1, Zenon DEF RowOK
<1> QED
  BY <1>3, <1>4, <1>5, Zenon DEF RowOK, new

(* An entry more in a group: in its row of the task and in the sums. *)
WithEntry(group, task, e) ==
    [tasks |-> Put(group.tasks, task, Added(At(group.tasks, task, NoRow), e)),
     all |-> Added(group.all, e)]

LEMMA GroupAdded ==
    ASSUME NEW places, NEW place, IsFiniteSet(places), place \notin places,
           NEW dur, \A i \in places \cup {place} : dur[i] \in Nat,
           NEW day, NEW task, NEW group, GroupOK(group, places, dur, day, task),
           NEW e, e.duration = dur[place], DateKey(e.start) = day[place]
    PROVE  GroupOK(WithEntry(group, task[place], e), places \cup {place}, dur, day, task)
<1> DEFINE more == places \cup {place}
           new == WithEntry(group, task[place], e)
           row == At(group.tasks, task[place], NoRow)
<1>1. new.tasks = Put(group.tasks, task[place], Added(row, e)) /\ new.all = Added(group.all, e)
  BY DEF WithEntry
<1> HIDE DEF new, row
<1>2. RowOK(new.all, more, dur, day)
  BY <1>1, RowAdded DEF GroupOK
<1>3. DOMAIN new.tasks = {task[i] : i \in more}
  BY <1>1 DEF GroupOK, Put
<1>4. ASSUME NEW t
      PROVE  RowOK(At(new.tasks, t, NoRow), {i \in more : task[i] = t}, dur, day)
  <2> DEFINE S == {i \in places : task[i] = t}
  <2>1. RowOK(At(group.tasks, t, NoRow), S, dur, day)
    BY DEF GroupOK
  <2>2. CASE t = task[place]
    <3>1. {i \in more : task[i] = t} = S \cup {place}
      BY <2>2
    <3>2. At(new.tasks, t, NoRow) = Added(row, e)
      BY <1>1, <2>2 DEF At, Put
    <3>3. RowOK(row, S, dur, day)
      BY <2>1, <2>2, Zenon DEF row
    <3>4. IsFiniteSet(S) /\ place \notin S /\ \A i \in S \cup {place} : dur[i] \in Nat
      BY FS_Subset
    <3> HIDE DEF S
    <3>5. RowOK(Added(row, e), S \cup {place}, dur, day)
      BY <3>3, <3>4, RowAdded
    <3> QED
      BY <3>1, <3>2, <3>5, Zenon
  <2>3. CASE t # task[place]
    <3>1. {i \in more : task[i] = t} = S
      BY <2>3
    <3>2. At(new.tasks, t, NoRow) = At(group.tasks, t, NoRow)
      BY <1>1, <2>3 DEF At, Put
    <3> QED
      BY <2>1, <3>1, <3>2, Zenon
  <2> QED
    BY <2>2, <2>3
<1> QED
  BY <1>2, <1>3, <1>4, Zenon DEF GroupOK, new

(* The columns of table time_entries, as the report reads them. *)
Durations == [i \in DOMAIN entries |-> entries[i].duration]
DayKeys == [i \in DOMAIN entries |-> DateKey(entries[i].start)]
Owners == [i \in DOMAIN entries |-> Who(entries[i])]
Works == [i \in DOMAIN entries |-> Joined(entries[i].task)]

(* An entry more in the table. *)
LEMMA PivotAdded ==
    ASSUME entries \in Seq(Entry), NEW places, places \subseteq DOMAIN entries,
           IsFiniteSet(places), NEW place \in DOMAIN entries, place \notin places,
           NEW groups, PivotOK(groups, places, Durations, DayKeys, Works, Owners)
    PROVE  PivotOK(AddEntry(groups, entries[place]), places \cup {place},
                   Durations, DayKeys, Works, Owners)
<1> DEFINE more == places \cup {place}
           e == entries[place]
           group == At(groups, Owners[place], NoGroup)
           new == AddEntry(groups, e)
<1>1. /\ e.duration = Durations[place] /\ DateKey(e.start) = DayKeys[place]
      /\ Who(e) = Owners[place] /\ Joined(e.task) = Works[place]
  BY DEF Durations, DayKeys, Owners, Works
<1>2. \A i \in more : Durations[i] \in Nat
  <2>1. \A i \in DOMAIN entries : entries[i] \in Entry
    OBVIOUS
  <2> QED
    BY <2>1 DEF Durations, Entry
<1>3. new = Put(groups, Owners[place], WithEntry(group, Works[place], e))
  BY <1>1, Zenon DEF AddEntry, WithEntry
<1> HIDE DEF new, group, e
<1>4. DOMAIN new = {Owners[i] : i \in more}
  BY <1>3 DEF PivotOK, Put
<1>5. ASSUME NEW p
      PROVE  GroupOK(At(new, p, NoGroup), {i \in more : Owners[i] = p},
                     Durations, DayKeys, Works)
  <2> DEFINE S == {i \in places : Owners[i] = p}
  <2>1. GroupOK(At(groups, p, NoGroup), S, Durations, DayKeys, Works)
    BY DEF PivotOK
  <2>2. CASE p = Owners[place]
    <3>1. {i \in more : Owners[i] = p} = S \cup {place}
      BY <2>2
    <3>2. At(new, p, NoGroup) = WithEntry(group, Works[place], e)
      BY <1>3, <2>2 DEF At, Put
    <3>3. GroupOK(group, S, Durations, DayKeys, Works)
      BY <2>1, <2>2, Zenon DEF group
    <3>4. IsFiniteSet(S) /\ place \notin S /\ \A i \in S \cup {place} : Durations[i] \in Nat
      BY <1>2, FS_Subset
    <3> HIDE DEF S
    <3>5. GroupOK(WithEntry(group, Works[place], e), S \cup {place},
                  Durations, DayKeys, Works)
      BY <1>1, <3>3, <3>4, GroupAdded
    <3> QED
      BY <3>1, <3>2, <3>5, Zenon
  <2>3. CASE p # Owners[place]
    <3>1. {i \in more : Owners[i] = p} = S
      BY <2>3
    <3>2. At(new, p, NoGroup) = At(groups, p, NoGroup)
      BY <1>3, <2>3 DEF At, Put
    <3> QED
      BY <2>1, <3>1, <3>2, Zenon
  <2> QED
    BY <2>2, <2>3
<1> QED
  BY <1>4, <1>5, Zenon DEF PivotOK, new, e

(* The pass over the entries is a recursive function too.                  *)
Pivoting(S, g) ==
    g = [s \in SUBSET S |-> IF s = {} THEN <<>>
                            ELSE AddEntry(g[s \ {Some(s)}], entries[Some(s)])]

LEMMA PivotingExists ==
    ASSUME NEW S, IsFiniteSet(S)
    PROVE  \E g : Pivoting(S, g)
<1> DEFINE Table(g, s) == IF s = {} THEN <<>>
                          ELSE AddEntry(g[s \ {Some(s)}], entries[Some(s)])
           Upto(n) == \E g : \A s \in SUBSET S : Cardinality(s) <= n => g[s] = Table(g, s)
           Bad == {n \in Nat : ~Upto(n)}
<1> HIDE DEF Table
<1>0. \A s \in SUBSET S : IsFiniteSet(s) /\ Cardinality(s) \in Nat
                          /\ Cardinality(s) <= Cardinality(S)
  BY FS_Subset, FS_CardinalityType
<1>1. ASSUME NEW s \in SUBSET S, s # {}
      PROVE  /\ s \ {Some(s)} \in SUBSET S
             /\ Cardinality(s \ {Some(s)}) = Cardinality(s) - 1
             /\ Cardinality(s) # 0
  BY <1>0, <1>1, SomeIsMember, FS_RemoveElement, FS_EmptySet
<1>2. ASSUME Bad # {} PROVE FALSE
  <2>1. PICK n \in Bad : \A m \in Bad : n <= m
    BY <1>2, LeastNumber
  <2>2. n # 0
    <3>1. ASSUME NEW s \in SUBSET S, Cardinality(s) <= 0 PROVE s = {}
      BY <3>1, <1>0, FS_EmptySet
    <3>2. Upto(0)
      <4> DEFINE g == [s \in SUBSET S |-> <<>>]
      <4>1. \A s \in SUBSET S : Cardinality(s) <= 0 => g[s] = Table(g, s)
        BY <3>1 DEF Table
      <4> QED
        BY <4>1
    <3> QED
      BY <3>2
  <2>3. n \in Nat /\ n - 1 \in Nat /\ n - 1 \notin Bad
    BY <2>1, <2>2
  <2>4. PICK g : \A s \in SUBSET S : Cardinality(s) <= n - 1 => g[s] = Table(g, s)
    BY <2>3
  <2> DEFINE h == [s \in SUBSET S |-> IF Cardinality(s) = n THEN Table(g, s) ELSE g[s]]
  <2>5. ASSUME NEW s \in SUBSET S, Cardinality(s) <= n PROVE h[s] = Table(h, s)
    <3>1. s # {} => /\ s \ {Some(s)} \in SUBSET S
                    /\ Cardinality(s \ {Some(s)}) # n
      BY <1>0, <1>1, <2>3, <2>5
    <3>2. Table(h, s) = Table(g, s)
      BY <3>1 DEF Table
    <3> QED
      BY <1>0, <2>3, <2>4, <2>5, <3>2
  <2>6. Upto(n)
    BY <2>5
  <2> QED
    BY <2>1, <2>6
<1>3. Upto(Cardinality(S))
  BY <1>2, FS_CardinalityType
<1>4. PICK g : \A s \in SUBSET S : g[s] = Table(g, s)
  BY <1>0, <1>3
<1> DEFINE h == [s \in SUBSET S |-> g[s]]
<1>5. \A s \in SUBSET S : h[s] = Table(h, s)
  BY <1>1, <1>4 DEF Table
<1>6. h = [s \in SUBSET S |-> Table(h, s)]
  BY <1>5
<1> QED
  BY <1>6, Zenon DEF Pivoting, Table

(* The table that buildPivot() makes of any set of entries is right.       *)
LEMMA PivotRight ==
    ASSUME entries \in Seq(Entry), NEW S, S \subseteq DOMAIN entries, IsFiniteSet(S)
    PROVE  PivotOK(Pivot(S), S, Durations, DayKeys, Works, Owners)
<1> DEFINE g == CHOOSE g : Pivoting(S, g)
           Right(s) == PivotOK(g[s], s, Durations, DayKeys, Works, Owners)
           Bad == {s \in SUBSET S : ~Right(s)}
<1>1. Pivoting(S, g)
  BY PivotingExists, Zenon
<1>2. Pivot(S) = g[S]
  BY Zenon DEF Pivot, FoldSet, MapThenFoldSet, Pivoting, Some
<1> HIDE DEF g
<1>3. ASSUME Bad # {} PROVE FALSE
  <2>1. PICK s \in Bad : \A r \in Bad : ~(r \subseteq s /\ r # s)
    <3>1. Bad \subseteq SUBSET S
      OBVIOUS
    <3> HIDE DEF Bad
    <3> QED
      BY <1>3, <3>1, SmallestSubset
  <2>2. g[s] = IF s = {} THEN <<>> ELSE AddEntry(g[s \ {Some(s)}], entries[Some(s)])
    BY <1>1, Zenon DEF Pivoting
  <2>3. s # {}
    <3> SUFFICES ASSUME s = {} PROVE FALSE
      OBVIOUS
    <3>1. Right({})
      BY <2>2, EmptyPivotOK
    <3> QED
      BY <2>1, <3>1
  <2> DEFINE p == Some(s)
             r == s \ {p}
  <2>4. p \in s
    BY <2>3, SomeIsMember
  <2>5. g[s] = AddEntry(g[r], entries[p])
    BY <2>2, <2>3
  <2> HIDE DEF p
  <2>6. Right(r)
    BY <2>1, <2>4
  <2>7. /\ r \subseteq DOMAIN entries /\ IsFiniteSet(r)
        /\ p \in DOMAIN entries /\ p \notin r /\ r \cup {p} = s
    BY <2>4, FS_Subset
  <2> HIDE DEF r
  <2>8. PivotOK(AddEntry(g[r], entries[p]), r \cup {p}, Durations, DayKeys, Works, Owners)
    BY <2>6, <2>7, PivotAdded
  <2> QED
    BY <2>1, <2>5, <2>7, <2>8
<1> QED
  BY <1>2, <1>3

-----------------------------------------------------------------------------
(* The calendar.                                                           *)

LEMMA DayHolds ==
    ASSUME NEW t \in Nat
    PROVE  /\ DateKey(t) \in Nat
           /\ DayLength * DateKey(t) <= t /\ t < DayLength * DateKey(t) + DayLength
<1>1. DayLength \in Nat /\ DayLength > 0
  BY DateRangeAssumption
<1> QED
  BY <1>1, SMTT(30) DEF DateKey

LEMMA LaterDay ==
    ASSUME NEW a \in Nat, NEW b \in Nat
    PROVE  /\ a < b <=> DayLength * a + DayLength <= DayLength * b
           /\ a <= b <=> DayLength * a <= DayLength * b
           /\ DayLength * a \in Nat
<1>1. DayLength \in Nat /\ DayLength > 0
  BY DateRangeAssumption
<1>2. DayLength * a \in Nat /\ DayLength * b \in Nat
  BY <1>1
<1>3. a <= b => DayLength * a <= DayLength * b
  <2>1. SUFFICES ASSUME a <= b PROVE DayLength * a <= DayLength * b
    OBVIOUS
  <2>2. PICK c \in Nat : b = a + c
    BY <2>1, b - a \in Nat
  <2>3. DayLength * b = DayLength * a + DayLength * c /\ DayLength * c \in Nat
    BY <1>1, <2>2, SMTT(30)
  <2> QED
    BY <1>2, <2>3
<1>4. a < b => DayLength * a + DayLength <= DayLength * b
  <2>1. SUFFICES ASSUME a < b PROVE DayLength * a + DayLength <= DayLength * b
    OBVIOUS
  <2>2. PICK c \in Nat : b = (a + 1) + c
    BY <2>1, b - (a + 1) \in Nat
  <2>3. /\ DayLength * b = DayLength * a + DayLength + DayLength * c
        /\ DayLength * c \in Nat
    BY <1>1, <2>2, SMTT(30)
  <2> QED
    BY <1>1, <1>2, <2>3
<1>5. b <= a => DayLength * b <= DayLength * a
  <2>1. SUFFICES ASSUME b <= a PROVE DayLength * b <= DayLength * a
    OBVIOUS
  <2>2. PICK c \in Nat : a = b + c
    BY <2>1, a - b \in Nat
  <2>3. DayLength * a = DayLength * b + DayLength * c /\ DayLength * c \in Nat
    BY <1>1, <2>2, SMTT(30)
  <2> QED
    BY <1>2, <2>3
<1>6. b < a => DayLength * b + DayLength <= DayLength * a
  <2>1. SUFFICES ASSUME b < a PROVE DayLength * b + DayLength <= DayLength * a
    OBVIOUS
  <2>2. PICK c \in Nat : a = (b + 1) + c
    BY <2>1, a - (b + 1) \in Nat
  <2>3. /\ DayLength * a = DayLength * b + DayLength + DayLength * c
        /\ DayLength * c \in Nat
    BY <1>1, <2>2, SMTT(30)
  <2> QED
    BY <1>1, <1>2, <2>3
<1> QED
  BY <1>1, <1>2, <1>3, <1>4, <1>5, <1>6

(* A date without a time is the first instant of its day.                  *)
LEMMA DateStartsDay ==
    ASSUME NEW end \in Ends, end.kind = "date"
    PROVE  end.at \in Nat /\ end.at = DayLength * DateKey(end.at)
<1>1. DayLength \in Nat /\ DayLength > 0
  BY DateRangeAssumption
<1>2. end.at \in Nat /\ end.at % DayLength = 0
  BY DEF Ends
<1>3. \A n \in Nat : n % DayLength = 0 => n = DayLength * (n \div DayLength)
  BY <1>1, SMTT(30)
<1> QED
  BY <1>2, <1>3 DEF DateKey

(* Of two instants, the day of the one is not before the day of the other  *)
(* exactly if it is not before the day's first instant.                    *)
LEMMA NotBeforeDay ==
    ASSUME NEW t \in Nat, NEW end \in Ends, end.kind = "date"
    PROVE  /\ DateKey(t) >= DateKey(end.at) <=> t >= end.at
           /\ DateKey(t) <= DateKey(end.at) <=> t <= end.at + DayLength - 1
<1> DEFINE d == DateKey(t)
           f == DateKey(end.at)
<1>1. DayLength \in Nat /\ DayLength > 0
  BY DateRangeAssumption
<1>2. d \in Nat /\ DayLength * d <= t /\ t < DayLength * d + DayLength
  BY DayHolds
<1>3. end.at \in Nat /\ f \in Nat /\ end.at = DayLength * f
  BY DateStartsDay, DayHolds
<1> HIDE DEF d, f
<1>4. /\ d < f <=> DayLength * d + DayLength <= DayLength * f
      /\ f < d <=> DayLength * f + DayLength <= DayLength * d
      /\ f <= d <=> DayLength * f <= DayLength * d
      /\ d <= f <=> DayLength * d <= DayLength * f
      /\ DayLength * d \in Nat /\ DayLength * f \in Nat
  BY <1>2, <1>3, LaterDay
<1> DEFINE D == DayLength * d
           F == DayLength * f
<1> HIDE DEF D, F
<1>5. /\ d < f <=> D + DayLength <= F
      /\ f < d <=> F + DayLength <= D
      /\ D \in Nat /\ F \in Nat /\ D <= t /\ t < D + DayLength /\ end.at = F
  BY <1>2, <1>3, <1>4, Zenon DEF D, F
<1>6. d >= f <=> t >= end.at
  BY <1>1, <1>2, <1>3, <1>5
<1>7. d <= f <=> t <= end.at + DayLength - 1
  BY <1>1, <1>2, <1>3, <1>5
<1> QED
  BY <1>6, <1>7 DEF d, f

(* The filter of the query is what was asked for, if the database reads    *)
(* dates in UTC.                                                           *)
LEMMA MatchesAsked ==
    ASSUME Zone = 0, query \in Query, Readable(query.from, query.to), NEW e \in Entry
    PROVE  Matches(e, query) <=> Asked(e)
<1> DEFINE from == query.from
           to == query.to
           t == e.start
<1>1. t \in Nat /\ from \in Ends \cup {NoEnd} /\ to \in Ends \cup {NoEnd}
  BY DEF Entry, Query
<1>2. from # NoEnd => (t >= Parsed(from) <=> NotBefore(t, from))
  <2> SUFFICES ASSUME from # NoEnd PROVE t >= Parsed(from) <=> NotBefore(t, from)
    OBVIOUS
  <2>1. from \in Ends /\ from.at \in Nat
    BY <1>1 DEF Ends
  <2>2. CASE from.kind # "date"
    <3>1. from.kind # "month"
      BY DEF Readable
    <3> QED
      BY <2>2, <3>1 DEF Parsed, NotBefore
  <2>3. CASE from.kind = "date"
    <3>1. DateKey(t) >= DateKey(from.at) <=> t >= from.at
      BY <1>1, <2>1, <2>3, NotBeforeDay
    <3>2. Parsed(from) = from.at
      BY <2>1, <2>3 DEF Parsed
    <3> QED
      BY <2>3, <3>1, <3>2 DEF NotBefore, Day, DateKey
  <2> QED
    BY <2>2, <2>3
<1>3. to # NoEnd => (t <= EndOfDay(to) <=> NotAfter(t, to))
  <2> SUFFICES ASSUME to # NoEnd PROVE t <= EndOfDay(to) <=> NotAfter(t, to)
    OBVIOUS
  <2>1. to \in Ends /\ to.at \in Nat
    BY <1>1 DEF Ends
  <2>2. CASE to.kind # "date"
    <3>1. to.kind = "instant"
      BY <2>2 DEF Readable
    <3> QED
      BY <2>2, <3>1 DEF EndOfDay, NotAfter
  <2>3. CASE to.kind = "date"
    <3>1. DateKey(t) <= DateKey(to.at) <=> t <= to.at + DayLength - 1
      BY <1>1, <2>1, <2>3, NotBeforeDay
    <3>2. EndOfDay(to) = to.at + DayLength - 1
      BY <2>1, <2>3 DEF EndOfDay, Parsed
    <3> QED
      BY <2>3, <3>1, <3>2 DEF NotAfter, Day, DateKey
  <2> QED
    BY <2>2, <2>3
<1>4. /\ from = NoEnd => NotBefore(t, from)
      /\ to = NoEnd => NotAfter(t, to)
  BY DEF NotBefore, NotAfter
<1> QED
  BY <1>2, <1>3, <1>4, Zenon DEF Matches, InRange, Asked

LEMMA NoQueryIsQuery == NoQuery \in Query
  BY DEF NoQuery, Query

LEMMA FoundFinite ==
    ASSUME entries \in Seq(Entry), NEW q
    PROVE  /\ Fetched(q) \subseteq DOMAIN entries /\ IsFiniteSet(Fetched(q))
           /\ \A i \in DOMAIN entries : entries[i] \in Entry
           /\ \A i \in DOMAIN entries : Durations[i] \in Nat /\ DayKeys[i] \in Nat
<1>1. DOMAIN entries = 1 .. Len(entries) /\ Len(entries) \in Nat
  OBVIOUS
<1>2. IsFiniteSet(DOMAIN entries)
  BY <1>1, FS_Interval
<1>3. Fetched(q) \subseteq DOMAIN entries
  BY DEF Fetched
<1>4. ASSUME NEW i \in DOMAIN entries
      PROVE  entries[i] \in Entry /\ Durations[i] \in Nat /\ DayKeys[i] \in Nat
  <2>1. entries[i] \in Entry
    OBVIOUS
  <2>2. entries[i].duration \in Nat /\ entries[i].start \in Nat
    BY <2>1 DEF Entry
  <2> QED
    BY <2>1, <2>2, DayHolds DEF Durations, DayKeys
<1> QED
  BY <1>2, <1>3, <1>4, FS_Subset

(* A finite list of numbers has a bound. *)
LEMMA Bounded ==
    ASSUME NEW S, IsFiniteSet(S), NEW f, \A i \in S : f[i] \in Nat
    PROVE  \E n \in Nat : \A i \in S : f[i] <= n
<1> DEFINE Bad == {s \in SUBSET S : ~ \E n \in Nat : \A i \in s : f[i] <= n}
<1>1. ASSUME Bad # {} PROVE FALSE
  <2>1. PICK s \in Bad : \A r \in Bad : ~(r \subseteq s /\ r # s)
    <3>1. Bad \subseteq SUBSET S
      OBVIOUS
    <3> HIDE DEF Bad
    <3> QED
      BY <1>1, <3>1, SmallestSubset
  <2>2. PICK x \in s : TRUE
    BY <2>1
  <2>3. PICK n \in Nat : \A i \in s \ {x} : f[i] <= n
    <3> DEFINE r == s \ {x}
    <3>1. r \subseteq s /\ r # s /\ r \in SUBSET S
      BY <2>2
    <3>2. r \notin Bad
      BY <2>1, <3>1
    <3> QED
      BY <3>1, <3>2
  <2>4. \A i \in s : f[i] <= n + f[x]
    BY <2>2, <2>3
  <2> QED
    BY <2>1, <2>2, <2>4
<1> QED
  BY <1>1

LEMMA FirstAndLast ==
    ASSUME NEW S, S \subseteq Nat, S # {}, NEW n \in Nat, \A d \in S : d <= n
    PROVE  /\ Min(S) \in Nat /\ Max(S) \in Nat
           /\ \A d \in S : Min(S) <= d /\ d <= Max(S)
<1>1. \E a \in S : \A d \in S : a <= d
  BY LeastNumber
<1>2. \E b \in S : \A d \in S : b >= d
  <2> DEFINE T == {m \in Nat : \A d \in S : d <= m}
  <2>1. PICK b \in T : \A m \in T : b <= m
    <3>1. n \in T
      OBVIOUS
    <3> QED
      BY <3>1, LeastNumber
  <2>2. b \in S
    <3> SUFFICES ASSUME b \notin S PROVE FALSE
      OBVIOUS
    <3>1. \A d \in S : d < b
      BY <2>1
    <3>2. b - 1 \in Nat
      <4>1. PICK d \in S : TRUE
        OBVIOUS
      <4>2. d \in Nat /\ d < b /\ b \in Nat
        BY <2>1, <3>1
      <4> QED
        BY <4>2
    <3>3. b - 1 \in T
      BY <2>1, <3>1, <3>2
    <3> QED
      BY <2>1, <3>3
  <2> QED
    BY <2>1, <2>2
<1>3. Min(S) \in S /\ \A d \in S : Min(S) <= d
  BY <1>1, Zenon DEF Min
<1>4. Max(S) \in S /\ \A d \in S : Max(S) >= d
  BY <1>2, Zenon DEF Max
<1> QED
  BY <1>3, <1>4

(* The columns are days, finitely many, and unless one of two ends is no   *)
(* calendar date each entry found has the column of its day.               *)
LEMMA ColumnsRight ==
    ASSUME entries \in Seq(Entry), query \in Query
    PROVE  LET found == Fetched(query)
               days == DateKeys(query, found)
           IN  /\ days \subseteq Nat /\ IsFiniteSet(days)
               /\ Zone = 0 /\ HasDays => \A i \in found : DayKeys[i] \in days
<1> DEFINE found == Fetched(query)
           days == DateKeys(query, found)
           met == {DateKey(entries[i].start) : i \in found}
           from == query.from
           to == query.to
<1>1. /\ from \in Ends \cup {NoEnd} /\ to \in Ends \cup {NoEnd}
      /\ \A end \in Ends : end.at \in Nat
  BY DEF Query, Ends
<1>2. /\ found \subseteq DOMAIN entries /\ IsFiniteSet(found)
      /\ \A i \in found : DayKeys[i] \in Nat /\ DayKeys[i] = DateKey(entries[i].start)
      /\ \A i \in found : entries[i].start \in Nat
  BY FoundFinite DEF DayKeys, Entry
<1>3. CASE from # NoEnd /\ to # NoEnd /\ (from.kind # "date" \/ to.kind # "date")
  <2>1. days = {} /\ ~HasDays
    BY <1>3 DEF DateKeys, HasDays
  <2> QED
    BY <2>1, FS_EmptySet
<1>4. CASE from # NoEnd /\ to # NoEnd /\ from.kind = "date" /\ to.kind = "date"
  <2>1. days = DateKey(from.at) .. DateKey(to.at)
    BY <1>4 DEF DateKeys
  <2>2. DateKey(from.at) \in Nat /\ DateKey(to.at) \in Nat /\ from \in Ends /\ to \in Ends
    BY <1>1, <1>4, DayHolds
  <2>3. ASSUME Zone = 0, NEW i \in found PROVE DayKeys[i] \in days
    <3> DEFINE t == entries[i].start
    <3>1. t \in Nat /\ from.at \in Nat /\ to.at \in Nat /\ DayLength \in Nat
      BY <1>1, <1>2, <2>2, DateRangeAssumption
    <3>2. t >= Parsed(from) /\ t <= EndOfDay(to)
      BY <1>4, Zenon DEF Fetched, Matches, InRange
    <3>3. t >= from.at /\ t <= to.at + DayLength - 1
      BY <1>4, <2>3, <3>1, <3>2 DEF Parsed, EndOfDay
    <3>4. DateKey(t) >= DateKey(from.at) /\ DateKey(t) <= DateKey(to.at)
      BY <1>4, <2>2, <3>1, <3>3, NotBeforeDay
    <3> QED
      BY <1>2, <2>1, <2>2, <3>4
  <2>4. days \subseteq Nat /\ IsFiniteSet(days)
    <3>1. IsFiniteSet(DateKey(from.at) .. DateKey(to.at))
      BY <2>2, FS_Interval
    <3> QED
      BY <2>1, <2>2, <3>1
  <2> QED
    BY <2>3, <2>4
<1>5. CASE from = NoEnd \/ to = NoEnd
  <2>1. days = IF met = {} THEN {} ELSE Min(met) .. Max(met)
    BY <1>5 DEF DateKeys
  <2>2. \A i \in found : DayKeys[i] \in met
    BY <1>2
  <2>3. CASE met = {}
    BY <2>1, <2>2, <2>3, FS_EmptySet
  <2>4. CASE met # {}
    <3>1. PICK n \in Nat : \A i \in found : DayKeys[i] <= n
      BY <1>2, Bounded
    <3>2. met \subseteq Nat /\ \A d \in met : d <= n
      BY <1>2, <3>1
    <3> HIDE DEF met
    <3>3. /\ Min(met) \in Nat /\ Max(met) \in Nat
          /\ \A d \in met : Min(met) <= d /\ d <= Max(met)
      BY <2>4, <3>2, FirstAndLast
    <3>4. days = Min(met) .. Max(met)
      BY <2>1, <2>4
    <3>5. IsFiniteSet(Min(met) .. Max(met)) /\ Min(met) .. Max(met) \subseteq Nat
      BY <3>3, FS_Interval
    <3>6. \A d \in met : d \in Min(met) .. Max(met)
      BY <3>2, <3>3
    <3> QED
      BY <2>2, <3>4, <3>5, <3>6
  <2> QED
    BY <2>3, <2>4
<1> QED
  BY <1>3, <1>4, <1>5

-----------------------------------------------------------------------------
(* The workbook.                                                           *)

ShownOK(row, places, days, dur, day) ==
    /\ DOMAIN row.cells = days
    /\ \A d \in days :
          row.cells[d] = CellValue(SumFunctionOnSet(dur, {i \in places : day[i] = d}))
    /\ row.total = CellValue(SumFunctionOnSet(dur, places))

TableOK(groups, days, places, dur, day, task, who) ==
    /\ DOMAIN groups = {who[i] : i \in places}
    /\ \A p \in DOMAIN groups :
          LET own == {i \in places : who[i] = p}
          IN  /\ ShownOK(groups[p].all, own, days, dur, day)
              /\ DOMAIN groups[p].tasks = {task[i] : i \in own}
              /\ \A t \in DOMAIN groups[p].tasks :
                    ShownOK(groups[p].tasks[t], {i \in own : task[i] = t}, days, dur, day)

Reported ==
    /\ Readable(query.from, query.to)
    /\ report.people = People(query, query.employees, Fetched(query))
    /\ report.days = DateKeys(query, Fetched(query))
    /\ TableOK(report.groups, report.days, Fetched(query), Durations, DayKeys, Works, Owners)

(* The inductive invariant: the names kept for the workbook are those of   *)
(* the employees asked for, and while HR reads it each of its numbers is   *)
(* the converted sum over entries that its query finds in the table as it  *)
(* is then.                                                                *)
IInv ==
    /\ entries \in Seq(Entry)
    /\ archived \subseteq Volatile
    /\ pc \in {"idle", "fetch", "answered"}
    /\ query \in Queries \cup {NoQuery}
    /\ kept = IF pc = "fetch" THEN query.employees ELSE {}
    /\ IF Answered THEN Reported ELSE report = NoReport

LEMMA ShownRight ==
    ASSUME NEW row, NEW places, NEW days, NEW dur, NEW day, RowOK(row, places, dur, day)
    PROVE  ShownOK(Shown(row, days), places, days, dur, day)
  BY DEF RowOK, ShownOK, Shown

LEMMA WorkbookRight ==
    ASSUME entries \in Seq(Entry), NEW q, NEW names
    PROVE  LET found == Fetched(q)
           IN  /\ Workbook(q, names).people = People(q, names, found)
               /\ Workbook(q, names).days = DateKeys(q, found)
               /\ TableOK(Workbook(q, names).groups, DateKeys(q, found), found,
                          Durations, DayKeys, Works, Owners)
<1> DEFINE found == Fetched(q)
           days == DateKeys(q, found)
           pivot == Pivot(found)
           groups == Workbook(q, names).groups
<1>1. PivotOK(pivot, found, Durations, DayKeys, Works, Owners)
  BY FoundFinite, PivotRight
<1>2. /\ Workbook(q, names).people = People(q, names, found)
      /\ Workbook(q, names).days = days
      /\ groups = [g \in DOMAIN pivot |->
             [tasks |-> [t \in DOMAIN pivot[g].tasks |-> Shown(pivot[g].tasks[t], days)],
              all |-> Shown(pivot[g].all, days)]]
  BY DEF Workbook
<1> HIDE DEF days, pivot, groups
<1>3. DOMAIN groups = DOMAIN pivot
      /\ \A p \in DOMAIN pivot :
            /\ groups[p].all = Shown(pivot[p].all, days)
            /\ DOMAIN groups[p].tasks = DOMAIN pivot[p].tasks
            /\ \A t \in DOMAIN pivot[p].tasks :
                  groups[p].tasks[t] = Shown(pivot[p].tasks[t], days)
  BY <1>2
<1>4. DOMAIN groups = {Owners[i] : i \in found}
  BY <1>1, <1>3, Zenon DEF PivotOK
<1>5. ASSUME NEW p \in DOMAIN groups
      PROVE  LET own == {i \in found : Owners[i] = p}
             IN  /\ ShownOK(groups[p].all, own, days, Durations, DayKeys)
                 /\ DOMAIN groups[p].tasks = {Works[i] : i \in own}
                 /\ \A t \in DOMAIN groups[p].tasks :
                       ShownOK(groups[p].tasks[t], {i \in own : Works[i] = t}, days,
                               Durations, DayKeys)
  <2> DEFINE own == {i \in found : Owners[i] = p}
  <2>1. p \in DOMAIN pivot
    BY <1>3
  <2>2. GroupOK(pivot[p], own, Durations, DayKeys, Works)
    BY <1>1, <2>1, Zenon DEF PivotOK, At
  <2> HIDE DEF own
  <2>3. RowOK(pivot[p].all, own, Durations, DayKeys)
    BY <2>2, Zenon DEF GroupOK
  <2>4. DOMAIN pivot[p].tasks = {Works[i] : i \in own}
    BY <2>2, Zenon DEF GroupOK
  <2>5. ASSUME NEW t \in DOMAIN pivot[p].tasks
        PROVE  RowOK(pivot[p].tasks[t], {i \in own : Works[i] = t}, Durations, DayKeys)
    BY <2>2, Zenon DEF GroupOK, At
  <2>6. ShownOK(groups[p].all, own, days, Durations, DayKeys)
    <3>1. ShownOK(Shown(pivot[p].all, days), own, days, Durations, DayKeys)
      BY <2>3, ShownRight
    <3> QED
      BY <1>3, <2>1, <3>1, Zenon
  <2>7. \A t \in DOMAIN groups[p].tasks :
           ShownOK(groups[p].tasks[t], {i \in own : Works[i] = t}, days, Durations, DayKeys)
    <3>1. ASSUME NEW t \in DOMAIN groups[p].tasks
          PROVE  ShownOK(groups[p].tasks[t], {i \in own : Works[i] = t}, days,
                         Durations, DayKeys)
      <4>1. t \in DOMAIN pivot[p].tasks /\ groups[p].tasks[t] = Shown(pivot[p].tasks[t], days)
        BY <1>3, <2>1, Zenon
      <4>2. ShownOK(Shown(pivot[p].tasks[t], days), {i \in own : Works[i] = t}, days,
                    Durations, DayKeys)
        BY <2>5, <4>1, ShownRight
      <4> QED
        BY <4>1, <4>2, Zenon
    <3> QED
      BY <3>1
  <2>8. DOMAIN groups[p].tasks = {Works[i] : i \in own}
    BY <1>3, <2>1, <2>4, Zenon
  <2> QED
    BY <2>6, <2>7, <2>8, Zenon DEF own
<1>6. TableOK(groups, days, found, Durations, DayKeys, Works, Owners)
  BY <1>4, <1>5, Zenon DEF TableOK
<1> QED
  BY <1>2, <1>6 DEF groups, days

(* What a report is made of does not change while the tables do not.       *)
LEMMA ReportedKept ==
    ASSUME Reported, UNCHANGED <<entries, archived, query, report>>
    PROVE  Reported'
<1>0. entries' = entries /\ archived' = archived /\ query' = query /\ report' = report
  OBVIOUS
<1>1. /\ Durations' = Durations /\ DayKeys' = DayKeys
      /\ Works' = Works /\ Owners' = Owners
  BY <1>0 DEF Durations, DayKeys, Works, Owners, Who, Joined
<1>2. Fetched(query)' = Fetched(query)
  BY <1>0 DEF Fetched, Matches, DepartmentJoined, Who, Joined
<1>3. DateKeys(query, Fetched(query))' = DateKeys(query, Fetched(query))
  BY <1>0, <1>2 DEF DateKeys
<1> QED
  BY <1>0, <1>1, <1>2, <1>3 DEF Reported, People, Readable

-----------------------------------------------------------------------------
LEMMA InitIInv == Init => IInv
<1> SUFFICES ASSUME Init PROVE IInv
  OBVIOUS
<1>1. entries \in Seq(Entry)
  BY DEF Init
<1> QED
  BY <1>1 DEF Init, IInv, Answered

LEMMA StepIInv == IInv /\ [Next]_vars => IInv'
<1> SUFFICES ASSUME IInv, [Next]_vars PROVE IInv'
  OBVIOUS
<1>1. /\ entries \in Seq(Entry) /\ archived \subseteq Volatile
      /\ pc \in {"idle", "fetch", "answered"} /\ query \in Queries \cup {NoQuery}
      /\ kept = IF pc = "fetch" THEN query.employees ELSE {}
      /\ pc = "answered" => Reported
      /\ pc # "answered" => report = NoReport
  BY DEF IInv, Answered
<1>2. CASE \E q \in Queries : Export(q)
  <2>1. PICK q \in Queries : Export(q)
    BY <1>2
  <2>2. kept' = q.employees
    BY <2>1 DEF Export, Known
  <2> QED
    BY <1>1, <2>1, <2>2 DEF Export, IInv, Answered
<1>3. CASE Fetch
  <2>1. /\ entries' = entries /\ archived' = archived /\ query' = query
        /\ pc' = "answered" /\ report' = Workbook(query, kept) /\ kept' = {}
        /\ Readable(query.from, query.to) /\ pc = "fetch"
    BY <1>3, Zenon DEF Fetch
  <2>2. /\ report'.people = People(query, query.employees, Fetched(query))
        /\ report'.days = DateKeys(query, Fetched(query))
        /\ TableOK(report'.groups, report'.days, Fetched(query),
                   Durations, DayKeys, Works, Owners)
    BY <1>1, <2>1, WorkbookRight
  <2>3. /\ Durations' = Durations /\ DayKeys' = DayKeys
        /\ Works' = Works /\ Owners' = Owners
    BY <2>1 DEF Durations, DayKeys, Works, Owners, Who, Joined
  <2>4. Fetched(query)' = Fetched(query)
    BY <2>1 DEF Fetched, Matches, DepartmentJoined, Who, Joined
  <2>5. DateKeys(query, Fetched(query))' = DateKeys(query, Fetched(query))
    BY <2>1, <2>4 DEF DateKeys
  <2>6. Reported'
    BY <2>1, <2>2, <2>3, <2>4, <2>5 DEF Reported, People, Readable
  <2> QED
    BY <1>1, <2>1, <2>6 DEF IInv, Answered
<1>8. CASE Refuse
  BY <1>1, <1>8 DEF Refuse, IInv, Answered
<1>4. CASE Close
  BY <1>1, <1>4 DEF Close, IInv, Answered
<1>5. CASE \E e \in Inputs : Track(e)
  <2>1. PICK e \in Inputs : Track(e)
    BY <1>5
  <2>2. entries' \in Seq(Entry)
    BY <1>1, <2>1, ReportsAssumption DEF Track
  <2> QED
    BY <1>1, <2>1, <2>2 DEF Track, IInv, Answered
<1>6. CASE \E x \in Volatile : Archive(x) \/ Restore(x)
  BY <1>1, <1>6 DEF Archive, Restore, IInv, Answered
<1>7. CASE UNCHANGED vars
  <2>1. /\ entries' = entries /\ archived' = archived /\ pc' = pc
        /\ query' = query /\ kept' = kept /\ report' = report
    BY <1>7 DEF vars
  <2>2. pc = "answered" => Reported'
    BY <1>1, <2>1, ReportedKept
  <2> QED
    BY <1>1, <2>1, <2>2 DEF IInv, Answered
<1> QED
  BY <1>2, <1>3, <1>4, <1>5, <1>6, <1>7, <1>8, Zenon DEF Next

LEMMA IInvHolds == Spec => []IInv
  BY InitIInv, StepIInv, PTL DEF Spec

-----------------------------------------------------------------------------
LEMMA QueryTyped == ASSUME IInv PROVE query \in Query
  BY ReportsAssumption, NoQueryIsQuery DEF IInv

(* A person or task that is shown is not archived. *)
LEMMA IInvTypeOK == IInv => TypeOK
<1> SUFFICES ASSUME IInv PROVE TypeOK
  OBVIOUS
<1>1. report.days \subseteq Nat /\ Groups \subseteq (Employees \ archived) \cup {Null}
  <2>1. CASE Answered
    <3>1. Reported /\ entries \in Seq(Entry)
      BY <2>1 DEF IInv
    <3>2. report.days \subseteq Nat
      BY <3>1, QueryTyped, ColumnsRight DEF Reported
    <3>3. DOMAIN report.groups = {Owners[i] : i \in Fetched(query)}
      BY <3>1 DEF Reported, TableOK
    <3>4. ASSUME NEW i \in Fetched(query)
          PROVE  Owners[i] \in (Employees \ archived) \cup {Null}
      <4>1. i \in DOMAIN entries /\ entries[i] \in Entry
        BY <3>1, FoundFinite
      <4>2. entries[i].employee \in Employees /\ Owners[i] = Who(entries[i])
        BY <4>1 DEF Entry, Owners
      <4> QED
        BY <4>2 DEF Who, Joined
    <3> QED
      BY <3>2, <3>3, <3>4 DEF Groups
  <2>2. CASE ~Answered
    BY <2>2 DEF IInv, NoReport, Groups
  <2> QED
    BY <2>1, <2>2
<1>2. kept \subseteq Employees
  BY QueryTyped DEF IInv, Query
<1> QED
  BY <1>1, <1>2 DEF IInv, TypeOK

(* Reports.TypeOK: the database, the request and the workbook have their   *)
(* types, and a workbook has no table of an employee archived by the time  *)
(* of its query, also not of one asked for while active (the two database  *)
(* calls of buildExportWorkbook(), reports.service.ts).                    *)
THEOREM TypeCorrect == Spec => []TypeOK
  BY IInvHolds, IInvTypeOK, PTL

LEMMA IInvPeople == IInv => PeopleCovered
<1> SUFFICES ASSUME IInv, Answered PROVE PeopleCovered
  BY DEF PeopleCovered
<1> DEFINE people == report.people
           found == Fetched(query)
<1>1. Reported /\ entries \in Seq(Entry) /\ query \in Query
  BY QueryTyped DEF IInv
<1>2. /\ people.employees = query.employees
      /\ people.department = IF query.employees = {} THEN query.department ELSE Null
      /\ people.named => query.employees = {} /\ query.department # Null /\ found # {}
  <2> DEFINE named == query.employees = {} /\ query.department # Null /\ found # {}
  <2> HIDE DEF named
  <2>1. people = [employees |-> query.employees,
                  department |-> IF query.employees = {} THEN query.department ELSE Null,
                  named |-> named]
    BY <1>1, Zenon DEF Reported, People, named
  <2>2. /\ people.employees = query.employees
        /\ people.department = IF query.employees = {} THEN query.department ELSE Null
        /\ people.named = named
    BY <2>1
  <2> QED
    BY <2>2, Zenon DEF named
<1>3. Groups = {Owners[i] : i \in found}
  BY <1>1, Zenon DEF Reported, TableOK, Groups
<1>4. ASSUME NEW i \in found
      PROVE  /\ query.employees # {} => Owners[i] \in query.employees
             /\ query.department # Null =>
                   /\ Owners[i] \in Employees /\ DepartmentOf[Owners[i]] = query.department
                   /\ query.department \notin archived
  <2>1. i \in DOMAIN entries /\ entries[i] \in Entry /\ Matches(entries[i], query)
    BY <1>1, FoundFinite DEF Fetched
  <2>2. Owners[i] = Who(entries[i]) /\ entries[i].employee \in Employees
    BY <2>1 DEF Owners, Entry
  <2>3. query.employees # {} => Who(entries[i]) \in query.employees
    BY <2>1 DEF Matches
  <2>4. ASSUME query.department # Null
        PROVE  /\ Who(entries[i]) = entries[i].employee
               /\ DepartmentOf[entries[i].employee] = query.department
               /\ query.department \notin archived
    <3>1. DepartmentJoined(entries[i]) = query.department
      BY <2>1, <2>4 DEF Matches
    <3> QED
      BY <2>4, <3>1 DEF DepartmentJoined, Who, Joined
  <2> QED
    BY <2>2, <2>3, <2>4
<1>5. people.employees # {} => Groups \subseteq people.employees
  BY <1>2, <1>3, <1>4
<1>6. people.department # Null =>
         \A g \in Groups : g \in Employees /\ DepartmentOf[g] = people.department
  BY <1>2, <1>3, <1>4
<1>7. people.named => people.department \notin archived
  BY <1>2, <1>4
<1> QED
  BY <1>2, <1>5, <1>6, <1>7 DEF PeopleCovered

(* Reports.PeopleCovered: the People cell, whose names are those the first *)
(* database call found, tells what the tables of the second show, whatever *)
(* was archived or restored between the two (peopleLabel in                *)
(* buildExportWorkbook(), reports.service.ts).                             *)
THEOREM PeopleAlwaysCovered == Spec => []PeopleCovered
  BY IInvHolds, IInvPeople, PTL

-----------------------------------------------------------------------------
(* The sums. *)

LEMMA KeysFinite ==
    ASSUME NEW S, IsFiniteSet(S), NEW key
    PROVE  IsFiniteSet({key[i] : i \in S})
<1> DEFINE T == {key[i] : i \in S}
           f == [i \in S |-> key[i]]
<1>1. f \in Surjection(S, T)
  BY DEF Surjection
<1> QED
  BY <1>1, FS_Surjection

(* What the cells of a table show of a sum of s seconds: m minutes and h   *)
(* hundredths of an hour, in k cells that show any time at all.            *)
Within(s, m, h, k) ==
    /\ s \in Nat /\ m \in Int /\ h \in Int /\ k \in Nat
    /\ 60 * m <= s /\ s <= 60 * m + 59 * k
    /\ 36 * h <= s + 18 * k /\ s <= 36 * h + 18 * k
    /\ k > 0 <=> s > 0

LEMMA CellRounds ==
    ASSUME NEW s \in Nat
    PROVE  /\ CellValue(s).some = (s > 0)
           /\ Within(s, CellValue(s).minutes, CellValue(s).hundredths, IF s > 0 THEN 1 ELSE 0)
<1>1. /\ CellValue(s).some = (s > 0)
      /\ CellValue(s).minutes = s \div 60 /\ CellValue(s).hundredths = Hundredths(s)
  BY DEF CellValue
<1>2. s \div 60 \in Int /\ 60 * (s \div 60) <= s /\ s <= 60 * (s \div 60) + 59
      /\ s = 0 => s \div 60 = 0
  OBVIOUS
<1>3. /\ Hundredths(s) \in Int /\ 36 * Hundredths(s) <= s + 18 /\ s <= 36 * Hundredths(s) + 18
      /\ s = 0 => Hundredths(s) = 0
  BY DEF Hundredths
<1>4. Within(s, s \div 60, Hundredths(s), IF s > 0 THEN 1 ELSE 0)
  <2> DEFINE m == s \div 60
             h == Hundredths(s)
             k == IF s > 0 THEN 1 ELSE 0
  <2>1. k \in Nat /\ (k > 0 <=> s > 0) /\ (s = 0 \/ k = 1)
    OBVIOUS
  <2> HIDE DEF m, h, k
  <2>2. /\ m \in Int /\ 60 * m <= s /\ s <= 60 * m + 59 /\ (s = 0 => m = 0)
        /\ h \in Int /\ 36 * h <= s + 18 /\ s <= 36 * h + 18 /\ (s = 0 => h = 0)
    BY <1>2, <1>3 DEF m, h
  <2>3. Within(s, m, h, k)
    BY <2>1, <2>2 DEF Within
  <2> QED
    BY <2>3, Zenon DEF m, h, k
<1> QED
  BY <1>1, <1>4, Zenon

LEMMA WithinMore ==
    ASSUME NEW s, NEW m, NEW h, NEW k, Within(s, m, h, k),
           NEW t, NEW n, NEW i, NEW j, Within(t, n, i, j)
    PROVE  Within(t + s, n + m, i + h, j + k)
  BY DEF Within

(* For each set of the cells: what they show.                              *)
LEMMA CellsWithin ==
    ASSUME NEW K, IsFiniteSet(K), NEW f, \A x \in K : f[x] \in Nat,
           NEW cells, \A x \in K : cells[x] = CellValue(f[x]),
           NEW mins, \A x \in K : mins[x] = cells[x].minutes,
           NEW hunds, \A x \in K : hunds[x] = cells[x].hundredths
    PROVE  Within(SumFunctionOnSet(f, K), SumFunctionOnSet(mins, K),
                  SumFunctionOnSet(hunds, K), Cardinality({x \in K : cells[x].some}))
<1> DEFINE Used(L) == {x \in L : f[x] > 0}
           OK(L) == Within(SumFunctionOnSet(f, L), SumFunctionOnSet(mins, L),
                           SumFunctionOnSet(hunds, L), Cardinality(Used(L)))
           Bad == {L \in SUBSET K : ~OK(L)}
<1>1. ASSUME Bad # {} PROVE FALSE
  <2>1. PICK L \in Bad : \A M \in Bad : ~(M \subseteq L /\ M # L)
    <3>1. Bad \subseteq SUBSET K
      OBVIOUS
    <3> HIDE DEF Bad
    <3> QED
      BY <1>1, <3>1, SmallestSubset
  <2>2. L # {}
    <3>1. Used({}) = {} /\ Cardinality({}) = 0
      BY FS_EmptySet
    <3>2. OK({})
      BY <3>1, SumOfNone DEF Within
    <3> HIDE DEF OK
    <3> QED
      BY <2>1, <3>2
  <2> DEFINE x == Some(L)
             M == L \ {x}
  <2>3. x \in L
    BY <2>2, SomeIsMember
  <2>4. IsFiniteSet(L) /\ IsFiniteSet(Used(M))
    BY FS_Subset
  <2>5. /\ SumFunctionOnSet(f, L) = f[x] + SumFunctionOnSet(f, M)
        /\ SumFunctionOnSet(mins, L) = mins[x] + SumFunctionOnSet(mins, M)
        /\ SumFunctionOnSet(hunds, L) = hunds[x] + SumFunctionOnSet(hunds, M)
    BY <2>2, <2>4, SumStep
  <2> HIDE DEF x
  <2>6. OK(M)
    <3> HIDE DEF OK
    <3> QED
      BY <2>1, <2>3
  <2>7. Within(f[x], mins[x], hunds[x], IF f[x] > 0 THEN 1 ELSE 0)
    <3>1. f[x] \in Nat /\ mins[x] = CellValue(f[x]).minutes
          /\ hunds[x] = CellValue(f[x]).hundredths
      BY <2>3
    <3> QED
      BY <3>1, CellRounds, Zenon
  <2>8. Cardinality(Used(L)) = (IF f[x] > 0 THEN 1 ELSE 0) + Cardinality(Used(M))
    <3>1. CASE f[x] > 0
      <4>1. Used(L) = Used(M) \cup {x} /\ x \notin Used(M)
        BY <2>3, <3>1
      <4> HIDE DEF Used
      <4>2. Cardinality(Used(M) \cup {x}) = Cardinality(Used(M)) + 1
            /\ Cardinality(Used(M)) \in Nat
        BY <2>4, <4>1, FS_AddElement, FS_CardinalityType
      <4> QED
        BY <3>1, <4>1, <4>2
    <3>2. CASE ~(f[x] > 0)
      <4>1. Used(L) = Used(M)
        BY <2>3, <3>2
      <4>2. Cardinality(Used(M)) \in Nat
        BY <2>4, FS_CardinalityType
      <4> HIDE DEF Used
      <4> QED
        BY <3>2, <4>1, <4>2
    <3> QED
      BY <3>1, <3>2
  <2>9. OK(L)
    <3> DEFINE one == IF f[x] > 0 THEN 1 ELSE 0
    <3> HIDE DEF M, one, Used
    <3>1. Within(f[x] + SumFunctionOnSet(f, M), mins[x] + SumFunctionOnSet(mins, M),
                 hunds[x] + SumFunctionOnSet(hunds, M), one + Cardinality(Used(M)))
      BY <2>6, <2>7, WithinMore, Zenon DEF one
    <3> QED
      BY <2>5, <2>8, <3>1, Zenon DEF one
  <2> HIDE DEF OK
  <2> QED
    BY <2>1, <2>9
<1>2. OK(K)
  BY <1>1
<1>3. \A x \in K : cells[x].some = (f[x] > 0)
  BY CellRounds
<1>4. {x \in K : cells[x].some} = Used(K)
  BY <1>3, Zenon
<1> QED
  BY <1>2, <1>4, Zenon

(* Cells converted one by one, and a total converted from the sum.         *)
LEMMA RoundedAddsUp ==
    ASSUME NEW cells, IsFiniteSet(DOMAIN cells), NEW f,
           \A x \in DOMAIN cells : f[x] \in Nat /\ cells[x] = CellValue(f[x])
    PROVE  AddsUp(CellValue(SumFunctionOnSet(f, DOMAIN cells)), cells)
<1> DEFINE K == DOMAIN cells
           mins == [x \in K |-> cells[x].minutes]
           hunds == [x \in K |-> cells[x].hundredths]
           s == SumFunctionOnSet(f, K)
           m == SumFunctionOnSet(mins, K)
           h == SumFunctionOnSet(hunds, K)
           k == Cardinality({x \in K : cells[x].some})
           total == CellValue(s)
<1>1. Within(s, m, h, k)
  BY CellsWithin
<1>2. SumFunction(mins) = m /\ SumFunction(hunds) = h
  <2>1. DOMAIN mins = K /\ DOMAIN hunds = K
    OBVIOUS
  <2> QED
    BY <2>1, Zenon DEF SumFunction
<1> HIDE DEF s, m, h, k, mins, hunds
<1>3. s \in Nat
  BY <1>1 DEF Within
<1>4. /\ total.some = (s > 0)
      /\ Within(s, total.minutes, total.hundredths, IF s > 0 THEN 1 ELSE 0)
  BY <1>3, CellRounds
<1> HIDE DEF total
<1>5. total.some <=> k > 0
  <2>1. k > 0 <=> s > 0
    BY <1>1 DEF Within
  <2> QED
    BY <1>4, <2>1, Zenon
<1>6. 0 <= total.minutes - m /\ (total.minutes - m > 0 => total.minutes - m < k)
  BY <1>1, <1>4 DEF Within
<1>7. -(k + 1) <= 2 * (total.hundredths - h) /\ 2 * (total.hundredths - h) <= k + 1
  BY <1>1, <1>4 DEF Within
<1> QED
  BY <1>2, <1>5, <1>6, <1>7, Zenon DEF AddsUp, total, s, k, mins, hunds

(* The cells of a row add up to its total if each of its days is a column. *)
LEMMA RowAddsUp ==
    ASSUME NEW row, NEW places, IsFiniteSet(places), NEW days, IsFiniteSet(days),
           NEW dur, \A i \in places : dur[i] \in Nat,
           NEW day, \A i \in places : day[i] \in days,
           ShownOK(row, places, days, dur, day)
    PROVE  AddsUp(row.total, row.cells)
<1> DEFINE Of(d) == {i \in places : day[i] = d}
           f == [d \in days |-> SumFunctionOnSet(dur, Of(d))]
<1>1. \A d \in days : f[d] \in Nat /\ f[d] = SumFunctionOnSet(dur, Of(d))
  <2>1. ASSUME NEW d \in days PROVE SumFunctionOnSet(dur, Of(d)) \in Nat
    <3>1. IsFiniteSet(Of(d)) /\ \A i \in Of(d) : dur[i] \in Nat
      BY FS_Subset
    <3> HIDE DEF Of
    <3> QED
      BY <3>1, SumIsNumber
  <2> QED
    BY <2>1
<1> HIDE DEF f
<1>2. SumFunctionOnSet(dur, places) = SumFunctionOnSet(f, days)
  BY <1>1, SumByKey
<1>3. DOMAIN row.cells = days /\ \A d \in days : row.cells[d] = CellValue(f[d])
  BY <1>1, Zenon DEF ShownOK
<1>4. AddsUp(CellValue(SumFunctionOnSet(f, days)), row.cells)
  <2>1. /\ DOMAIN row.cells = days /\ IsFiniteSet(DOMAIN row.cells)
        /\ \A d \in DOMAIN row.cells : f[d] \in Nat /\ row.cells[d] = CellValue(f[d])
    BY <1>1, <1>3, Zenon
  <2>2. AddsUp(CellValue(SumFunctionOnSet(f, DOMAIN row.cells)), row.cells)
    BY <2>1, RoundedAddsUp, Zenon
  <2> QED
    BY <2>1, <2>2, Zenon
<1> QED
  BY <1>2, <1>4, Zenon DEF ShownOK

(* The rows of a group, each for the places of its task, add up.           *)
LEMMA RowsAddUp ==
    ASSUME NEW places, IsFiniteSet(places), NEW dur, \A i \in places : dur[i] \in Nat,
           NEW S, S \subseteq places,
           NEW task, NEW parts, DOMAIN parts = {task[i] : i \in places},
           \A t \in DOMAIN parts :
              parts[t] = CellValue(SumFunctionOnSet(dur, {i \in S : task[i] = t}))
    PROVE  AddsUp(CellValue(SumFunctionOnSet(dur, S)), parts)
<1> DEFINE tasks == DOMAIN parts
           Of(t) == {i \in S : task[i] = t}
           f == [t \in tasks |-> SumFunctionOnSet(dur, Of(t))]
<1>1. IsFiniteSet(tasks) /\ IsFiniteSet(S) /\ \A i \in S : dur[i] \in Nat /\ task[i] \in tasks
  BY KeysFinite, FS_Subset
<1>2. \A t \in tasks : f[t] \in Nat /\ f[t] = SumFunctionOnSet(dur, Of(t))
  <2>1. ASSUME NEW t \in tasks PROVE SumFunctionOnSet(dur, Of(t)) \in Nat
    <3>1. IsFiniteSet(Of(t)) /\ \A i \in Of(t) : dur[i] \in Nat
      BY <1>1, FS_Subset
    <3> HIDE DEF Of
    <3> QED
      BY <3>1, SumIsNumber
  <2> QED
    BY <2>1
<1> HIDE DEF f
<1>3. SumFunctionOnSet(dur, S) = SumFunctionOnSet(f, tasks)
  <2> HIDE DEF tasks
  <2> QED
    BY <1>1, <1>2, SumByKey
<1>4. \A t \in tasks : parts[t] = CellValue(f[t])
  BY <1>2, Zenon
<1>5. AddsUp(CellValue(SumFunctionOnSet(f, tasks)), parts)
  BY <1>1, <1>2, <1>4, RoundedAddsUp
<1> QED
  BY <1>3, <1>5, Zenon

LEMMA IInvAddsUp == ASSUME Zone = 0, IInv PROVE TablesAddUp
<1> SUFFICES ASSUME NEW g \in Groups
    PROVE LET tasks == report.groups[g].tasks
              all   == report.groups[g].all
          IN  /\ HasDays => \A row \in {tasks[t] : t \in DOMAIN tasks} \cup {all} :
                               AddsUp(row.total, row.cells)
              /\ \A d \in report.days :
                    AddsUp(all.cells[d], [t \in DOMAIN tasks |-> tasks[t].cells[d]])
              /\ AddsUp(all.total, [t \in DOMAIN tasks |-> tasks[t].total])
  BY Zenon DEF TablesAddUp
<1> DEFINE tasks == report.groups[g].tasks
           all == report.groups[g].all
           found == Fetched(query)
           own == {i \in found : Owners[i] = g}
           days == report.days
<1>1. Answered
  BY DEF IInv, NoReport, Groups
<1>2. entries \in Seq(Entry) /\ Reported
  BY <1>1 DEF IInv
<1>3. /\ IsFiniteSet(own) /\ own \subseteq found
      /\ \A i \in own : Durations[i] \in Nat
  BY <1>2, FoundFinite, FS_Subset
<1>4. IsFiniteSet(days) /\ (HasDays => \A i \in own : DayKeys[i] \in days)
  BY <1>2, <1>3, QueryTyped, ColumnsRight DEF Reported
<1>5. /\ ShownOK(all, own, days, Durations, DayKeys)
      /\ DOMAIN tasks = {Works[i] : i \in own}
      /\ \A t \in DOMAIN tasks :
            ShownOK(tasks[t], {i \in own : Works[i] = t}, days, Durations, DayKeys)
  BY <1>2, Zenon DEF Reported, TableOK, Groups
<1> HIDE DEF tasks, all, own, days
<1>6. ASSUME HasDays, NEW row \in {tasks[t] : t \in DOMAIN tasks} \cup {all}
      PROVE  AddsUp(row.total, row.cells)
  <2>1. CASE row = all
    BY <1>3, <1>4, <1>5, <1>6, <2>1, RowAddsUp
  <2>2. CASE row \in {tasks[t] : t \in DOMAIN tasks}
    <3>1. PICK t \in DOMAIN tasks : row = tasks[t]
      BY <2>2
    <3> DEFINE mine == {i \in own : Works[i] = t}
    <3>2. ShownOK(row, mine, days, Durations, DayKeys)
      BY <1>5, <3>1
    <3>3. /\ IsFiniteSet(mine)
          /\ \A i \in mine : Durations[i] \in Nat /\ DayKeys[i] \in days
      BY <1>3, <1>4, <1>6, FS_Subset
    <3> HIDE DEF mine
    <3> QED
      BY <1>4, <3>2, <3>3, RowAddsUp
  <2> QED
    BY <2>1, <2>2
<1>7. ASSUME NEW d \in days
      PROVE  AddsUp(all.cells[d], [t \in DOMAIN tasks |-> tasks[t].cells[d]])
  <2> DEFINE S == {i \in own : DayKeys[i] = d}
             parts == [t \in DOMAIN tasks |-> tasks[t].cells[d]]
  <2>1. all.cells[d] = CellValue(SumFunctionOnSet(Durations, S))
    BY <1>5, Zenon DEF ShownOK
  <2>2. ASSUME NEW t \in DOMAIN tasks
        PROVE  parts[t] = CellValue(SumFunctionOnSet(Durations, {i \in S : Works[i] = t}))
    <3> DEFINE mine == {i \in own : Works[i] = t}
    <3>1. tasks[t].cells[d]
             = CellValue(SumFunctionOnSet(Durations, {i \in mine : DayKeys[i] = d}))
      BY <1>5, Zenon DEF ShownOK
    <3>2. {i \in mine : DayKeys[i] = d} = {i \in S : Works[i] = t}
      OBVIOUS
    <3> QED
      BY <3>1, <3>2
  <2>3. /\ S \subseteq own /\ DOMAIN parts = {Works[i] : i \in own}
        /\ \A t \in DOMAIN parts :
              parts[t] = CellValue(SumFunctionOnSet(Durations, {i \in S : Works[i] = t}))
    BY <1>5, <2>2
  <2> HIDE DEF S, parts
  <2>4. AddsUp(CellValue(SumFunctionOnSet(Durations, S)), parts)
    BY <1>3, <2>3, RowsAddUp
  <2> QED
    BY <2>1, <2>4, Zenon DEF parts
<1>8. AddsUp(all.total, [t \in DOMAIN tasks |-> tasks[t].total])
  <2> DEFINE parts == [t \in DOMAIN tasks |-> tasks[t].total]
  <2>1. all.total = CellValue(SumFunctionOnSet(Durations, own))
    BY <1>5, Zenon DEF ShownOK
  <2>2. ASSUME NEW t \in DOMAIN tasks
        PROVE  parts[t] = CellValue(SumFunctionOnSet(Durations, {i \in own : Works[i] = t}))
    BY <1>5 DEF ShownOK
  <2>3. /\ own \subseteq own /\ DOMAIN parts = {Works[i] : i \in own}
        /\ \A t \in DOMAIN parts :
              parts[t] = CellValue(SumFunctionOnSet(Durations, {i \in own : Works[i] = t}))
    BY <1>5, <2>2
  <2> HIDE DEF parts
  <2>4. AddsUp(CellValue(SumFunctionOnSet(Durations, own)), parts)
    BY <1>3, <2>3, RowsAddUp
  <2> QED
    BY <2>1, <2>4, Zenon DEF parts
<1> QED
  BY <1>6, <1>7, <1>8 DEF tasks, all, days

(* Reports.TablesAddUp: but for the rounding of each cell and total, the   *)
(* cells of a row add up to its total, no time being in a day without a    *)
(* column, and the rows of an employee to the employee's (buildPivot(),    *)
(* enumerateDateKeys(), cellValue() in writePivotTable()), if the database *)
(* reads the dates of a range in UTC.                                      *)
THEOREM TablesAlwaysAddUp == ASSUME Zone = 0 PROVE Spec => []TablesAddUp
<1>1. IInv => TablesAddUp
  BY IInvAddsUp
<1> QED
  BY <1>1, IInvHolds, PTL

LEMMA IInvComplete == ASSUME Zone = 0, IInv PROVE HoursComplete
<1> DEFINE found == Fetched(query)
           daysOf == {Day(e.start) : e \in ToSet(entries)}
<1> SUFFICES ASSUME Answered, NEW g \in Employees \cup {Null}, NEW t \in Tasks \cup {Null}
    PROVE /\ Total(g, t) = CellValue(Worked(g, t, daysOf))
          /\ HasDays => \A d \in report.days \cup daysOf :
                           Cell(g, t, d) = CellValue(Worked(g, t, {d}))
  BY Zenon DEF HoursComplete
<1> DEFINE own == {i \in found : Owners[i] = g}
           mine == {i \in own : Works[i] = t}
           days == report.days
<1>1. entries \in Seq(Entry) /\ Reported
  BY DEF IInv
<1>2. found \subseteq DOMAIN entries /\ \A i \in DOMAIN entries : entries[i] \in Entry
  BY <1>1, FoundFinite
<1>3. HasDays => \A i \in found : DayKeys[i] \in days
  BY <1>1, QueryTyped, ColumnsRight DEF Reported
(* What was worked on the days D is the sum over the places found.         *)
<1>4. ASSUME NEW D
      PROVE  Worked(g, t, D) = SumFunctionOnSet(Durations, {i \in mine : DayKeys[i] \in D})
  <2> DEFINE W == {i \in DOMAIN entries : /\ Asked(entries[i])
                                          /\ Who(entries[i]) = g
                                          /\ Joined(entries[i].task) = t
                                          /\ Day(entries[i].start) \in D}
  <2>1. Worked(g, t, D) = SumFunctionOnSet(Durations, W)
    BY DEF Worked, Durations
  <2>2. ASSUME NEW i \in DOMAIN entries
        PROVE  /\ i \in found <=> Asked(entries[i])
               /\ Owners[i] = Who(entries[i]) /\ Works[i] = Joined(entries[i].task)
               /\ DayKeys[i] = Day(entries[i].start)
    <3>1. Matches(entries[i], query) <=> Asked(entries[i])
      BY <1>1, <1>2, QueryTyped, MatchesAsked DEF Reported
    <3> QED
      BY <3>1 DEF Fetched, Owners, Works, DayKeys, DateKey, Day
  <2>3. W = {i \in mine : DayKeys[i] \in D}
    BY <1>2, <2>2
  <2> QED
    BY <2>1, <2>3
<1>5. DOMAIN report.groups = {Owners[i] : i \in found}
  BY <1>1, Zenon DEF Reported, TableOK
<1>6. ASSUME g \in Groups
      PROVE  /\ DOMAIN report.groups[g].tasks = {Works[i] : i \in own}
             /\ \A k \in DOMAIN report.groups[g].tasks :
                   ShownOK(report.groups[g].tasks[k], {i \in own : Works[i] = k}, days,
                           Durations, DayKeys)
  BY <1>1, <1>6, Zenon DEF Reported, TableOK, Groups
<1>7. ASSUME ~Shows(g, t) PROVE mine = {}
  <2>1. CASE g \notin Groups
    BY <1>5, <2>1 DEF Groups
  <2>2. CASE g \in Groups
    BY <1>6, <1>7, <2>2 DEF Shows
  <2> QED
    BY <2>1, <2>2
<1>8. ASSUME Shows(g, t)
      PROVE  ShownOK(report.groups[g].tasks[t], mine, days, Durations, DayKeys)
  BY <1>6, <1>8, Zenon DEF Shows
<1> HIDE DEF mine
<1>9. Total(g, t) = CellValue(Worked(g, t, daysOf))
  <2>1. \A i \in mine : DayKeys[i] \in daysOf
    BY <1>2 DEF mine, DayKeys, DateKey, Day, ToSet
  <2>2. {i \in mine : DayKeys[i] \in daysOf} = mine
    BY <2>1
  <2>3. Worked(g, t, daysOf) = SumFunctionOnSet(Durations, mine)
    BY <1>4, <2>2
  <2>4. CASE Shows(g, t)
    <3>1. report.groups[g].tasks[t].total = CellValue(SumFunctionOnSet(Durations, mine))
      BY <1>8, <2>4, Zenon DEF ShownOK
    <3>2. Total(g, t) = report.groups[g].tasks[t].total
      BY <2>4, Zenon DEF Total
    <3> QED
      BY <2>3, <3>1, <3>2, Zenon
  <2>5. CASE ~Shows(g, t)
    BY <1>7, <2>3, <2>5, SumOfNone DEF Total
  <2> QED
    BY <2>4, <2>5
<1>10. ASSUME HasDays, NEW d \in report.days \cup daysOf
       PROVE  Cell(g, t, d) = CellValue(Worked(g, t, {d}))
  <2> DEFINE S == {i \in mine : DayKeys[i] = d}
  <2>1. {i \in mine : DayKeys[i] \in {d}} = S
    OBVIOUS
  <2>2. Worked(g, t, {d}) = SumFunctionOnSet(Durations, S)
    BY <1>4, <2>1
  <2>3. CASE Shows(g, t) /\ d \in days
    BY <1>8, <2>2, <2>3, Zenon DEF Cell, ShownOK
  <2>4. CASE ~(Shows(g, t) /\ d \in days)
    <3>1. S = {}
      <4>1. CASE ~Shows(g, t)
        BY <1>7, <4>1
      <4>2. CASE d \notin days
        BY <1>3, <1>10, <4>2 DEF mine
      <4> QED
        BY <2>4, <4>1, <4>2
    <3>2. Cell(g, t, d) = CellValue(0)
      BY <2>4 DEF Cell
    <3> QED
      BY <2>2, <3>1, <3>2, SumOfNone
  <2> QED
    BY <2>3, <2>4
<1> QED
  BY <1>9, <1>10

(* Reports.HoursComplete: each entry asked for is in the row of its        *)
(* employee and task and the cell of its day, once, and nothing else is    *)
(* (toInclusiveEndOfDay(), enumerateDateKeys(), buildPivot(), cellValue() *)
(* of the sum), if the database reads the dates of a range in UTC.         *)
THEOREM HoursAreComplete == ASSUME Zone = 0 PROVE Spec => []HoursComplete
<1>1. IInv => HoursComplete
  BY IInvComplete
<1> QED
  BY <1>1, IInvHolds, PTL
=============================================================================
