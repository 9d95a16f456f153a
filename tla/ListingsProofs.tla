---------------------------- MODULE ListingsProofs ----------------------------
(***************************************************************************)
(* Theorems of Listings for every number of tables and rows, every page    *)
(* size and any writes during a walk.  The argument counts: the rows ahead *)
(* of a row in the order of the list (Ahead) are its place, and a page     *)
(* shows the places from (page - 1) * limit on, limit of them.  Unless     *)
(* rows leave the list, a row that is still to be shown never has fewer    *)
(* ahead than the pages so far have shown; unless rows enter it, a row     *)
(* that was shown never has as many.                                       *)
(***************************************************************************)
EXTENDS Listings, FiniteSetTheorems, SequenceTheorems, TLAPS

Labels == {"idle", "ask", "load", "fetch", "count", "done"}
Shown == [id: Nat, table: TableNames, at: Nat]

Before(a, items) == {x \in items \ {a} : NewestFirst(x, a)}
Ahead(a, items) == Cardinality(Before(a, items))

(* What makes places definite: no other item of the table has the stamp,   *)
(* unless the properties except the item.                                  *)
SameStamp(x, y) == x # y /\ x.table = y.table /\ x.at = y.at
TiesIn(items, except) == \A x, y \in items : SameStamp(x, y) => x.id \in except
OneEach(items) == \A x, y \in items : x.id = y.id => x = y
IdsOf(items) == {x.id : x \in items}

(* The list as it is, and as the request at hand will have read it.        *)
Listed == Items(view, TableNames)
Pool == loaded \cup Items(view, pending)

-----------------------------------------------------------------------------
(* Arithmetic of pages. *)

LEMMA MinOf ==
  ASSUME NEW a \in Int, NEW b \in Int
  PROVE  Min({a, b}) = IF a <= b THEN a ELSE b
<1>1. CASE a <= b
  <2>1. \A x \in {a, b} : (\A y \in {a, b} : x =< y) => x = a
    BY <1>1
  <2> QED
    BY <1>1, <2>1 DEF Min
<1>2. CASE ~(a <= b)
  <2>1. \A x \in {a, b} : (\A y \in {a, b} : x =< y) => x = b
    BY <1>2
  <2> QED
    BY <1>2, <2>1 DEF Min
<1> QED
  BY <1>1, <1>2

LEMMA MaxOf ==
  ASSUME NEW a \in Int, NEW b \in Int
  PROVE  Max({a, b}) = IF a >= b THEN a ELSE b
<1>1. CASE a >= b
  <2>1. \A x \in {a, b} : (\A y \in {a, b} : x >= y) => x = a
    BY <1>1
  <2> QED
    BY <1>1, <2>1 DEF Max
<1>2. CASE ~(a >= b)
  <2>1. \A x \in {a, b} : (\A y \in {a, b} : x >= y) => x = b
    BY <1>2
  <2> QED
    BY <1>2, <2>1 DEF Max
<1> QED
  BY <1>1, <1>2

LEMMA PageEnds ==
  ASSUME NEW p \in Nat, NEW limit \in 1 .. 100
  PROVE  /\ p * limit \in Nat
         /\ (p - 1) * limit = p * limit - limit
         /\ (p + 1 - 1) * limit = p * limit
         /\ p > 0 => (p - 1) * limit \in Nat
BY SMTT(30)

(* The rounding up of buildPaginatedResult(): after the last page nothing  *)
(* is left.                                                                *)
LEMMA LastPage ==
  ASSUME NEW p \in Nat, NEW total \in Nat, view.limit \in 1 .. 100
  PROVE  p < TotalPages(total) <=> p * view.limit < total
<1> DEFINE limit == view.limit
           n == total + limit - 1
           q == n \div limit
<1>1. limit \in 1 .. 100 /\ n \in Nat
  OBVIOUS
<1> HIDE DEF limit
<1>2. q \in Nat /\ limit * q <= n /\ n < limit * q + limit
  BY <1>1, SMTT(30)
<1>3. TotalPages(total) = q
  BY DEF TotalPages, limit
<1> HIDE DEF q
<1>4. limit * q < total + limit /\ total <= limit * q
  BY <1>1, <1>2
<1>5. CASE p < q
  <2>1. p + 1 <= q
    BY <1>2, <1>5
  <2>2. (p + 1) * limit <= q * limit
    BY <1>1, <1>2, <2>1, SMTT(30)
  <2>3. (p + 1) * limit = p * limit + limit /\ p * limit \in Nat
    BY <1>1, SMTT(30)
  <2> QED
    BY <1>1, <1>2, <1>3, <1>4, <1>5, <2>2, <2>3 DEF limit
<1>6. CASE ~(p < q)
  <2>1. q * limit <= p * limit /\ p * limit \in Nat
    BY <1>1, <1>2, <1>6, SMTT(30)
  <2> QED
    BY <1>1, <1>2, <1>3, <1>4, <1>6, <2>1 DEF limit
<1> QED
  BY <1>5, <1>6

-----------------------------------------------------------------------------
(* Orders and places. *)

LEMMA Ranked ==
  ASSUME NEW t \in TableNames
  PROVE  Rank(t) \in Nat /\ Tables[Rank(t)] = t
<1>1. \E k \in DOMAIN Tables : Tables[k] = t
  BY DEF TableNames, ToSet
<1>2. Rank(t) \in DOMAIN Tables /\ Tables[Rank(t)] = t
  BY <1>1 DEF Rank
<1>3. DOMAIN Tables \subseteq Nat
  BY ListingsAssumption, LenProperties
<1> QED
  BY <1>2, <1>3

(* Two items that may come in either order have one stamp and one table.   *)
LEMMA Tied ==
  ASSUME NEW x \in Shown, NEW y \in Shown, NewestFirst(x, y), NewestFirst(y, x)
  PROVE  x.table = y.table /\ x.at = y.at
<1>1. /\ x.at \in Nat /\ y.at \in Nat
      /\ Rank(x.table) \in Nat /\ Rank(y.table) \in Nat
      /\ Tables[Rank(x.table)] = x.table /\ Tables[Rank(y.table)] = y.table
  BY Ranked DEF Shown
<1>2. x.at = y.at /\ Rank(x.table) = Rank(y.table)
  BY <1>1 DEF NewestFirst
<1> QED
  BY <1>1, <1>2

LEMMA Ordered ==
  ASSUME NEW items, IsFiniteSet(items), NEW s \in Orders(items)
  PROVE  /\ Cardinality(items) \in Nat
         /\ s \in [1 .. Cardinality(items) -> items]
         /\ Len(s) = Cardinality(items)
         /\ \A i, j \in 1 .. Cardinality(items) : s[i] = s[j] => i = j
         /\ items = {s[i] : i \in 1 .. Cardinality(items)}
         /\ \A i, j \in 1 .. Cardinality(items) : i < j => NewestFirst(s[i], s[j])
<1> DEFINE n == Cardinality(items)
<1>1. n \in Nat
  BY FS_CardinalityType
<1>2. /\ s \in [1 .. n -> items]
      /\ \A i, j \in 1 .. n : i # j => s[i] # s[j]
      /\ \A i, j \in DOMAIN s : i < j => NewestFirst(s[i], s[j])
  BY DEF Orders, SetToSeqs
<1> HIDE DEF n
<1>3. s \in Injection(1 .. n, items)
  BY <1>2 DEF Injection, IsInjective
<1>4. Cardinality(1 .. n) = n
  BY <1>1, FS_Interval
<1>5. s \in Surjection(1 .. n, items)
  BY <1>3, <1>4, FS_Injection DEF n
<1>6. items = {s[i] : i \in 1 .. n}
  BY <1>2, <1>5 DEF Surjection
<1>7. Len(s) = n
  BY <1>1, <1>2
<1> QED
  BY <1>1, <1>2, <1>6, <1>7 DEF n

(* The place of an item that shares its stamp with no other of its table   *)
(* is the number of items ahead of it, in whichever order.                 *)
LEMMA Place ==
  ASSUME NEW items, items \subseteq Shown, IsFiniteSet(items), NEW s \in Orders(items),
         NEW p \in 1 .. Cardinality(items),
         \A x \in items : ~SameStamp(s[p], x)
  PROVE  Ahead(s[p], items) = p - 1
<1> DEFINE n == Cardinality(items)
           first == 1 .. p - 1
           f == [i \in first |-> s[i]]
           before == Before(s[p], items)
<1>1. /\ n \in Nat
      /\ s \in [1 .. n -> items]
      /\ \A i, j \in 1 .. n : s[i] = s[j] => i = j
      /\ items = {s[i] : i \in 1 .. n}
      /\ \A i, j \in 1 .. n : i < j => NewestFirst(s[i], s[j])
  BY Ordered
<1> HIDE DEF n
<1>p. p \in 1 .. n
  BY DEF n
<1>2. ASSUME NEW i \in 1 .. n, i # p, NewestFirst(s[i], s[p])
      PROVE  i \in first
  <2>1. s[i] \in items /\ s[p] \in items /\ s[i] # s[p]
    BY <1>1, <1>2, <1>p
  <2>2. SUFFICES ASSUME p < i PROVE FALSE
    BY <1>2, <1>1, <1>p
  <2>3. NewestFirst(s[p], s[i])
    BY <1>1, <1>p, <2>2
  <2>4. s[i].table = s[p].table /\ s[i].at = s[p].at
    BY <1>2, <2>1, <2>3, Tied
  <2> QED
    BY <2>1, <2>4 DEF SameStamp
<1>3. ASSUME NEW i \in first PROVE i \in 1 .. n /\ i < p /\ s[i] \in before
  <2>1. i \in 1 .. n /\ i < p /\ i # p
    BY <1>1, <1>p
  <2>2. s[i] \in items /\ s[i] # s[p] /\ NewestFirst(s[i], s[p])
    BY <1>1, <1>p, <2>1
  <2> QED
    BY <2>1, <2>2 DEF Before
<1>4. \A x \in before : \E i \in first : s[i] = x
  <2> TAKE x \in before
  <2>1. x \in items /\ x # s[p] /\ NewestFirst(x, s[p])
    BY DEF Before
  <2>2. PICK i \in 1 .. n : s[i] = x
    BY <1>1, <2>1
  <2> QED
    BY <1>2, <2>1, <2>2
<1>5. f \in Bijection(first, before)
  <2>1. f \in [first -> before]
    BY <1>3
  <2>2. \A i, j \in first : f[i] = f[j] => i = j
    BY <1>1, <1>3
  <2>3. \A x \in before : \E i \in first : f[i] = x
    BY <1>4
  <2> HIDE DEF f, first, before
  <2>4. DOMAIN f = first
    BY <2>1
  <2> QED
    BY <2>1, <2>2, <2>3, <2>4 DEF Bijection, Injection, Surjection, IsInjective
<1>6. IsFiniteSet(first) /\ Cardinality(first) = p - 1
  BY <1>p, FS_Interval
<1>7. ExistsBijection(first, before)
  BY <1>5 DEF ExistsBijection
<1> HIDE DEF first, before
<1>8. Cardinality(before) = Cardinality(first)
  BY <1>6, <1>7, FS_Bijection
<1> QED
  BY <1>6, <1>8 DEF Ahead, before

(* A page is the items in its places. *)
LEMMA Sliced ==
  ASSUME NEW items, IsFiniteSet(items), NEW s \in Orders(items),
         page \in Nat \ {0}, view.limit \in 1 .. 100
  PROVE  \E m \in Nat :
            /\ m = (IF page * view.limit <= Cardinality(items)
                    THEN page * view.limit ELSE Cardinality(items))
            /\ ToSet(Slice(s)) = {s[k] : k \in (page - 1) * view.limit + 1 .. m}
            /\ (page - 1) * view.limit + 1 .. m \subseteq 1 .. Cardinality(items)
<1> DEFINE n == Cardinality(items)
           a == (page - 1) * view.limit + 1
           m == IF page * view.limit <= n THEN page * view.limit ELSE n
<1>1. n \in Nat /\ s \in [1 .. n -> items] /\ Len(s) = n
  BY Ordered
<1>2. page * view.limit \in Nat /\ a \in Nat /\ a > 0
  BY PageEnds
<1>3. Slice(s) = SubSeq(s, a, m)
  <2>1. page * view.limit \in Int /\ Len(s) \in Int
    BY <1>1, <1>2
  <2>2. Min({page * view.limit, Len(s)})
           = IF page * view.limit <= Len(s) THEN page * view.limit ELSE Len(s)
    BY <2>1, MinOf, Zenon
  <2>3. Min({page * view.limit, Len(s)}) = m
    BY <1>1, <2>2
  <2> HIDE DEF m
  <2> QED
    BY <2>3 DEF Slice
<1> HIDE DEF n, a
<1>4. m \in Nat /\ m <= n
  BY <1>1, <1>2
<1> HIDE DEF m
<1>5. \A k \in a .. m : s[k] \in items
  BY <1>1, <1>2, <1>4
<1> DEFINE t == SubSeq(s, a, m)
<1>6. /\ t \in Seq(items)
      /\ Len(t) = IF a <= m THEN m - a + 1 ELSE 0
      /\ \A k \in 1 .. m - a + 1 : t[k] = s[a + k - 1]
  BY <1>2, <1>4, <1>5, SubSeqProperties
<1> HIDE DEF t
<1>7. DOMAIN t = 1 .. m - a + 1
  BY <1>2, <1>4, <1>6, LenProperties
<1>8. ToSet(t) = {s[k] : k \in a .. m}
  <2>1. ASSUME NEW k \in a .. m PROVE \E j \in DOMAIN t : t[j] = s[k]
    <3>1. k - a + 1 \in 1 .. m - a + 1 /\ a + (k - a + 1) - 1 = k
      BY <1>2, <1>4
    <3> QED
      BY <1>6, <1>7, <3>1
  <2>2. ASSUME NEW j \in DOMAIN t PROVE \E k \in a .. m : t[j] = s[k]
    <3>1. a + j - 1 \in a .. m
      BY <1>2, <1>4, <1>7
    <3> QED
      BY <1>6, <1>7, <3>1
  <2> QED
    BY <2>1, <2>2 DEF ToSet
<1>9. a .. m \subseteq 1 .. n
  BY <1>1, <1>2, <1>4
<1>10. ToSet(Slice(s)) = {s[k] : k \in a .. m}
  BY <1>3, <1>8 DEF t
<1>11. m = IF page * view.limit <= n THEN page * view.limit ELSE n
  BY DEF m
<1> QED
  BY <1>4, <1>9, <1>10, <1>11, Zenon DEF n, a

(* Of an item whose place is definite, its page is the one its place is on. *)
LEMMA OnPage ==
  ASSUME NEW items, items \subseteq Shown, IsFiniteSet(items), NEW s \in Orders(items),
         page \in Nat \ {0}, view.limit \in 1 .. 100,
         NEW a \in items, \A x \in items : ~SameStamp(a, x)
  PROVE  /\ a \in ToSet(Slice(s)) <=> /\ (page - 1) * view.limit <= Ahead(a, items)
                                      /\ Ahead(a, items) < page * view.limit
         /\ Ahead(a, items) \in Nat
         /\ Ahead(a, items) < Cardinality(items)
<1> DEFINE n == Cardinality(items)
<1>1. /\ n \in Nat
      /\ s \in [1 .. n -> items]
      /\ \A i, j \in 1 .. n : s[i] = s[j] => i = j
      /\ items = {s[i] : i \in 1 .. n}
  BY Ordered
<1>2. PICK p \in 1 .. n : s[p] = a
  BY <1>1
<1>3. Ahead(a, items) = p - 1
  BY <1>2, Place
<1>4. PICK m \in Nat :
            /\ m = (IF page * view.limit <= n THEN page * view.limit ELSE n)
            /\ ToSet(Slice(s)) = {s[k] : k \in (page - 1) * view.limit + 1 .. m}
            /\ (page - 1) * view.limit + 1 .. m \subseteq 1 .. n
  BY Sliced
<1> HIDE DEF n
<1>5. a \in ToSet(Slice(s)) <=> p \in (page - 1) * view.limit + 1 .. m
  BY <1>1, <1>2, <1>4
<1>6. (page - 1) * view.limit \in Nat /\ page * view.limit \in Nat
  BY PageEnds
<1>7. p \in (page - 1) * view.limit + 1 .. m
         <=> (page - 1) * view.limit <= p - 1 /\ p - 1 < page * view.limit
  BY <1>1, <1>2, <1>4, <1>6
<1> QED
  BY <1>1, <1>2, <1>3, <1>5, <1>7 DEF n

(* How many a page shows. *)
Fill(total) == Max({0, Min({view.limit, total - (page - 1) * view.limit})})

LEMMA Filled ==
  ASSUME NEW items, IsFiniteSet(items), NEW s \in Orders(items),
         page \in Nat \ {0}, view.limit \in 1 .. 100
  PROVE  /\ ToSet(Slice(s)) \subseteq items
         /\ IsFiniteSet(ToSet(Slice(s)))
         /\ Cardinality(ToSet(Slice(s))) = Fill(Cardinality(items))
<1> DEFINE n == Cardinality(items)
           b == (page - 1) * view.limit
           e == page * view.limit
           data == ToSet(Slice(s))
<1>1. /\ n \in Nat
      /\ s \in [1 .. n -> items]
      /\ \A i, j \in 1 .. n : s[i] = s[j] => i = j
  BY Ordered
<1>2. b \in Nat /\ e \in Nat /\ b = e - view.limit /\ view.limit \in 1 .. 100
  BY PageEnds
<1>3. PICK m \in Nat : /\ m = (IF e <= n THEN e ELSE n)
                       /\ data = {s[k] : k \in b + 1 .. m}
                       /\ b + 1 .. m \subseteq 1 .. n
  BY Sliced
<1> HIDE DEF n, b, e, data
<1>12. b \in Int /\ b + 1 \in Int /\ m \in Int /\ n \in Int /\ view.limit \in Int
  <2>1. b \in Int /\ b + 1 \in Int /\ view.limit \in Int
    BY <1>2
  <2>2. n \in Int
    BY <1>1
  <2>3. m \in Int
    OBVIOUS
  <2> QED
    BY <2>1, <2>2, <2>3
<1>4. data \subseteq items
  BY <1>1, <1>3
<1> DEFINE places == b + 1 .. m
           f == [k \in places |-> s[k]]
<1>5. f \in Bijection(places, data)
  <2>1. f \in [places -> data] /\ DOMAIN f = places
    BY <1>3
  <2>2. \A i, j \in places : f[i] = f[j] => i = j
    BY <1>1, <1>3
  <2>3. \A x \in data : \E k \in places : f[k] = x
    BY <1>3
  <2> HIDE DEF f, places
  <2> QED
    BY <2>1, <2>2, <2>3 DEF Bijection, Injection, Surjection, IsInjective
<1>6. IsFiniteSet(places) /\ Cardinality(places) = IF b + 1 > m THEN 0 ELSE m - b
  <2>1. /\ IsFiniteSet(places)
        /\ Cardinality(places) = IF b + 1 > m THEN 0 ELSE m - (b + 1) + 1
    BY <1>12, FS_Interval, Zenon
  <2> QED
    BY <1>12, <2>1
<1>7. ExistsBijection(places, data)
  BY <1>5 DEF ExistsBijection
<1> HIDE DEF places
<1>8. IsFiniteSet(data) /\ Cardinality(data) = Cardinality(places)
  BY <1>6, <1>7, FS_Bijection
<1>9. Fill(n) = IF b + 1 > m THEN 0 ELSE m - b
  <2> DEFINE least == Min({view.limit, n - b})
  <2>1. view.limit \in Int /\ n - b \in Int /\ 0 \in Int
    BY <1>12
  <2>2. least = IF view.limit <= n - b THEN view.limit ELSE n - b
    BY <2>1, MinOf, Zenon
  <2>3. Fill(n) = Max({0, least})
    BY DEF Fill, b
  <2> HIDE DEF least
  <2>4. least \in Int
    BY <2>1, <2>2
  <2>5. Max({0, least}) = IF 0 >= least THEN 0 ELSE least
    BY <2>1, <2>4, MaxOf, Zenon
  <2>6. m = IF e <= n THEN e ELSE n
    BY <1>3
  <2> QED
    BY <1>2, <1>12, <2>2, <2>3, <2>5, <2>6
<1> QED
  BY <1>4, <1>6, <1>8, <1>9 DEF n, data

LEMMA FewerAhead ==
  ASSUME NEW items, IsFiniteSet(items), NEW fewer \in SUBSET items, NEW a
  PROVE  /\ Ahead(a, items) \in Nat /\ Ahead(a, fewer) \in Nat
         /\ Ahead(a, fewer) <= Ahead(a, items)
<1>1. Before(a, items) \in SUBSET items /\ Before(a, fewer) \in SUBSET Before(a, items)
  BY DEF Before
<1>2. IsFiniteSet(Before(a, items))
  BY <1>1, FS_Subset
<1>3. IsFiniteSet(Before(a, fewer))
  BY <1>1, <1>2, FS_Subset
<1> QED
  BY <1>1, <1>2, <1>3, FS_Subset, FS_CardinalityType DEF Ahead

LEMMA LastPlace ==
  ASSUME NEW a, NEW items, IsFiniteSet(items), a \in items
  PROVE  Ahead(a, items) < Cardinality(items)
<1>1. Before(a, items) \in SUBSET items /\ a \notin Before(a, items)
  BY DEF Before
<1>2. /\ IsFiniteSet(Before(a, items)) /\ Cardinality(Before(a, items)) <= Cardinality(items)
      /\ Cardinality(items) = Cardinality(Before(a, items)) => items = Before(a, items)
  BY <1>1, FS_Subset, Zenon
<1>3. Cardinality(Before(a, items)) \in Nat /\ Cardinality(items) \in Nat
  BY <1>2, FS_CardinalityType
<1> QED
  BY <1>1, <1>2, <1>3 DEF Ahead

-----------------------------------------------------------------------------
(* The list that v asks of the tables r. *)

ItemOf(r, i, v) == [id |-> i, table |-> r[i].table, at |-> Stamp(r[i], v)]
ItemsOf(r, v, tables) ==
    {ItemOf(r, i, v) : i \in {j \in DOMAIN r : InList(r[j], v) /\ r[j].table \in tables}}

(* What a list says of a table r of rows, and of ids whose stamps are      *)
(* shared.                                                                 *)
Reads(items, r, v) ==
    \A x \in items : x.id \in DOMAIN r /\ x.table = r[x.id].table /\ x.table \in v.tables

LEMMA OfRows ==
  ASSUME NEW v, NEW tables
  PROVE  /\ Items(v, tables) = ItemsOf(rows, v, tables)
         /\ Shared(v) = {i \in DOMAIN rows : \E j \in DOMAIN rows \ {i} :
                            /\ InList(rows[i], v) /\ InList(rows[j], v)
                            /\ rows[i].table = rows[j].table
                            /\ Stamp(rows[i], v) = Stamp(rows[j], v)}
BY DEF Items, ItemsOf, Item, ItemOf, Shared

LEMMA ListFacts ==
  ASSUME NEW r \in Seq(Row), NEW v \in Views,
         NEW ties, {i \in DOMAIN r : \E j \in DOMAIN r \ {i} :
                            /\ InList(r[i], v) /\ InList(r[j], v)
                            /\ r[i].table = r[j].table
                            /\ Stamp(r[i], v) = Stamp(r[j], v)} \subseteq ties
  PROVE  LET items == ItemsOf(r, v, TableNames)
         IN  /\ IsFiniteSet(items)
             /\ items \subseteq Shown
             /\ OneEach(items)
             /\ TiesIn(items, ties)
             /\ Reads(items, r, v)
             /\ \A x \in items : InList(r[x.id], v)
<1> DEFINE items == ItemsOf(r, v, TableNames)
           ids == {j \in DOMAIN r : InList(r[j], v) /\ r[j].table \in TableNames}
           f == [i \in ids |-> ItemOf(r, i, v)]
<1>1. Len(r) \in Nat /\ DOMAIN r = 1 .. Len(r) /\ \A i \in DOMAIN r : r[i] \in Row
  BY LenProperties
<1>2. IsFiniteSet(DOMAIN r)
  BY <1>1, FS_Interval
<1>3. IsFiniteSet(ids)
  BY <1>2, FS_Subset
<1>4. items = {ItemOf(r, i, v) : i \in ids}
  BY DEF ItemsOf
<1>5. IsFiniteSet(items)
  <2>1. f \in Surjection(ids, items)
    <3>1. f \in [ids -> items]
      BY <1>4
    <3>2. \A x \in items : \E i \in ids : f[i] = x
      BY <1>4
    <3> QED
      BY <3>1, <3>2 DEF Surjection
  <2> QED
    BY <1>3, <2>1, FS_Surjection
<1>6. \A x \in items : \E i \in ids : x = ItemOf(r, i, v) /\ x.id = i /\ x.table = r[i].table
                                       /\ x.at = Stamp(r[i], v)
  BY <1>4 DEF ItemOf
<1>7. \A i \in ids : i \in Nat /\ r[i].table \in v.tables /\ Stamp(r[i], v) \in Nat
  <2> TAKE i \in ids
  <2>1. i \in DOMAIN r /\ InList(r[i], v) /\ r[i] \in Row
    BY <1>1
  <2>2. r[i].table \in v.tables
    BY <2>1 DEF InList
  <2>3. Stamp(r[i], v) \in Nat
    BY <2>1, ListingsAssumption DEF InList, Stamp, Row
  <2> QED
    BY <1>1, <2>1, <2>2, <2>3
<1>8. items \subseteq Shown
  BY <1>4, <1>7 DEF Shown, ItemOf
<1>9. OneEach(items)
  BY <1>6 DEF OneEach
<1>10. TiesIn(items, ties)
  <2> SUFFICES ASSUME NEW x \in items, NEW y \in items, SameStamp(x, y)
               PROVE  x.id \in ties
    BY DEF TiesIn
  <2>1. PICK i \in ids : x = ItemOf(r, i, v) /\ x.id = i /\ x.table = r[i].table
                          /\ x.at = Stamp(r[i], v)
    BY <1>6
  <2>2. PICK j \in ids : y = ItemOf(r, j, v) /\ y.id = j /\ y.table = r[j].table
                          /\ y.at = Stamp(r[j], v)
    BY <1>6
  <2>3. i # j /\ i \in DOMAIN r /\ j \in DOMAIN r \ {i}
    BY <2>1, <2>2 DEF SameStamp
  <2> QED
    BY <2>1, <2>2, <2>3 DEF SameStamp
<1>11. Reads(items, r, v) /\ \A x \in items : InList(r[x.id], v)
  BY <1>6, <1>7 DEF Reads
<1> QED
  BY <1>5, <1>8, <1>9, <1>10, <1>11

LEMMA SomeTables ==
  ASSUME NEW r, NEW v, NEW tables \in SUBSET TableNames
  PROVE  ItemsOf(r, v, tables) = {x \in ItemsOf(r, v, TableNames) : x.table \in tables}
BY DEF ItemsOf, ItemOf

-----------------------------------------------------------------------------
(* The invariant. *)

MemoryOK ==
    /\ pc \in Labels
    /\ entered \in BOOLEAN /\ left \in BOOLEAN
    /\ pc = "idle" => page = 0 /\ seen = {} /\ again = {} /\ ~entered /\ ~left
    /\ pc # "idle" => view \in Views
    /\ pc \in {"load", "fetch", "count"} => page > 0
    /\ pc \in {"fetch", "count"} => view.list # "deletions"
    /\ pc = "load" => /\ pending \subseteq view.tables
                      /\ view.list # "deletions" => pending = view.tables /\ loaded = {}
    /\ pc # "load" => pending = {}
    /\ pc \in {"idle", "ask", "done"} => loaded = {}

ListOK ==
    pc # "idle" =>
        /\ IsFiniteSet(Listed) /\ Listed \subseteq Shown
        /\ OneEach(Listed) /\ TiesIn(Listed, tied) /\ Reads(Listed, rows, view)

LoadedOK ==
    /\ IsFiniteSet(loaded) /\ loaded \subseteq Shown
    /\ OneEach(loaded) /\ TiesIn(loaded, tied) /\ Reads(loaded, rows, view)
    /\ \A x \in loaded : x.table \notin pending

(* While no row has left the list, what is owed is on a page to come.      *)
Owed(a) ==
    /\ pc = "ask" => page * view.limit <= Ahead(a, Listed)
    /\ pc = "load" => a \in Pool /\ (page - 1) * view.limit <= Ahead(a, Pool)
    /\ pc \in {"fetch", "count"} /\ a \notin loaded =>
          page * view.limit <= Ahead(a, Listed) /\ Cardinality(loaded) = view.limit

Skipping ==
    pc # "idle" /\ ~left =>
        /\ loaded \subseteq Listed
        /\ owed \subseteq IdsOf(Listed)
        /\ pc = "done" => owed \subseteq tied
        /\ \A a \in Listed : a.id \in owed \ tied => Owed(a)

(* While no row has entered it, what was shown is on a page before.        *)
Repeating ==
    pc # "idle" /\ ~entered =>
        /\ again \subseteq tied
        /\ pc = "ask" =>
              \A a \in Listed : a.id \in seen \ tied => Ahead(a, Listed) < page * view.limit
        /\ pc = "load" =>
              /\ Listed \subseteq Pool
              /\ \A a \in Pool : a.id \in seen \ tied => Ahead(a, Pool) < (page - 1) * view.limit
        /\ pc \in {"fetch", "count"} =>
              /\ \A x \in loaded : x.id \notin seen \ tied
              /\ \A a \in Listed : a.id \in (seen \cup IdsOf(loaded)) \ tied =>
                    Ahead(a, Listed) < page * view.limit

Filling ==
    /\ pc \in {"fetch", "count"} /\ ~entered /\ ~left =>
          loaded \subseteq Listed /\ Cardinality(loaded) = Fill(Cardinality(Listed))
    /\ PagesFill

IInv ==
    /\ TypeOK /\ MemoryOK /\ ListOK /\ LoadedOK
    /\ Skipping /\ Repeating /\ Filling

-----------------------------------------------------------------------------
LEMMA ViewOK ==
  ASSUME NEW v \in Views
  PROVE  v.limit \in 1 .. 100 /\ v.tables \subseteq TableNames /\ v.list # "none" /\ v \in View
BY ListingsAssumption DEF View

LEMMA Refresh ==
  ASSUME NEW v \in Views, v = view', rows' \in Seq(Row), Shared(v)' \subseteq tied'
  PROVE  /\ IsFiniteSet(Listed') /\ Listed' \subseteq Shown
         /\ OneEach(Listed') /\ TiesIn(Listed', tied') /\ Reads(Listed', rows', v)
         /\ Listed' = ItemsOf(rows', v, TableNames)
<1>1. Listed' = ItemsOf(rows', v, TableNames)
  BY DEF Listed, Items, ItemsOf, Item, ItemOf
<1>2. Shared(v)' = {i \in DOMAIN rows' : \E j \in DOMAIN rows' \ {i} :
                            /\ InList(rows'[i], v) /\ InList(rows'[j], v)
                            /\ rows'[i].table = rows'[j].table
                            /\ Stamp(rows'[i], v) = Stamp(rows'[j], v)}
  BY DEF Shared
<1> QED
  BY <1>1, <1>2, ListFacts

LEMMA PoolSplit ==
  ASSUME MemoryOK, pc = "load", view \in Views
  PROVE  /\ Items(view, pending) = {x \in Listed : x.table \in pending}
         /\ \A t \in TableNames : Items(view, {t}) = {x \in Listed : x.table = t}
         /\ Pool = loaded \cup {x \in Listed : x.table \in pending}
<1>1. pending \in SUBSET TableNames
  BY ViewOK DEF MemoryOK
<1>2. \A t \in TableNames : Items(view, {t}) = {x \in Listed : x.table = t}
  BY OfRows, SomeTables DEF Listed
<1>3. Items(view, pending) = {x \in Listed : x.table \in pending}
  BY <1>1, OfRows, SomeTables DEF Listed
<1> QED
  BY <1>2, <1>3 DEF Pool

(* All of a view's tables are the list. *)
LEMMA WholeList ==
  ASSUME ListOK, pc # "idle", view \in Views
  PROVE  Items(view, view.tables) = Listed
<1>1. view.tables \in SUBSET TableNames /\ \A x \in Listed : x.table \in view.tables
  BY ViewOK DEF ListOK, Reads
<1> QED
  BY <1>1, OfRows, SomeTables DEF Listed

LEMMA PoolOK ==
  ASSUME IInv, pc = "load"
  PROVE  /\ IsFiniteSet(Pool) /\ Pool \subseteq Shown
         /\ OneEach(Pool) /\ TiesIn(Pool, tied) /\ Reads(Pool, rows, view)
<1>1. view \in Views
  BY DEF IInv, MemoryOK
<1>2. /\ IsFiniteSet(Listed) /\ Listed \subseteq Shown
      /\ OneEach(Listed) /\ TiesIn(Listed, tied) /\ Reads(Listed, rows, view)
  BY DEF IInv, ListOK
<1>3. /\ IsFiniteSet(loaded) /\ loaded \subseteq Shown
      /\ OneEach(loaded) /\ TiesIn(loaded, tied) /\ Reads(loaded, rows, view)
      /\ \A x \in loaded : x.table \notin pending
  BY DEF IInv, LoadedOK
<1>4. Pool = loaded \cup {x \in Listed : x.table \in pending}
  BY <1>1, PoolSplit DEF IInv
<1>5. IsFiniteSet(Pool)
  <2>1. IsFiniteSet({x \in Listed : x.table \in pending})
    BY <1>2, FS_Subset
  <2> QED
    BY <1>3, <1>4, <2>1, FS_Union
<1>6. Pool \subseteq Shown /\ Reads(Pool, rows, view)
  BY <1>2, <1>3, <1>4 DEF Reads
<1>7. \A x, y \in Pool : x.table = y.table =>
         (x \in loaded /\ y \in loaded) \/ (x \in Listed /\ y \in Listed)
  BY <1>3, <1>4
<1>8. OneEach(Pool)
  <2> SUFFICES ASSUME NEW x \in Pool, NEW y \in Pool, x.id = y.id PROVE x = y
    BY DEF OneEach
  <2>1. x.table = y.table
    BY <1>6 DEF Reads
  <2> QED
    BY <1>2, <1>3, <1>7, <2>1 DEF OneEach
<1>9. TiesIn(Pool, tied)
  BY <1>2, <1>3, <1>7 DEF TiesIn, SameStamp
<1> QED
  BY <1>5, <1>6, <1>8, <1>9

-----------------------------------------------------------------------------
(* The first state, and the steps of a walk. *)

LEMMA InitInv == Init => IInv
<1> SUFFICES ASSUME Init PROVE IInv
  OBVIOUS
<1>1. TypeOK
  <2>1. rows \in Seq(Row) /\ \A i \in DOMAIN rows : rows[i].deleted # Null => rows[i].by # Null
    BY ListingsAssumption DEF Init
  <2> QED
    BY <2>1, ListingsAssumption DEF Init, TypeOK, NoAnswer
<1>2. pc = "idle" /\ page = 0 /\ loaded = {} /\ pending = {} /\ seen = {} /\ again = {}
      /\ entered = FALSE /\ left = FALSE
  BY DEF Init
<1>3. MemoryOK
  BY <1>2 DEF MemoryOK, Labels
<1>4. LoadedOK
  BY <1>2, FS_EmptySet DEF LoadedOK, OneEach, TiesIn, Reads
<1> QED
  BY <1>1, <1>2, <1>3, <1>4 DEF IInv, ListOK, Skipping, Repeating, Filling, PagesFill

LEMMA OpenStep ==
  ASSUME IInv, NEW v \in Views, Open(v)
  PROVE  IInv'
<1>1. /\ pc = "idle" /\ pc' = "ask" /\ view' = v /\ rows' = rows /\ now' = now
      /\ page' = 0 /\ pending' = {} /\ loaded' = {} /\ answer' = answer
      /\ seen' = {} /\ again' = {} /\ entered' = FALSE /\ left' = FALSE
  BY DEF Open, Goto, database, IInv, MemoryOK
<1>2. owed' = {i \in DOMAIN rows : InList(rows[i], v)} /\ tied' = Shared(v)
  BY DEF Open
<1>3. rows' \in Seq(Row) /\ Shared(v)' = Shared(v)
  BY <1>1 DEF IInv, TypeOK, Shared
<1>4. TypeOK'
  BY <1>1 DEF IInv, TypeOK
<1>5. MemoryOK'
  BY <1>1 DEF MemoryOK, Labels
<1>6. /\ IsFiniteSet(Listed') /\ Listed' \subseteq Shown
      /\ OneEach(Listed') /\ TiesIn(Listed', tied') /\ Reads(Listed', rows', v)
      /\ Listed' = ItemsOf(rows', v, TableNames)
  BY <1>1, <1>2, <1>3, Refresh
<1>7. ListOK'
  BY <1>1, <1>6 DEF ListOK
<1>8. LoadedOK'
  BY <1>1, FS_EmptySet DEF LoadedOK, OneEach, TiesIn, Reads
<1>9. Skipping'
  <2>1. \A a \in Listed' : 0 * v.limit <= Ahead(a, Listed')
    <3> TAKE a \in Listed'
    <3>1. Ahead(a, Listed') \in Nat
      BY <1>6, FewerAhead
    <3>2. 0 * v.limit = 0
      BY ViewOK
    <3> QED
      BY <3>1, <3>2
  <2>2. owed' \subseteq IdsOf(Listed')
    <3> SUFFICES ASSUME NEW i \in DOMAIN rows, InList(rows[i], v)
                 PROVE  \E x \in Listed' : x.id = i
      BY <1>2 DEF IdsOf
    <3>1. rows[i].table \in TableNames
      BY ViewOK DEF InList
    <3>2. ItemOf(rows, i, v) \in Listed'
      BY <1>1, <1>6, <3>1 DEF ItemsOf
    <3> QED
      BY <3>2 DEF ItemOf
  <2> QED
    BY <1>1, <2>1, <2>2 DEF Skipping, Owed
<1>10. Repeating'
  BY <1>1 DEF Repeating
<1>11. Filling'
  BY <1>1 DEF Filling, PagesFill
<1> QED
  BY <1>4, <1>5, <1>7, <1>8, <1>9, <1>10, <1>11 DEF IInv

(* The list is the same after a step that neither writes nor changes the   *)
(* view.                                                                   *)
LEMMA SameList ==
  ASSUME rows' = rows, view' = view, tied' = tied, ListOK, pc # "idle"
  PROVE  Listed' = Listed /\ ListOK'
<1>1. Listed' = Listed
  BY DEF Listed, Items, Item
<1> QED
  BY <1>1 DEF ListOK

LEMMA AskStep ==
  ASSUME IInv, Ask
  PROVE  IInv'
<1>1. /\ pc = "ask" /\ pc' = "load" /\ page' = page + 1 /\ pending' = view.tables
      /\ rows' = rows /\ now' = now /\ view' = view /\ loaded' = loaded /\ answer' = answer
      /\ owed' = owed /\ seen' = seen /\ again' = again
      /\ entered' = entered /\ left' = left /\ tied' = tied
  BY DEF Ask, Goto, database, history, watched
<1>2. view \in Views /\ loaded = {} /\ page \in Nat /\ entered \in BOOLEAN /\ left \in BOOLEAN
  BY <1>1 DEF IInv, MemoryOK, TypeOK
<1>3. TypeOK'
  BY <1>1, <1>2 DEF IInv, TypeOK
<1>4. MemoryOK'
  BY <1>1, <1>2 DEF MemoryOK, Labels
<1>5. Listed' = Listed /\ ListOK'
  BY <1>1, SameList DEF IInv
<1>6. LoadedOK'
  BY <1>1, <1>2, FS_EmptySet DEF LoadedOK, OneEach, TiesIn, Reads
<1>7. Pool' = Listed
  <2>1. Items(view, pending)' = Items(view, view.tables)
    BY <1>1 DEF Items, Item
  <2>2. Items(view, view.tables) = Listed
    BY <1>1, <1>2, WholeList DEF IInv
  <2> QED
    BY <1>1, <1>2, <2>1, <2>2 DEF Pool
<1>8. (page' - 1) * view'.limit = page * view.limit
  <2>1. view.limit \in 1 .. 100
    BY <1>2, ViewOK
  <2> QED
    BY <1>1, <1>2, <2>1, PageEnds
<1>9. Skipping'
  <2> SUFFICES ASSUME left' = FALSE PROVE Skipping'
    BY <1>1, <1>2 DEF Skipping
  <2>1. owed \subseteq IdsOf(Listed)
        /\ \A a \in Listed : a.id \in owed \ tied => page * view.limit <= Ahead(a, Listed)
    BY <1>1 DEF IInv, Skipping, Owed
  <2>2. \A a \in Listed' : a.id \in owed' \ tied' => Owed(a)'
    BY <1>1, <1>5, <1>7, <1>8, <2>1 DEF Owed
  <2> QED
    BY <1>1, <1>2, <1>5, <2>1, <2>2 DEF Skipping
<1>10. Repeating'
  <2> SUFFICES ASSUME entered' = FALSE PROVE Repeating'
    BY <1>1, <1>2 DEF Repeating
  <2>1. again \subseteq tied
        /\ \A a \in Listed : a.id \in seen \ tied => Ahead(a, Listed) < page * view.limit
    BY <1>1 DEF IInv, Repeating
  <2> QED
    BY <1>1, <1>5, <1>7, <1>8, <2>1 DEF Repeating
<1>11. Filling'
  BY <1>1 DEF Filling, PagesFill
<1> QED
  BY <1>3, <1>4, <1>5, <1>6, <1>9, <1>10, <1>11 DEF IInv

(* The steps that answer: what both have to establish.  The items from     *)
(* which the page is taken are a pool in the middle of a request, the list *)
(* itself, or what was fetched of it.                                      *)
LEMMA RespondStep ==
  ASSUME IInv, NEW data, NEW total \in Nat, Respond(data, total),
         pc \in {"load", "count"}, pending' = {},
         UNCHANGED <<database, view, page, watched>>,
         IsFiniteSet(data),
         ~left => \A a \in Listed : a.id \in owed \ tied /\ a \notin data =>
                     page * view.limit <= Ahead(a, Listed) /\ page * view.limit < total,
         ~entered => /\ \A x \in data : x.id \notin seen \ tied
                     /\ \A a \in Listed : a.id \in (seen \cup IdsOf(data)) \ tied =>
                           Ahead(a, Listed) < page * view.limit,
         view.list = "deletions" \/ (~entered /\ ~left) => Cardinality(data) = Fill(total)
  PROVE  IInv'
<1>1. /\ pc' = IF page < TotalPages(total) THEN "ask" ELSE "done"
      /\ loaded' = {}
      /\ answer' = [rows |-> Cardinality(data), total |-> total]
      /\ owed' = owed \ IdsOf(data) /\ seen' = seen \cup IdsOf(data)
      /\ again' = again \cup (seen \cap IdsOf(data))
  BY DEF Respond, Goto, IdsOf
<1>2. /\ rows' = rows /\ now' = now /\ view' = view /\ page' = page
      /\ entered' = entered /\ left' = left /\ tied' = tied
  BY DEF database, watched
<1>3. /\ view \in Views /\ page \in Nat /\ page > 0 /\ pc # "idle"
      /\ entered \in BOOLEAN /\ left \in BOOLEAN
  BY DEF IInv, MemoryOK, TypeOK
<1>4. view.limit \in 1 .. 100
  BY <1>3, ViewOK
<1>5. pc' \in {"ask", "done"}
  BY <1>1
<1>6. TypeOK'
  BY <1>1, <1>2 DEF IInv, TypeOK
<1>7. MemoryOK'
  BY <1>1, <1>2, <1>3, <1>5 DEF MemoryOK, Labels
<1>8. Listed' = Listed /\ ListOK'
  BY <1>2, <1>3, SameList DEF IInv
<1>9. LoadedOK'
  BY <1>1, FS_EmptySet DEF LoadedOK, OneEach, TiesIn, Reads
<1>10. Skipping'
  <2> SUFFICES ASSUME ~left PROVE Skipping'
    BY <1>2 DEF Skipping
  <2>1. owed' \subseteq owed /\ owed \subseteq IdsOf(Listed)
    BY <1>1, <1>3 DEF IInv, Skipping
  <2>2. \A a \in Listed : a.id \in owed' \ tied => a \notin data
    BY <1>1 DEF IdsOf
  <2>3. \A a \in Listed : a.id \in owed' \ tied =>
           page * view.limit <= Ahead(a, Listed) /\ page * view.limit < total
    BY <2>1, <2>2
  <2>4. \A a \in Listed : a.id \in owed' \ tied => pc' = "ask"
    BY <1>1, <1>3, <1>4, <2>3, LastPage
  <2>5. pc' = "done" => owed' \subseteq tied
    BY <2>1, <2>4 DEF IdsOf
  <2>6. \A a \in Listed' : a.id \in owed' \ tied' => Owed(a)'
    BY <1>2, <1>5, <1>8, <2>3 DEF Owed
  <2> QED
    BY <1>1, <1>2, <1>5, <1>8, <2>1, <2>5, <2>6 DEF Skipping
<1>11. Repeating'
  <2> SUFFICES ASSUME ~entered PROVE Repeating'
    BY <1>2 DEF Repeating
  <2>1. again \subseteq tied
    BY <1>3 DEF IInv, Repeating
  <2>2. seen \cap IdsOf(data) \subseteq tied
    BY DEF IdsOf
  <2> QED
    BY <1>1, <1>2, <1>5, <1>8, <2>1, <2>2 DEF Repeating
<1>12. Filling'
  <2>1. PagesFill'
    BY <1>1, <1>2 DEF PagesFill, Fill
  <2> QED
    BY <1>5, <2>1 DEF Filling
<1> QED
  BY <1>6, <1>7, <1>8, <1>9, <1>10, <1>11, <1>12 DEF IInv

(* What a page of the whole pool, in whichever order, shows and leaves.    *)
LEMMA PageOfPool ==
  ASSUME IInv, pc = "load", NEW s \in Orders(Pool), NEW data, data = ToSet(Slice(s))
  PROVE  /\ data \subseteq Pool /\ IsFiniteSet(data)
         /\ Len(s) = Cardinality(Pool) /\ Cardinality(Pool) \in Nat
         /\ Cardinality(data) = Fill(Cardinality(Pool))
         /\ \A a \in Pool : a.id \notin tied =>
               /\ a \in data <=> /\ (page - 1) * view.limit <= Ahead(a, Pool)
                                 /\ Ahead(a, Pool) < page * view.limit
               /\ Ahead(a, Pool) \in Nat
               /\ Ahead(a, Pool) < Cardinality(Pool)
<1>1. /\ IsFiniteSet(Pool) /\ Pool \subseteq Shown /\ TiesIn(Pool, tied)
  BY PoolOK
<1>2. page \in Nat \ {0} /\ view.limit \in 1 .. 100
  <2>1. page \in Nat /\ page > 0 /\ view \in Views
    BY DEF IInv, TypeOK, MemoryOK
  <2> QED
    BY <2>1, ViewOK
<1>3. /\ data \subseteq Pool /\ IsFiniteSet(data) /\ Cardinality(data) = Fill(Cardinality(Pool))
  BY <1>1, <1>2, Filled
<1>4. Len(s) = Cardinality(Pool) /\ Cardinality(Pool) \in Nat
  BY <1>1, Ordered
<1>5. ASSUME NEW a \in Pool, a.id \notin tied
      PROVE  /\ a \in data <=> /\ (page - 1) * view.limit <= Ahead(a, Pool)
                               /\ Ahead(a, Pool) < page * view.limit
             /\ Ahead(a, Pool) \in Nat
             /\ Ahead(a, Pool) < Cardinality(Pool)
  <2>1. \A x \in Pool : ~SameStamp(a, x)
    BY <1>1, <1>5 DEF TiesIn
  <2> QED
    BY <1>1, <1>2, <2>1, OnPage
<1> QED
  BY <1>3, <1>4, <1>5

LEMMA LoadStep ==
  ASSUME IInv, NEW table \in TableNames, LoadDeletions(table)
  PROVE  IInv'
<1>1. /\ pc = "load" /\ view.list = "deletions" /\ table \in pending
      /\ pending' = pending \ {table}
      /\ rows' = rows /\ now' = now /\ view' = view /\ page' = page
      /\ entered' = entered /\ left' = left /\ tied' = tied
  BY DEF LoadDeletions, database, watched
<1>2. /\ view \in Views /\ page \in Nat /\ page > 0 /\ pending \subseteq view.tables
      /\ entered \in BOOLEAN /\ left \in BOOLEAN
  BY <1>1 DEF IInv, MemoryOK, TypeOK
<1> DEFINE all == loaded \cup Items(view, {table})
<1>3. /\ Items(view, {table}) = {x \in Listed : x.table = table}
      /\ Pool = loaded \cup {x \in Listed : x.table \in pending}
  BY <1>1, <1>2, PoolSplit DEF IInv
<1>4. /\ IsFiniteSet(Pool) /\ Pool \subseteq Shown
      /\ OneEach(Pool) /\ TiesIn(Pool, tied) /\ Reads(Pool, rows, view)
  BY <1>1, PoolOK
<1>5. all \subseteq Pool
  BY <1>1, <1>3
<1>6. view.limit \in 1 .. 100 /\ page * view.limit \in Nat
      /\ (page - 1) * view.limit \in Nat /\ (page - 1) * view.limit <= page * view.limit
  BY <1>2, ViewOK, PageEnds
<1>7. CASE pending' = {}
  <2>1. all = Pool
    BY <1>1, <1>3, <1>7
  <2>2. PICK s \in Orders(Pool) : Respond(ToSet(Slice(s)), Len(s))
    BY <1>1, <1>7, <2>1 DEF LoadDeletions
  <2> DEFINE data == ToSet(Slice(s))
  <2>3. /\ data \subseteq Pool /\ IsFiniteSet(data)
        /\ Len(s) = Cardinality(Pool) /\ Cardinality(Pool) \in Nat
        /\ Cardinality(data) = Fill(Cardinality(Pool))
        /\ \A a \in Pool : a.id \notin tied =>
              /\ a \in data <=> /\ (page - 1) * view.limit <= Ahead(a, Pool)
                                /\ Ahead(a, Pool) < page * view.limit
              /\ Ahead(a, Pool) \in Nat
              /\ Ahead(a, Pool) < Cardinality(Pool)
    BY <1>1, PageOfPool
  <2> HIDE DEF data
  <2>4. ASSUME ~left, NEW a \in Listed, a.id \in owed \ tied, a \notin data
        PROVE  page * view.limit <= Ahead(a, Listed) /\ page * view.limit < Len(s)
    <3>1. a \in Pool /\ (page - 1) * view.limit <= Ahead(a, Pool) /\ Pool \subseteq Listed
      <4>1. Owed(a) /\ loaded \subseteq Listed
        BY <1>1, <2>4 DEF IInv, Skipping
      <4> QED
        BY <1>1, <1>3, <4>1 DEF Owed
    <3>2. Ahead(a, Pool) \in Nat /\ Ahead(a, Listed) \in Nat /\ Ahead(a, Pool) <= Ahead(a, Listed)
      <4>1. IsFiniteSet(Listed)
        BY <1>1 DEF IInv, ListOK
      <4> QED
        BY <3>1, <4>1, FewerAhead
    <3>3. page * view.limit <= Ahead(a, Pool) /\ Ahead(a, Pool) < Cardinality(Pool)
      BY <1>6, <2>3, <2>4, <3>1, <3>2
    <3> QED
      BY <1>6, <2>3, <3>2, <3>3
  <2>5. ASSUME ~entered
        PROVE  /\ \A x \in data : x.id \notin seen \ tied
               /\ \A a \in Listed : a.id \in (seen \cup IdsOf(data)) \ tied =>
                     Ahead(a, Listed) < page * view.limit
    <3>1. /\ Listed \subseteq Pool
          /\ \A a \in Pool : a.id \in seen \ tied => Ahead(a, Pool) < (page - 1) * view.limit
      BY <1>1, <2>5 DEF IInv, Repeating
    <3>2. \A x \in data : x.id \notin seen \ tied
      BY <1>6, <2>3, <3>1
    <3>3. ASSUME NEW a \in Listed, a.id \in (seen \cup IdsOf(data)) \ tied
          PROVE  Ahead(a, Listed) < page * view.limit
      <4>1. a \in Pool /\ Ahead(a, Pool) \in Nat
        BY <2>3, <3>1, <3>3
      <4>2. Ahead(a, Listed) \in Nat /\ Ahead(a, Listed) <= Ahead(a, Pool)
        BY <1>4, <3>1, FewerAhead
      <4>3. CASE a.id \in seen
        BY <1>6, <3>1, <3>3, <4>1, <4>2, <4>3
      <4>4. CASE a.id \in IdsOf(data)
        <5>1. a \in data
          BY <1>4, <2>3, <4>1, <4>4 DEF IdsOf, OneEach
        <5> QED
          BY <1>6, <2>3, <3>3, <4>1, <4>2, <5>1
      <4> QED
        BY <3>3, <4>3, <4>4
    <3> QED
      BY <3>2, <3>3
  <2>6. Respond(data, Len(s)) /\ Len(s) \in Nat /\ Cardinality(data) = Fill(Len(s))
    BY <2>2, <2>3 DEF data
  <2>7. UNCHANGED <<database, view, page, watched>>
    BY DEF LoadDeletions
  <2> QED
    BY <1>1, <1>7, <2>3, <2>4, <2>5, <2>6, <2>7, RespondStep
<1>8. CASE pending' # {}
  <2>1. /\ loaded' = all /\ pc' = "load" /\ answer' = answer
        /\ owed' = owed /\ seen' = seen /\ again' = again
    BY <1>1, <1>8 DEF LoadDeletions
  <2>2. TypeOK'
    BY <1>1, <2>1 DEF IInv, TypeOK
  <2>3. MemoryOK'
    BY <1>1, <1>2, <2>1 DEF MemoryOK, Labels
  <2>4. Listed' = Listed /\ ListOK'
    BY <1>1, SameList DEF IInv
  <2>5. LoadedOK'
    <3>1. IsFiniteSet(all)
      BY <1>4, <1>5, FS_Subset
    <3>2. \A x \in all : x.table \notin pending'
      BY <1>1, <1>3 DEF IInv, LoadedOK
    <3> HIDE DEF all
    <3> QED
      BY <1>1, <1>4, <1>5, <2>1, <3>1, <3>2 DEF LoadedOK, OneEach, TiesIn, Reads
  <2>6. Pool' = Pool
    <3>1. Pool' = loaded' \cup {x \in Listed' : x.table \in pending'}
      <4>1. /\ Items(view, pending)' = ItemsOf(rows, view, pending')
            /\ pending' \in SUBSET TableNames
        BY <1>1, <1>2, ViewOK DEF Items, ItemsOf, Item, ItemOf
      <4>2. ItemsOf(rows, view, pending')
               = {x \in ItemsOf(rows, view, TableNames) : x.table \in pending'}
        BY <4>1, SomeTables
      <4> QED
        BY <2>4, <4>1, <4>2, OfRows DEF Pool, Listed
    <3> QED
      BY <1>1, <1>3, <2>1, <2>4, <3>1
  <2>7. Skipping'
    <3> SUFFICES ASSUME ~left PROVE Skipping'
      BY <1>1 DEF Skipping
    <3>1. /\ loaded \subseteq Listed /\ owed \subseteq IdsOf(Listed)
          /\ \A a \in Listed : a.id \in owed \ tied =>
                a \in Pool /\ (page - 1) * view.limit <= Ahead(a, Pool)
      BY <1>1 DEF IInv, Skipping, Owed
    <3>2. loaded' \subseteq Listed'
      BY <1>3, <2>1, <2>4, <3>1
    <3>3. \A a \in Listed' : a.id \in owed' \ tied' => Owed(a)'
      BY <1>1, <2>1, <2>4, <2>6, <3>1 DEF Owed
    <3> QED
      BY <1>1, <2>1, <2>4, <3>1, <3>2, <3>3 DEF Skipping
  <2>8. Repeating'
    <3> SUFFICES ASSUME ~entered PROVE Repeating'
      BY <1>1 DEF Repeating
    <3> QED
      BY <1>1, <2>1, <2>4, <2>6 DEF IInv, Repeating
  <2>9. Filling'
    BY <2>1 DEF Filling, PagesFill
  <2> QED
    BY <2>2, <2>3, <2>4, <2>5, <2>7, <2>8, <2>9 DEF IInv
<1> QED
  BY <1>7, <1>8

LEMMA SelectStep ==
  ASSUME IInv, SelectPage
  PROVE  IInv'
<1>1. /\ pc = "load" /\ view.list # "deletions" /\ pc' = "fetch" /\ pending' = {}
      /\ rows' = rows /\ now' = now /\ view' = view /\ page' = page /\ answer' = answer
      /\ owed' = owed /\ seen' = seen /\ again' = again
      /\ entered' = entered /\ left' = left /\ tied' = tied
  BY DEF SelectPage, Goto, database, history, watched
<1>2. /\ view \in Views /\ page \in Nat /\ page > 0 /\ pending = view.tables /\ loaded = {}
      /\ entered \in BOOLEAN /\ left \in BOOLEAN
  BY <1>1 DEF IInv, MemoryOK, TypeOK
<1>3. Pool = Listed /\ Items(view, view.tables) = Listed
  BY <1>1, <1>2, WholeList DEF IInv, Pool
<1>4. /\ IsFiniteSet(Listed) /\ Listed \subseteq Shown
      /\ OneEach(Listed) /\ TiesIn(Listed, tied) /\ Reads(Listed, rows, view)
  BY <1>1 DEF IInv, ListOK
<1>5. view.limit \in 1 .. 100 /\ page * view.limit \in Nat
      /\ (page - 1) * view.limit \in Nat /\ (page - 1) * view.limit <= page * view.limit
      /\ (page - 1) * view.limit = page * view.limit - view.limit
  BY <1>2, ViewOK, PageEnds
<1>6. PICK s \in Orders(Listed) : loaded' = ToSet(Slice(s))
  BY <1>3 DEF SelectPage
<1>7. /\ loaded' \subseteq Listed /\ IsFiniteSet(loaded')
      /\ Cardinality(Listed) \in Nat
      /\ Cardinality(loaded') = Fill(Cardinality(Listed))
      /\ \A a \in Listed : a.id \notin tied =>
            /\ a \in loaded' <=> /\ (page - 1) * view.limit <= Ahead(a, Listed)
                                 /\ Ahead(a, Listed) < page * view.limit
            /\ Ahead(a, Listed) \in Nat
            /\ Ahead(a, Listed) < Cardinality(Listed)
  BY <1>1, <1>3, <1>6, PageOfPool
<1>8. TypeOK'
  BY <1>1 DEF IInv, TypeOK
<1>9. MemoryOK'
  BY <1>1, <1>2 DEF MemoryOK, Labels
<1>10. Listed' = Listed /\ ListOK'
  BY <1>1, SameList DEF IInv
<1>11. LoadedOK'
  BY <1>1, <1>4, <1>7 DEF LoadedOK, OneEach, TiesIn, Reads
<1>12. Skipping'
  <2> SUFFICES ASSUME ~left PROVE Skipping'
    BY <1>1 DEF Skipping
  <2>1. /\ owed \subseteq IdsOf(Listed)
        /\ \A a \in Listed : a.id \in owed \ tied => (page - 1) * view.limit <= Ahead(a, Listed)
    BY <1>1, <1>3 DEF IInv, Skipping, Owed
  <2>2. ASSUME NEW a \in Listed, a.id \in owed \ tied, a \notin loaded'
        PROVE  page * view.limit <= Ahead(a, Listed) /\ Cardinality(loaded') = view.limit
    <3>1. page * view.limit <= Ahead(a, Listed) /\ Ahead(a, Listed) < Cardinality(Listed)
          /\ Ahead(a, Listed) \in Nat
      BY <1>5, <1>7, <2>1, <2>2
    <3>2. view.limit <= Cardinality(Listed) - (page - 1) * view.limit
      BY <1>5, <1>7, <3>1
    <3>3. Fill(Cardinality(Listed)) = view.limit
      <4> DEFINE rest == Cardinality(Listed) - (page - 1) * view.limit
      <4>1. rest \in Int /\ view.limit \in Int /\ 0 \in Int /\ view.limit <= rest /\ ~(0 >= view.limit)
        BY <1>5, <1>7, <3>2
      <4> HIDE DEF rest
      <4>2. Min({view.limit, rest}) = view.limit
        BY <4>1, MinOf, Zenon
      <4>3. Max({0, view.limit}) = view.limit
        BY <4>1, MaxOf, Zenon
      <4> QED
        BY <4>2, <4>3 DEF Fill, rest
    <3> QED
      BY <1>7, <3>1, <3>3
  <2>3. \A a \in Listed' : a.id \in owed' \ tied' => Owed(a)'
    BY <1>1, <1>10, <2>2 DEF Owed
  <2> QED
    BY <1>1, <1>7, <1>10, <2>1, <2>3 DEF Skipping
<1>13. Repeating'
  <2> SUFFICES ASSUME ~entered PROVE Repeating'
    BY <1>1 DEF Repeating
  <2>1. /\ again \subseteq tied
        /\ \A a \in Listed : a.id \in seen \ tied => Ahead(a, Listed) < (page - 1) * view.limit
    BY <1>1, <1>3 DEF IInv, Repeating
  <2>2. \A x \in loaded' : x.id \notin seen \ tied
    BY <1>5, <1>7, <2>1
  <2>3. ASSUME NEW a \in Listed, a.id \in (seen \cup IdsOf(loaded')) \ tied
        PROVE  Ahead(a, Listed) < page * view.limit
    <3>1. CASE a.id \in seen
      BY <1>5, <1>7, <2>1, <2>3, <3>1
    <3>2. CASE a.id \in IdsOf(loaded')
      <4>1. a \in loaded'
        BY <1>4, <1>7, <3>2 DEF IdsOf, OneEach
      <4> QED
        BY <1>7, <2>3, <4>1
    <3> QED
      BY <2>3, <3>1, <3>2
  <2> QED
    BY <1>1, <1>10, <2>1, <2>2, <2>3 DEF Repeating
<1>14. Filling'
  <2>1. Fill(Cardinality(Listed))' = Fill(Cardinality(Listed))
    BY <1>1, <1>10 DEF Fill
  <2>2. PagesFill'
    BY <1>1 DEF PagesFill
  <2> QED
    BY <1>7, <1>10, <2>1, <2>2 DEF Filling
<1> QED
  BY <1>8, <1>9, <1>10, <1>11, <1>12, <1>13, <1>14 DEF IInv

LEMMA FetchStep ==
  ASSUME IInv, FetchRows
  PROVE  IInv'
<1>1. /\ pc = "fetch" /\ pc' = "count" /\ pending' = pending
      /\ loaded' = loaded \cap Items(view, view.tables)
      /\ rows' = rows /\ now' = now /\ view' = view /\ page' = page /\ answer' = answer
      /\ owed' = owed /\ seen' = seen /\ again' = again
      /\ entered' = entered /\ left' = left /\ tied' = tied
  BY DEF FetchRows, Goto, database, history, watched
<1>2. view \in Views /\ page > 0 /\ view.list # "deletions" /\ pending = {}
      /\ entered \in BOOLEAN /\ left \in BOOLEAN
  BY <1>1 DEF IInv, MemoryOK
<1>3. loaded' = loaded \cap Listed
  BY <1>1, <1>2, WholeList DEF IInv
<1>4. loaded \subseteq Listed => loaded' = loaded
  BY <1>3
<1>5. TypeOK'
  BY <1>1 DEF IInv, TypeOK
<1>6. MemoryOK'
  BY <1>1, <1>2 DEF MemoryOK, Labels
<1>7. Listed' = Listed /\ ListOK'
  BY <1>1, SameList DEF IInv
<1>8. LoadedOK'
  <2>1. IsFiniteSet(loaded')
    BY <1>3, FS_Subset DEF IInv, LoadedOK
  <2> QED
    BY <1>1, <1>3, <2>1 DEF IInv, LoadedOK, OneEach, TiesIn, Reads
<1>9. Skipping'
  <2> SUFFICES ASSUME ~left PROVE Skipping'
    BY <1>1 DEF Skipping
  <2>1. /\ loaded \subseteq Listed /\ owed \subseteq IdsOf(Listed)
        /\ \A a \in Listed : a.id \in owed \ tied => Owed(a)
    BY <1>1 DEF IInv, Skipping
  <2>2. \A a \in Listed' : a.id \in owed' \ tied' => Owed(a)'
    BY <1>1, <1>4, <1>7, <2>1 DEF Owed
  <2> QED
    BY <1>1, <1>4, <1>7, <2>1, <2>2 DEF Skipping
<1>10. Repeating'
  BY <1>1, <1>3, <1>7 DEF IInv, Repeating, IdsOf
<1>11. Filling'
  <2>1. Fill(Cardinality(Listed))' = Fill(Cardinality(Listed))
    BY <1>1, <1>7 DEF Fill
  <2>2. PagesFill'
    BY <1>1 DEF PagesFill
  <2> QED
    BY <1>1, <1>4, <1>7, <2>1, <2>2 DEF IInv, Filling
<1> QED
  BY <1>5, <1>6, <1>7, <1>8, <1>9, <1>10, <1>11 DEF IInv

LEMMA CountStep ==
  ASSUME IInv, Count
  PROVE  IInv'
<1>1. pc = "count" /\ UNCHANGED <<database, view, page, pending, watched>>
  BY DEF Count
<1>2. /\ view \in Views /\ page \in Nat /\ page > 0 /\ view.list # "deletions" /\ pending' = {}
      /\ entered \in BOOLEAN /\ left \in BOOLEAN
  BY <1>1 DEF IInv, MemoryOK, TypeOK
<1>3. /\ IsFiniteSet(Listed) /\ Cardinality(Listed) \in Nat
      /\ IsFiniteSet(loaded) /\ Cardinality(loaded) \in Nat
      /\ Items(view, view.tables) = Listed
  BY <1>1, <1>2, WholeList, FS_CardinalityType DEF IInv, ListOK, LoadedOK
<1>4. view.limit \in 1 .. 100 /\ page * view.limit \in Nat /\ (page - 1) * view.limit \in Nat
  BY <1>2, ViewOK, PageEnds
<1>5. ASSUME ~left, NEW a \in Listed, a.id \in owed \ tied, a \notin loaded
      PROVE  /\ page * view.limit <= Ahead(a, Listed) /\ page * view.limit < Cardinality(Listed)
             /\ Cardinality(loaded) = view.limit
  <2>1. page * view.limit <= Ahead(a, Listed) /\ Cardinality(loaded) = view.limit
    BY <1>1, <1>5 DEF IInv, Skipping, Owed
  <2>2. Ahead(a, Listed) \in Nat /\ Ahead(a, Listed) < Cardinality(Listed)
    BY <1>3, FewerAhead, LastPlace
  <2> QED
    BY <1>3, <1>4, <2>1, <2>2
<1>6. ~entered => /\ \A x \in loaded : x.id \notin seen \ tied
                  /\ \A a \in Listed : a.id \in (seen \cup IdsOf(loaded)) \ tied =>
                        Ahead(a, Listed) < page * view.limit
  BY <1>1 DEF IInv, Repeating
<1>7. CASE Respond(loaded, Cardinality(Listed))
  <2>1. ~entered /\ ~left => Cardinality(loaded) = Fill(Cardinality(Listed))
    BY <1>1 DEF IInv, Filling
  <2> QED
    BY <1>1, <1>2, <1>3, <1>5, <1>6, <1>7, <2>1, RespondStep
<1>8. CASE /\ Cardinality(loaded) \in 1 .. view.limit - 1
           /\ Respond(loaded, (page - 1) * view.limit + Cardinality(loaded))
  <2> DEFINE total == (page - 1) * view.limit + Cardinality(loaded)
  <2>1. total \in Nat /\ Cardinality(loaded) # view.limit
    BY <1>3, <1>4, <1>8
  <2>2. Fill(total) = Cardinality(loaded)
    <3>1. total - (page - 1) * view.limit = Cardinality(loaded)
      BY <1>3, <1>4
    <3>2. /\ Cardinality(loaded) \in Int /\ view.limit \in Int /\ 0 \in Int
          /\ ~(view.limit <= Cardinality(loaded)) /\ ~(0 >= Cardinality(loaded))
      BY <1>3, <1>4, <1>8
    <3>3. Min({view.limit, Cardinality(loaded)}) = Cardinality(loaded)
      BY <3>2, MinOf, Zenon
    <3>4. Max({0, Cardinality(loaded)}) = Cardinality(loaded)
      BY <3>2, MaxOf, Zenon
    <3> HIDE DEF total
    <3> QED
      BY <3>1, <3>3, <3>4 DEF Fill
  <2>3. Respond(loaded, total)
    BY <1>8
  <2> HIDE DEF total
  <2> QED
    BY <1>1, <1>2, <1>3, <1>5, <1>6, <2>1, <2>2, <2>3, RespondStep
<1> QED
  BY <1>3, <1>7, <1>8 DEF Count

LEMMA CloseStep ==
  ASSUME IInv, Close
  PROVE  IInv'
<1>1. /\ pc = "done" /\ pc' = "idle" /\ view' = NoView /\ page' = 0 /\ answer' = NoAnswer
      /\ owed' = {} /\ seen' = {} /\ again' = {} /\ entered' = FALSE /\ left' = FALSE
      /\ rows' = rows /\ now' = now /\ pending' = pending /\ loaded' = loaded
  BY DEF Close, Goto, database
<1>2. loaded = {} /\ pending = {}
  BY <1>1 DEF IInv, MemoryOK
<1>3. TypeOK'
  BY <1>1 DEF IInv, TypeOK, NoAnswer
<1>4. MemoryOK'
  BY <1>1, <1>2 DEF MemoryOK, Labels
<1>5. LoadedOK'
  BY <1>1, <1>2, FS_EmptySet DEF LoadedOK, OneEach, TiesIn, Reads
<1> QED
  BY <1>1, <1>3, <1>4, <1>5 DEF IInv, ListOK, Skipping, Repeating, Filling, PagesFill

-----------------------------------------------------------------------------
(* Others write. *)

LEMMA WriteStep ==
  ASSUME IInv, Watch, UNCHANGED request, now' = now,
         rows' \in Seq(Row),
         \A i \in DOMAIN rows' : rows'[i].deleted # Null => rows'[i].by # Null,
         \A i \in DOMAIN rows : i \in DOMAIN rows' /\ rows'[i].table = rows[i].table
  PROVE  IInv'
<1>1. /\ pc # "done"
      /\ pc' = pc /\ view' = view /\ page' = page /\ pending' = pending /\ loaded' = loaded
      /\ answer' = answer /\ owed' = owed /\ seen' = seen /\ again' = again
  BY DEF Watch, request
<1>2. TypeOK'
  BY <1>1 DEF IInv, TypeOK
<1>3. CASE pc = "idle"
  <2>1. entered' = entered /\ left' = left /\ tied' = tied /\ loaded = {}
    BY <1>3 DEF Watch, watched, IInv, MemoryOK
  <2>2. MemoryOK'
    BY <1>1, <1>3, <2>1 DEF IInv, MemoryOK
  <2>3. LoadedOK'
    BY <1>1, <2>1, FS_EmptySet DEF LoadedOK, OneEach, TiesIn, Reads
  <2>4. Filling'
    BY <1>1, <1>3, <2>1 DEF IInv, Filling, PagesFill
  <2> QED
    BY <1>1, <1>2, <1>3, <2>2, <2>3, <2>4 DEF IInv, ListOK, Skipping, Repeating
<1>4. CASE pc # "idle"
  <2>1. /\ entered' = (entered \/ Listed' \ Listed # {})
        /\ left' = (left \/ Listed \ Listed' # {})
        /\ tied' = tied \cup Shared(view)'
    BY <1>4 DEF Watch, Listed
  <2>2. /\ view \in Views /\ page \in Nat /\ pending \subseteq TableNames
        /\ entered \in BOOLEAN /\ left \in BOOLEAN
    BY <1>4, ViewOK DEF IInv, MemoryOK, TypeOK
  <2>3. MemoryOK'
    BY <1>1, <1>4, <2>1, <2>2 DEF IInv, MemoryOK
  <2>4. /\ IsFiniteSet(Listed') /\ Listed' \subseteq Shown
        /\ OneEach(Listed') /\ TiesIn(Listed', tied') /\ Reads(Listed', rows', view)
        /\ Listed' = ItemsOf(rows', view, TableNames)
    BY <1>1, <2>1, <2>2, Refresh
  <2>5. ListOK'
    BY <1>1, <2>4 DEF ListOK
  <2>6. LoadedOK'
    BY <1>1, <2>1 DEF IInv, LoadedOK, OneEach, TiesIn, Reads
  <2>7. IsFiniteSet(Listed) /\ OneEach(Listed)
    BY <1>4 DEF IInv, ListOK
  <2>8. /\ pc = "load" => Pool = loaded \cup {x \in Listed : x.table \in pending}
        /\ pc = "load" => IsFiniteSet(Pool)
        /\ Pool' = loaded \cup {x \in Listed' : x.table \in pending}
    <3>1. Items(view, pending)' = ItemsOf(rows', view, pending)
      BY <1>1 DEF Items, ItemsOf, Item, ItemOf
    <3>2. ItemsOf(rows', view, pending)
             = {x \in ItemsOf(rows', view, TableNames) : x.table \in pending}
      BY <2>2, SomeTables
    <3>3. Pool' = loaded \cup {x \in Listed' : x.table \in pending}
      BY <1>1, <2>4, <3>1, <3>2 DEF Pool
    <3> QED
      BY <2>2, <3>3, PoolSplit, PoolOK DEF IInv
  <2>9. pc = "load" => IsFiniteSet(Pool')
    <3>1. IsFiniteSet({x \in Listed' : x.table \in pending})
      BY <2>4, FS_Subset
    <3> QED
      BY <2>8, <3>1, FS_Union DEF IInv, LoadedOK
  <2>10. Skipping'
    <3> SUFFICES ASSUME ~left' PROVE Skipping'
      BY DEF Skipping
    <3>1. ~left /\ Listed \subseteq Listed'
      BY <2>1
    <3>2. /\ loaded \subseteq Listed /\ owed \subseteq IdsOf(Listed)
          /\ \A a \in Listed : a.id \in owed \ tied => Owed(a)
      BY <1>4, <3>1 DEF IInv, Skipping
    <3>3. ASSUME NEW a \in Listed', a.id \in owed \ tied'
          PROVE  Owed(a)'
      <4>1. a \in Listed /\ a.id \in owed \ tied
        BY <2>1, <2>4, <3>1, <3>2, <3>3 DEF IdsOf, OneEach
      <4>2. Owed(a)
        BY <3>2, <4>1
      <4>3. Ahead(a, Listed) \in Nat /\ Ahead(a, Listed') \in Nat
            /\ Ahead(a, Listed) <= Ahead(a, Listed')
        BY <2>4, <3>1, FewerAhead
      <4>4. pc = "load" => /\ Pool \subseteq Pool'
                           /\ Ahead(a, Pool) \in Nat /\ Ahead(a, Pool') \in Nat
                           /\ Ahead(a, Pool) <= Ahead(a, Pool')
        <5>1. pc = "load" => Pool \subseteq Pool'
          BY <2>8, <3>1
        <5> QED
          BY <2>9, <5>1, FewerAhead
      <4>5. /\ page * view.limit \in Nat
            /\ pc = "load" => (page - 1) * view.limit \in Nat
        BY <2>2, ViewOK, PageEnds DEF IInv, MemoryOK
      <4> QED
        BY <1>1, <4>2, <4>3, <4>4, <4>5 DEF Owed
    <3>4. owed \subseteq IdsOf(Listed')
      BY <3>1, <3>2 DEF IdsOf
    <3> QED
      BY <1>1, <3>1, <3>2, <3>3, <3>4 DEF Skipping
  <2>11. Repeating'
    <3> SUFFICES ASSUME ~entered' PROVE Repeating'
      BY DEF Repeating
    <3>1. ~entered /\ Listed' \subseteq Listed /\ tied \subseteq tied'
      BY <2>1
    <3>2. \A a \in Listed' : /\ Ahead(a, Listed) \in Nat /\ Ahead(a, Listed') \in Nat
                             /\ Ahead(a, Listed') <= Ahead(a, Listed)
      BY <2>7, <3>1, FewerAhead
    <3>3. /\ page * view.limit \in Nat
          /\ pc = "load" => (page - 1) * view.limit \in Nat
      BY <2>2, ViewOK, PageEnds DEF IInv, MemoryOK
    <3>4. again \subseteq tied'
      BY <1>4, <3>1 DEF IInv, Repeating
    <3>5. ASSUME pc = "ask", NEW a \in Listed', a.id \in seen \ tied'
          PROVE  Ahead(a, Listed') < page * view.limit
      <4>1. Ahead(a, Listed) < page * view.limit
        BY <3>1, <3>5 DEF IInv, Repeating
      <4> QED
        BY <3>2, <3>3, <4>1
    <3>6. ASSUME pc = "load"
          PROVE  /\ Listed' \subseteq Pool'
                 /\ \A a \in Pool' : a.id \in seen \ tied' =>
                       Ahead(a, Pool') < (page - 1) * view.limit
      <4>1. /\ Listed \subseteq Pool
            /\ \A a \in Pool : a.id \in seen \ tied => Ahead(a, Pool) < (page - 1) * view.limit
        BY <3>1, <3>6 DEF IInv, Repeating
      <4>2. Pool' \subseteq Pool /\ Listed' \subseteq Pool'
        BY <2>8, <3>1, <3>6, <4>1
      <4>3. \A a \in Pool' : /\ Ahead(a, Pool) \in Nat /\ Ahead(a, Pool') \in Nat
                             /\ Ahead(a, Pool') <= Ahead(a, Pool)
        BY <2>8, <3>6, <4>2, FewerAhead
      <4> QED
        BY <3>1, <3>3, <3>6, <4>1, <4>2, <4>3
    <3>7. ASSUME pc \in {"fetch", "count"}
          PROVE  /\ \A x \in loaded : x.id \notin seen \ tied'
                 /\ \A a \in Listed' : a.id \in (seen \cup IdsOf(loaded)) \ tied' =>
                       Ahead(a, Listed') < page * view.limit
      <4>1. /\ \A x \in loaded : x.id \notin seen \ tied
            /\ \A a \in Listed : a.id \in (seen \cup IdsOf(loaded)) \ tied =>
                  Ahead(a, Listed) < page * view.limit
        BY <3>1, <3>7 DEF IInv, Repeating
      <4> QED
        BY <3>1, <3>2, <3>3, <4>1
    <3> QED
      BY <1>1, <3>4, <3>5, <3>6, <3>7 DEF Repeating
  <2>12. Filling'
    <3>1. ~entered' /\ ~left' => ~entered /\ ~left /\ Listed' = Listed
      BY <2>1
    <3>2. PagesFill'
      BY <1>1, <3>1 DEF IInv, Filling, PagesFill
    <3>3. \A n : Fill(n)' = Fill(n)
      BY <1>1 DEF Fill
    <3> QED
      BY <1>1, <3>1, <3>2, <3>3 DEF IInv, Filling, Fill
  <2> QED
    BY <1>2, <2>3, <2>5, <2>6, <2>10, <2>11, <2>12 DEF IInv
<1> QED
  BY <1>3, <1>4

LEMMA DeleteStep ==
  ASSUME IInv, NEW batch \in SUBSET DOMAIN rows, NEW user \in Users, Delete(batch, user)
  PROVE  IInv'
<1> DEFINE row(i) == IF i \in batch THEN Archived(rows[i], user) ELSE rows[i]
<1>1. /\ rows' = [i \in DOMAIN rows |-> row(i)]
      /\ UNCHANGED request /\ Watch /\ now' = now
  BY DEF Delete
<1>2. /\ rows \in Seq(Row) /\ now \in Nat
      /\ \A i \in DOMAIN rows : rows[i].deleted # Null => rows[i].by # Null
  BY DEF IInv, TypeOK
<1>3. Len(rows) \in Nat /\ DOMAIN rows = 1 .. Len(rows) /\ \A i \in DOMAIN rows : rows[i] \in Row
  BY <1>2, LenProperties
<1>4. \A i \in DOMAIN rows : /\ row(i) \in Row /\ row(i).table = rows[i].table
                             /\ row(i).deleted # Null => row(i).by # Null
  BY <1>2, <1>3, ListingsAssumption DEF Row, Archived
<1> HIDE DEF row
<1>5. rows' \in [1 .. Len(rows) -> Row]
  BY <1>1, <1>3, <1>4
<1>6. rows' \in Seq(Row)
  BY <1>3, <1>5
<1> QED
  BY <1>1, <1>4, <1>6, WriteStep

LEMMA UpdateStep ==
  ASSUME IInv, NEW i \in DOMAIN rows, NEW row \in Row, Update(i, row),
         row.table = rows[i].table, row.deleted # Null => row.by # Null
  PROVE  IInv'
<1>1. rows' = [rows EXCEPT ![i] = row] /\ UNCHANGED request /\ Watch /\ now' = now
  BY DEF Update
<1>2. rows \in Seq(Row) /\ \A j \in DOMAIN rows : rows[j].deleted # Null => rows[j].by # Null
  BY DEF IInv, TypeOK
<1>3. DOMAIN rows = 1 .. Len(rows)
  BY <1>2, LenProperties
<1>5. rows' \in Seq(Row)
  BY <1>1, <1>2, <1>3, ExceptSeq
<1>6. DOMAIN rows' = DOMAIN rows /\ \A j \in DOMAIN rows : j # i => rows'[j] = rows[j]
  BY <1>1
<1>7. rows'[i] = row
  BY <1>1
<1> QED
  BY <1>1, <1>2, <1>5, <1>6, <1>7, WriteStep

(* A restore clears both columns, a stale save only the first.             *)
LEMMA RestoreStep ==
  ASSUME IInv, NEW i \in DOMAIN rows, Restore(i) \/ StaleSave(i)
  PROVE  IInv'
<1>1. rows[i] \in Row
  BY LenProperties DEF IInv, TypeOK
<1>2. /\ Restored(rows[i]) \in Row /\ Restored(rows[i]).table = rows[i].table
      /\ Restored(rows[i]).deleted = Null
  BY <1>1 DEF Restored, Row
<1>3. /\ Resurrected(rows[i]) \in Row /\ Resurrected(rows[i]).table = rows[i].table
      /\ Resurrected(rows[i]).deleted = Null
  BY <1>1 DEF Resurrected, Row
<1>4. CASE Restore(i)
  BY <1>2, <1>4, UpdateStep DEF Restore
<1>5. CASE StaleSave(i)
  BY <1>3, <1>5, UpdateStep DEF StaleSave
<1> QED
  BY <1>4, <1>5

LEMMA CreateStep ==
  ASSUME IInv, NEW table \in TableNames, Create(table)
  PROVE  IInv'
<1> DEFINE row == [table |-> table, created |-> now, deleted |-> Null, by |-> Null]
<1>1. rows' = Append(rows, row) /\ UNCHANGED request /\ Watch /\ now' = now
  BY DEF Create
<1>2. /\ rows \in Seq(Row) /\ now \in Nat
      /\ \A i \in DOMAIN rows : rows[i].deleted # Null => rows[i].by # Null
  BY DEF IInv, TypeOK
<1>3. row \in Row /\ row.deleted = Null /\ row.by = Null
  BY <1>2 DEF Row
<1> HIDE DEF row
<1>4. /\ rows' \in Seq(Row) /\ Len(rows') = Len(rows) + 1
      /\ \A i \in 1 .. Len(rows) : rows'[i] = rows[i]
      /\ rows'[Len(rows) + 1] = row
  BY <1>1, <1>2, <1>3, AppendProperties
<1>5. /\ Len(rows) \in Nat /\ DOMAIN rows = 1 .. Len(rows)
      /\ DOMAIN rows' = 1 .. Len(rows) + 1
  BY <1>2, <1>4, LenProperties
<1>6. \A i \in DOMAIN rows : i \in DOMAIN rows' /\ rows'[i] = rows[i]
  BY <1>4, <1>5
<1>7. \A i \in DOMAIN rows' : i \in DOMAIN rows \/ rows'[i] = row
  BY <1>4, <1>5
<1>8. \A i \in DOMAIN rows' : rows'[i].deleted # Null => rows'[i].by # Null
  BY <1>2, <1>3, <1>6, <1>7
<1> QED
  BY <1>1, <1>4, <1>6, <1>8, WriteStep

LEMMA QuietStep ==
  ASSUME IInv, UNCHANGED <<rows, request, watched>>, now' \in Nat
  PROVE  IInv'
<1>1. /\ rows' = rows /\ pc' = pc /\ view' = view /\ page' = page /\ pending' = pending
      /\ loaded' = loaded /\ answer' = answer /\ owed' = owed /\ seen' = seen
      /\ again' = again /\ entered' = entered /\ left' = left /\ tied' = tied
  BY DEF request, watched
<1>2. Listed' = Listed /\ Pool' = Pool
  BY <1>1 DEF Listed, Pool, Items, Item
<1>3. TypeOK' /\ MemoryOK' /\ ListOK' /\ LoadedOK'
  BY <1>1, <1>2 DEF IInv, TypeOK, MemoryOK, ListOK, LoadedOK
<1>4. Skipping'
  BY <1>1, <1>2 DEF IInv, Skipping, Owed
<1>5. Repeating'
  BY <1>1, <1>2 DEF IInv, Repeating
<1>6. Filling'
  BY <1>1, <1>2 DEF IInv, Filling, PagesFill, Fill
<1> QED
  BY <1>3, <1>4, <1>5, <1>6 DEF IInv

-----------------------------------------------------------------------------
LEMMA NextInv == IInv /\ [Next]_vars => IInv'
<1> SUFFICES ASSUME IInv, [Next]_vars PROVE IInv'
  OBVIOUS
<1>1. CASE Read
  BY <1>1, OpenStep, AskStep, SelectStep, FetchStep, CountStep, CloseStep, LoadStep DEF Read
<1>2. CASE \E batch \in SUBSET DOMAIN rows \ {{}}, user \in Users : Delete(batch, user)
  BY <1>2, DeleteStep
<1>3. CASE \E i \in DOMAIN rows : Restore(i) \/ StaleSave(i)
  BY <1>3, RestoreStep
<1>4. CASE \E table \in TableNames : Create(table)
  BY <1>4, CreateStep
<1>5. CASE Tick
  <2>1. now' \in Nat
    BY <1>5 DEF Tick, IInv, TypeOK
  <2> QED
    BY <1>5, <2>1, QuietStep DEF Tick
<1>6. CASE UNCHANGED vars
  <2>1. UNCHANGED <<rows, request, watched>> /\ now' \in Nat
    BY <1>6 DEF vars, request, watched, IInv, TypeOK
  <2> QED
    BY <2>1, QuietStep
<1> QED
  BY <1>1, <1>2, <1>3, <1>4, <1>5, <1>6 DEF Next, Write

LEMMA Inductive == Spec => []IInv
<1> QED
  BY InitInv, NextInv, PTL DEF Spec

(* Listings.TypeOK: rows, views and answers keep their types, whatever is  *)
(* written and read, and an archived row names who archived it             *)
(* (softDelete() of the services; the update() of ClientsService and the   *)
(* others, whose stale save() makes a row active and leaves the name).     *)
THEOREM TypeCorrect == Spec => []TypeOK
<1>1. IInv => TypeOK
  BY DEF IInv
<1> QED
  BY <1>1, Inductive, PTL

(* A walk from the first page to the last shows every row that was there   *)
(* when it began, whatever was created, archived or restored between its   *)
(* requests and their database calls, unless a row left the list or shares *)
(* its stamp with another of its table.                                    *)
THEOREM WalkSkipsNothing == Spec => []NothingSkipped
<1>1. IInv => NothingSkipped
  BY DEF IInv, Skipping, NothingSkipped
<1> QED
  BY <1>1, Inductive, PTL

(* No page repeats a row of an earlier one, unless a row entered the list  *)
(* in between or shares its stamp with another of its table.               *)
THEOREM WalkRepeatsNothing == Spec => []NothingRepeated
<1>1. IInv => NothingRepeated
  BY DEF IInv, MemoryOK, Repeating, NothingRepeated
<1> QED
  BY <1>1, Inductive, PTL

(* An answer has as many rows as its page, limit and total promise: always *)
(* in the list of deletions, whose total is the length of what was merged, *)
(* and elsewhere as long as nothing came or went since the walk began.     *)
THEOREM PagesAreFull == Spec => []PagesFill
<1>1. IInv => PagesFill
  BY DEF IInv, Filling
<1> QED
  BY <1>1, Inductive, PTL
===============================================================================
