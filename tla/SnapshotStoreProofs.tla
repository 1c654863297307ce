------------------------ MODULE SnapshotStoreProofs -------------------------
(***************************************************************************)
(* A stored snapshot shows the host at one moment, its identity names what *)
(* it says and nothing else, it is itself again when it is restored, and   *)
(* at most one of the requests made from it changes the policy of the      *)
(* host: for any services, ports, orders of rows and number of changes,    *)
(* and however far the tables lag behind.                                  *)
(***************************************************************************)
EXTENDS SnapshotStore, SequenceTheorems, FiniteSetTheorems, TLAPS

-----------------------------------------------------------------------------
(* Tables and their order.                                                 *)

\* A table whose rows are of different targets.
Listing(rows) ==
  /\ rows \in Seq(ToSet(rows))
  /\ \A i \in DOMAIN rows : rows[i].target \in Nat
  /\ Unrepeated(rows)

\* How many rows come before those of a target.
Rank(rows, target) == Cardinality({ k \in DOMAIN rows : rows[k].target < target })

\* A later target has more rows before it, and no row has all of them.
LEMMA RankOrders ==
  ASSUME NEW rows, Listing(rows), NEW i \in DOMAIN rows
  PROVE  /\ Rank(rows, rows[i].target) \in 0 .. Len(rows) - 1
         /\ \A j \in DOMAIN rows : rows[i].target < rows[j].target
              => Rank(rows, rows[i].target) < Rank(rows, rows[j].target)
<1> DEFINE n == Len(rows)
<1> DEFINE below(t) == { k \in DOMAIN rows : rows[k].target < t }
<1>1. n \in Nat /\ DOMAIN rows = 1 .. n
  BY LenProperties DEF Listing
<1>2. IsFiniteSet(1 .. n) /\ Cardinality(1 .. n) = n
  <2>1. IsFiniteSet(1 .. n) /\ Cardinality(1 .. n) = IF 1 > n THEN 0 ELSE n - 1 + 1
    BY <1>1, FS_Interval
  <2> QED
    BY <1>1, <2>1
<1>3. ASSUME NEW k \in DOMAIN rows
      PROVE  /\ IsFiniteSet(below(rows[k].target))
             /\ Cardinality(below(rows[k].target)) \in 0 .. n - 1
  <2>1. below(rows[k].target) \subseteq (1 .. n) \ {k}
    BY <1>1 DEF Listing
  <2>2. IsFiniteSet((1 .. n) \ {k}) /\ Cardinality((1 .. n) \ {k}) = n - 1
    <3> k \in 1 .. n
      BY <1>1
    <3> HIDE DEF n, below
    <3> DEFINE All == 1 .. n
    <3>1. IsFiniteSet(All) /\ Cardinality(All) = n /\ k \in All
      BY <1>2
    <3> HIDE DEF All
    <3>2. IsFiniteSet(All \ {k}) /\ Cardinality(All \ {k}) = Cardinality(All) - 1
      BY <3>1, FS_RemoveElement
    <3> QED
      BY <3>1, <3>2 DEF All
  <2>3. /\ IsFiniteSet(below(rows[k].target))
        /\ Cardinality(below(rows[k].target)) <= n - 1
    <3> HIDE DEF below, n
    <3> QED
      BY <2>1, <2>2, FS_Subset
  <2>4. Cardinality(below(rows[k].target)) \in Nat
    BY <2>3, FS_CardinalityType
  <2> QED
    BY <1>1, <2>3, <2>4
<1>4. ASSUME NEW j \in DOMAIN rows, rows[i].target < rows[j].target
      PROVE  Cardinality(below(rows[i].target)) < Cardinality(below(rows[j].target))
  <2>1. below(rows[i].target) \subseteq below(rows[j].target)
    BY <1>4 DEF Listing
  <2>2. i \in below(rows[j].target) /\ i \notin below(rows[i].target)
    BY <1>4 DEF Listing
  <2>3. /\ Cardinality(below(rows[i].target)) <= Cardinality(below(rows[j].target))
        /\ Cardinality(below(rows[i].target)) # Cardinality(below(rows[j].target))
    <3> HIDE DEF below
    <3> QED
      BY <1>3, <2>1, <2>2, FS_Subset
  <2>4. /\ Cardinality(below(rows[i].target)) \in 0 .. n - 1
        /\ Cardinality(below(rows[j].target)) \in 0 .. n - 1
    BY <1>3
  <2> HIDE DEF below
  <2> QED
    BY <2>3, <2>4
<1> QED
  BY <1>3, <1>4 DEF Rank

\* So every place in the order is that of one row, ...
LEMMA RankIsPlace ==
  ASSUME NEW rows, Listing(rows)
  PROVE  \A p \in DOMAIN rows : \E i \in DOMAIN rows : Rank(rows, rows[i].target) = p - 1
<1> DEFINE n == Len(rows)
<1> DEFINE place == [i \in 1 .. n |-> Rank(rows, rows[i].target) + 1]
<1>1. n \in Nat /\ DOMAIN rows = 1 .. n
  BY LenProperties DEF Listing
<1>2. \A i \in 1 .. n : Rank(rows, rows[i].target) \in 0 .. n - 1
  BY <1>1, RankOrders
<1>3. place \in [1 .. n -> 1 .. n]
  BY <1>1, <1>2
<1>4. \A i, j \in 1 .. n : place[i] = place[j] => i = j
  <2> TAKE i, j \in 1 .. n
  <2>1. i # j => \/ rows[i].target < rows[j].target
                 \/ rows[j].target < rows[i].target
    BY <1>1 DEF Listing, Unrepeated
  <2>2. rows[i].target < rows[j].target => Rank(rows, rows[i].target) < Rank(rows, rows[j].target)
    BY <1>1, RankOrders
  <2>3. rows[j].target < rows[i].target => Rank(rows, rows[j].target) < Rank(rows, rows[i].target)
    BY <1>1, RankOrders
  <2> QED
    BY <1>2, <2>1, <2>2, <2>3
<1>5. place \in Injection(1 .. n, 1 .. n)
  <2> HIDE DEF place
  <2> QED
    BY <1>3, <1>4 DEF Injection, IsInjective
<1>6. IsFiniteSet(1 .. n)
  BY <1>1, FS_Interval
<1>7. place \in Surjection(1 .. n, 1 .. n)
  <2> HIDE DEF place
  <2> QED
    BY <1>5, <1>6, FS_Injection
<1>8. \A p \in 1 .. n : \E i \in 1 .. n : place[i] = p
  <2> HIDE DEF place
  <2> QED
    BY <1>7 DEF Surjection
<1>9. \A i \in 1 .. n : place[i] = Rank(rows, rows[i].target) + 1
  OBVIOUS
<1>10. ASSUME NEW p \in 1 .. n
       PROVE  \E i \in 1 .. n : Rank(rows, rows[i].target) = p - 1
  <2>1. PICK i \in 1 .. n : place[i] = p
    BY <1>8
  <2>2. Rank(rows, rows[i].target) \in 0 .. n - 1 /\ Rank(rows, rows[i].target) + 1 = p
    BY <1>2, <1>9, <2>1
  <2> HIDE DEF place
  <2>3. Rank(rows, rows[i].target) = p - 1
    BY <1>1, <2>2
  <2> QED
    BY <2>3
<1> QED
  BY <1>1, <1>10

\* ... and the rows can be put in order: ByTarget does.
LEMMA ByTargetOrders ==
  ASSUME NEW rows, Listing(rows)
  PROVE  /\ ByTarget(rows) \in [DOMAIN rows -> ToSet(rows)]
         /\ \A p, q \in DOMAIN rows :
              p < q => ByTarget(rows)[p].target < ByTarget(rows)[q].target
<1> DEFINE n == Len(rows)
<1> DEFINE at(p) == CHOOSE i \in DOMAIN rows : Rank(rows, rows[i].target) = p - 1
<1> DEFINE sorted == [p \in DOMAIN rows |-> rows[at(p)]]
<1>1. n \in Nat /\ DOMAIN rows = 1 .. n
  BY LenProperties DEF Listing
<1>2. \A p \in DOMAIN rows : at(p) \in DOMAIN rows /\ Rank(rows, rows[at(p)].target) = p - 1
  BY RankIsPlace
<1>3. sorted \in [DOMAIN rows -> ToSet(rows)]
  <2> HIDE DEF at
  <2> QED
    BY <1>2 DEF ToSet
<1>4. ASSUME NEW p \in DOMAIN rows, NEW q \in DOMAIN rows, p < q
      PROVE  sorted[p].target < sorted[q].target
  <2>1. /\ at(p) \in DOMAIN rows /\ Rank(rows, rows[at(p)].target) = p - 1
        /\ at(q) \in DOMAIN rows /\ Rank(rows, rows[at(q)].target) = q - 1
    BY <1>2
  <2> HIDE DEF at
  <2>2. rows[at(p)].target \in Nat /\ rows[at(q)].target \in Nat
    BY <2>1 DEF Listing
  <2>3. rows[at(p)].target # rows[at(q)].target
    <3>1. p - 1 # q - 1
      BY <1>1, <1>4
    <3> QED
      BY <2>1, <3>1
  <2>4. ~(rows[at(q)].target < rows[at(p)].target)
    <3>1. SUFFICES ASSUME rows[at(q)].target < rows[at(p)].target PROVE FALSE
      OBVIOUS
    <3>2. q - 1 < p - 1
      BY <2>1, <3>1, RankOrders
    <3> QED
      BY <1>1, <1>4, <3>2
  <2> QED
    BY <2>2, <2>3, <2>4
<1> HIDE DEF sorted
<1>5. \E f \in [DOMAIN rows -> { rows[i] : i \in DOMAIN rows }] :
        \A i, j \in DOMAIN rows : i < j => f[i].target < f[j].target
  BY <1>3, <1>4 DEF ToSet
<1> QED
  BY <1>5 DEF ByTarget, ToSet

\* What is put in order so has the rows it had.
LEMMA OrderedIsPermutation ==
  ASSUME NEW rows, Listing(rows), NEW f \in [DOMAIN rows -> ToSet(rows)],
         \A p, q \in DOMAIN rows : p < q => f[p].target < f[q].target
  PROVE  ToSet(f) = ToSet(rows)
<1> DEFINE n == Len(rows)
<1> DEFINE from == [p \in 1 .. n |-> CHOOSE i \in 1 .. n : rows[i] = f[p]]
<1>1. n \in Nat /\ DOMAIN rows = 1 .. n
  BY LenProperties DEF Listing
<1>2. \A p \in 1 .. n : from[p] \in 1 .. n /\ rows[from[p]] = f[p]
  <2> TAKE p \in 1 .. n
  <2>1. f[p] \in ToSet(rows)
    BY <1>1
  <2>2. \E i \in 1 .. n : rows[i] = f[p]
    BY <1>1, <2>1 DEF ToSet
  <2> QED
    BY <2>2
<1>3. from \in [1 .. n -> 1 .. n]
  BY <1>2
<1> HIDE DEF from
<1>4. ASSUME NEW p \in 1 .. n, NEW q \in 1 .. n, from[p] = from[q]
      PROVE  p = q
  <2>1. f[p] = f[q]
    BY <1>2, <1>4
  <2>2. f[p].target \in Nat /\ f[q].target \in Nat
    BY <1>1, <1>2 DEF Listing
  <2>3. ~(p < q) /\ ~(q < p)
    BY <1>1, <2>1, <2>2
  <2> QED
    BY <1>1, <2>3
<1>5. from \in Injection(1 .. n, 1 .. n)
  BY <1>3, <1>4 DEF Injection, IsInjective
<1>6. IsFiniteSet(1 .. n)
  BY <1>1, FS_Interval
<1>7. from \in Surjection(1 .. n, 1 .. n)
  BY <1>5, <1>6, FS_Injection
<1>8. \A i \in 1 .. n : \E p \in 1 .. n : from[p] = i
  BY <1>7 DEF Surjection
<1>9. \A i \in 1 .. n : \E p \in 1 .. n : f[p] = rows[i]
  BY <1>2, <1>8
<1>10. DOMAIN f = 1 .. n
  BY <1>1
<1> HIDE DEF n
<1> QED
  BY <1>1, <1>2, <1>9, <1>10 DEF ToSet

\* In a table in order, the place of a row is the number of rows before it.
LEMMA PlaceIsCount ==
  ASSUME NEW rows, InTargetOrder(rows), NEW i \in DOMAIN rows
  PROVE  Cardinality({ row \in ToSet(rows) : row.target < rows[i].target }) = i - 1
<1> DEFINE n == Len(rows)
<1> DEFINE below == { row \in ToSet(rows) : row.target < rows[i].target }
<1> DEFINE f == [k \in 1 .. i - 1 |-> rows[k]]
<1>1. n \in Nat /\ DOMAIN rows = 1 .. n /\ i \in 1 .. n
  BY LenProperties DEF InTargetOrder
<1>2. \A k \in 1 .. n : k < i <=> rows[k].target < rows[i].target
  <2> TAKE k \in 1 .. n
  <2>1. rows[k].target \in Nat /\ rows[i].target \in Nat
    BY <1>1 DEF InTargetOrder
  <2>2. k < i => rows[k].target < rows[i].target
    BY <1>1 DEF InTargetOrder
  <2>3. i < k => rows[i].target < rows[k].target
    BY <1>1 DEF InTargetOrder
  <2> QED
    BY <1>1, <2>1, <2>2, <2>3
<1>3. \A k \in 1 .. i - 1 : k \in 1 .. n /\ k < i
  BY <1>1
<1>4. f \in [1 .. i - 1 -> below]
  <2> HIDE DEF n
  <2>1. \A k \in 1 .. i - 1 : rows[k] \in below
    BY <1>1, <1>2, <1>3 DEF ToSet
  <2> HIDE DEF below
  <2> QED
    BY <2>1
<1>5. \A k, m \in 1 .. i - 1 : f[k] = f[m] => k = m
  <2> TAKE k, m \in 1 .. i - 1
  <2>1. k \in DOMAIN rows /\ m \in DOMAIN rows /\ f[k] = rows[k] /\ f[m] = rows[m]
    BY <1>1, <1>3
  <2>2. rows[k].target \in Nat /\ rows[m].target \in Nat
    BY <2>1 DEF InTargetOrder
  <2>3. k < m => rows[k].target < rows[m].target
    BY <2>1 DEF InTargetOrder
  <2>4. m < k => rows[m].target < rows[k].target
    BY <2>1 DEF InTargetOrder
  <2> QED
    BY <1>1, <2>1, <2>2, <2>3, <2>4
<1>6. \A row \in below : \E k \in 1 .. i - 1 : f[k] = row
  <2> TAKE row \in below
  <2>1. PICK k \in 1 .. n : rows[k] = row
    BY <1>1 DEF ToSet
  <2>2. k < i
    BY <1>2, <2>1
  <2>3. k \in 1 .. i - 1
    BY <1>1, <2>2
  <2> QED
    BY <2>1, <2>3
<1> HIDE DEF f, below
<1>7. f \in Bijection(1 .. i - 1, below)
  BY <1>4, <1>5, <1>6 DEF Bijection, Injection, Surjection, IsInjective
<1>8. ExistsBijection(1 .. i - 1, below) /\ i - 1 \in Nat
  BY <1>1, <1>7 DEF ExistsBijection
<1>9. Cardinality(below) = i - 1
  BY <1>8, FS_CountingElements
<1> QED
  BY <1>9 DEF below

\* Tables in order with the same rows are the same.
LEMMA OrderedByRows ==
  ASSUME NEW left, NEW right, InTargetOrder(left), InTargetOrder(right),
         ToSet(left) = ToSet(right)
  PROVE  left = right
<1>1. /\ Len(left) \in Nat /\ DOMAIN left = 1 .. Len(left)
      /\ Len(right) \in Nat /\ DOMAIN right = 1 .. Len(right)
  BY LenProperties DEF InTargetOrder
<1>2. ASSUME NEW a, NEW b, InTargetOrder(a), InTargetOrder(b), ToSet(a) = ToSet(b),
             NEW i \in DOMAIN a
      PROVE  i \in DOMAIN b /\ a[i] = b[i]
  <2>1. a[i] \in ToSet(b)
    BY <1>2 DEF ToSet
  <2>2. PICK j \in DOMAIN b : b[j] = a[i]
    BY <2>1 DEF ToSet
  <2>3. i - 1 = j - 1
    BY <1>2, <2>2, PlaceIsCount
  <2>4. i \in Int /\ j \in Int
    <3>1. DOMAIN a = 1 .. Len(a) /\ DOMAIN b = 1 .. Len(b)
      BY <1>2, LenProperties DEF InTargetOrder
    <3> QED
      BY <3>1
  <2>5. i = j
    BY <2>3, <2>4
  <2> QED
    BY <2>2, <2>5
<1>3. 1 .. Len(left) = 1 .. Len(right) /\ \A i \in 1 .. Len(left) : left[i] = right[i]
  <2>1. \A i \in DOMAIN left : i \in DOMAIN right /\ left[i] = right[i]
    BY <1>2
  <2>2. ToSet(right) = ToSet(left)
    OBVIOUS
  <2>3. \A i \in DOMAIN right : i \in DOMAIN left
    BY <1>2, <2>2
  <2>4. DOMAIN left = DOMAIN right
    <3> \A i : i \in DOMAIN left <=> i \in DOMAIN right
      BY <2>1, <2>3
    <3> QED
      BY <1>1
  <2> QED
    BY <1>1, <2>1, <2>4
<1>4. Len(left) = Len(right)
  <2> DEFINE m == Len(left)
  <2> DEFINE n == Len(right)
  <2>1. m \in Nat /\ n \in Nat /\ \A i : i \in 1 .. m <=> i \in 1 .. n
    BY <1>1, <1>3
  <2> HIDE DEF m, n
  <2>2. m = 0 \/ m \in 1 .. n
    BY <2>1
  <2>3. n = 0 \/ n \in 1 .. m
    BY <2>1
  <2>4. m = n
    BY <2>1, <2>2, <2>3
  <2> QED
    BY <2>4 DEF m, n
<1> DEFINE S == ToSet(left)
<1>5. left \in Seq(S) /\ right \in Seq(S)
  BY DEF InTargetOrder
<1> HIDE DEF S
<1> QED
  BY <1>3, <1>4, <1>5, SeqEqual

\* A table in the order of its targets.
LEMMA NormalRows ==
  ASSUME NEW rows, Listing(rows)
  PROVE  /\ InTargetOrder(ByTarget(rows))
         /\ ToSet(ByTarget(rows)) = ToSet(rows)
         /\ Len(ByTarget(rows)) = Len(rows)
<1> DEFINE n == Len(rows)
<1> DEFINE sorted == ByTarget(rows)
<1>1. n \in Nat /\ DOMAIN rows = 1 .. n
  BY LenProperties DEF Listing
<1>2. /\ sorted \in [1 .. n -> ToSet(rows)]
      /\ \A p, q \in 1 .. n : p < q => sorted[p].target < sorted[q].target
  BY <1>1, ByTargetOrders
<1>3. ToSet(sorted) = ToSet(rows)
  BY <1>1, <1>2, OrderedIsPermutation
<1> HIDE DEF n, sorted
<1>4. sorted \in Seq(ToSet(rows)) /\ Len(sorted) = n /\ DOMAIN sorted = 1 .. n
  <2>1. sorted \in Seq(ToSet(rows))
    BY <1>1, <1>2, SeqDef
  <2>2. DOMAIN sorted = 1 .. n
    BY <1>2
  <2>3. Len(sorted) = n
    BY <1>1, <2>1, <2>2, LenProperties
  <2> QED
    BY <2>1, <2>2, <2>3
<1>5. \A p \in 1 .. n : sorted[p].target \in Nat
  <2> TAKE p \in 1 .. n
  <2>1. PICK i \in DOMAIN rows : rows[i] = sorted[p]
    BY <1>2 DEF ToSet
  <2> QED
    BY <2>1 DEF Listing
<1>6. InTargetOrder(sorted)
  BY <1>2, <1>3, <1>4, <1>5 DEF InTargetOrder
<1> QED
  BY <1>3, <1>4, <1>6 DEF n, sorted

\* A table in order lists its rows once.
LEMMA OrderedLists ==
  ASSUME NEW rows, InTargetOrder(rows)
  PROVE  Listing(rows)
<1>1. Len(rows) \in Nat /\ DOMAIN rows = 1 .. Len(rows)
  BY LenProperties DEF InTargetOrder
<1>2. ASSUME NEW i \in DOMAIN rows, NEW j \in DOMAIN rows, rows[i].target = rows[j].target
      PROVE  i = j
  <2>1. ~(i < j) /\ ~(j < i)
    BY <1>2 DEF InTargetOrder
  <2> QED
    BY <1>1, <2>1
<1> QED
  BY <1>2 DEF InTargetOrder, Listing, Unrepeated

\* Read backwards it does too.
LEMMA ReversedLists ==
  ASSUME NEW rows, InTargetOrder(rows)
  PROVE  /\ Listing(Reverse(rows))
         /\ ToSet(Reverse(rows)) = ToSet(rows)
         /\ Len(Reverse(rows)) = Len(rows)
<1> DEFINE n == Len(rows)
<1> DEFINE back == Reverse(rows)
<1>1. n \in Nat /\ DOMAIN rows = 1 .. n
  BY LenProperties DEF InTargetOrder
<1>2. /\ DOMAIN back = 1 .. n
      /\ \A i \in 1 .. n : back[i] = rows[n - i + 1]
      /\ back = [i \in 1 .. n |-> back[i]]
  BY <1>1 DEF Reverse
<1>3. \A i \in 1 .. n : n - i + 1 \in 1 .. n /\ n - (n - i + 1) + 1 = i
  BY <1>1
<1> HIDE DEF n, back
<1>4. ToSet(back) = ToSet(rows)
  <2>1. \A row \in ToSet(back) : row \in ToSet(rows)
    BY <1>1, <1>2, <1>3 DEF ToSet
  <2>2. ASSUME NEW i \in 1 .. n PROVE rows[i] \in ToSet(back)
    <3>1. n - i + 1 \in 1 .. n /\ back[n - i + 1] = rows[n - (n - i + 1) + 1]
      BY <1>2, <1>3
    <3>2. back[n - i + 1] = rows[i]
      BY <1>3, <3>1
    <3> QED
      BY <1>2, <3>1, <3>2 DEF ToSet
  <2> QED
    BY <1>1, <2>1, <2>2 DEF ToSet
<1>5. back \in Seq(ToSet(rows)) /\ Len(back) = n
  <2>1. back \in [1 .. n -> ToSet(rows)]
    BY <1>1, <1>2, <1>3 DEF ToSet
  <2>2. back \in Seq(ToSet(rows))
    BY <1>1, <2>1, SeqDef
  <2> QED
    BY <1>1, <1>2, <2>2, LenProperties
<1>6. \A i \in 1 .. n : back[i].target \in Nat
  BY <1>1, <1>2, <1>3 DEF InTargetOrder
<1>7. Unrepeated(rows)
  BY OrderedLists DEF Listing
<1>8. Unrepeated(back)
  <2>1. ASSUME NEW i \in 1 .. n, NEW j \in 1 .. n, back[i].target = back[j].target
        PROVE  i = j
    <3>1. n - i + 1 = n - j + 1
      BY <1>1, <1>2, <1>3, <1>7, <2>1 DEF Unrepeated
    <3> QED
      BY <1>1, <3>1
  <2> QED
    BY <1>2, <2>1 DEF Unrepeated
<1> QED
  BY <1>2, <1>4, <1>5, <1>6, <1>8 DEF Listing, n, back

\* A row of one table is in each table with the same rows.
LEMMA RowAlike ==
  ASSUME NEW left, NEW right, ToSet(left) = ToSet(right), NEW target,
         NEW i \in RowOf(left, target)
  PROVE  \E j \in RowOf(right, target) : right[j] = left[i]
<1>1. i \in DOMAIN left /\ left[i].target = target
  BY DEF RowOf
<1>2. left[i] \in ToSet(right)
  BY <1>1 DEF ToSet
<1>3. PICK j \in DOMAIN right : right[j] = left[i]
  BY <1>2 DEF ToSet
<1>4. j \in RowOf(right, target)
  BY <1>1, <1>3 DEF RowOf
<1> QED
  BY <1>3, <1>4

\* Whether a snapshot is valid does not depend on the order of its rows.
LEMMA ValidByRows ==
  ASSUME NEW x, NEW y, ValidPolicySnapshot(x),
         y.epoch = x.epoch, y.root = x.root,
         y.source.revision = x.source.revision,
         y.source.projectionRev = x.source.projectionRev,
         y.source.executorRev = x.source.executorRev,
         y.source.executorSHA = x.source.executorSHA,
         ToSet(y.source.targets) = ToSet(x.source.targets),
         ToSet(y.bindings) = ToSet(x.bindings),
         ToSet(y.targets) = ToSet(x.targets),
         Len(y.source.targets) = Len(x.source.targets),
         Len(y.bindings) = Len(x.bindings),
         Len(y.targets) = Len(x.targets),
         Unrepeated(y.source.targets), Unrepeated(y.bindings), Unrepeated(y.targets)
  PROVE  ValidPolicySnapshot(y)
<1>1. /\ ValidRevision(y.epoch)
      /\ ValidRootPolicy(y.root)
      /\ Len(y.source.targets) = Len(y.targets)
      /\ Len(y.source.targets) = Len(y.bindings)
      /\ Len(y.source.targets) = Cardinality(Services)
  BY DEF ValidPolicySnapshot
<1>2. PoliciesAgree(y.source, y.root)
  BY DEF ValidPolicySnapshot, PoliciesAgree
<1>3. \A i \in DOMAIN y.bindings : BindingOfRevision(y.bindings[i], y.source)
  <2> TAKE i \in DOMAIN y.bindings
  <2>1. PICK j \in DOMAIN x.bindings : x.bindings[j] = y.bindings[i]
    BY DEF ToSet
  <2>2. BindingOfRevision(x.bindings[j], x.source)
    BY DEF ValidPolicySnapshot
  <2> QED
    BY <2>1, <2>2 DEF BindingOfRevision
<1>4. \A i \in DOMAIN y.targets : ValidTargetState(y.targets[i])
  <2> TAKE i \in DOMAIN y.targets
  <2>1. PICK j \in DOMAIN x.targets : x.targets[j] = y.targets[i]
    BY DEF ToSet
  <2>2. ValidTargetState(x.targets[j])
    BY DEF ValidPolicySnapshot
  <2> QED
    BY <2>1, <2>2
<1>5. ASSUME NEW e \in DOMAIN y.source.targets
      PROVE  LET target == y.source.targets[e].target
             IN /\ RowOf(y.bindings, target) # {}
                /\ \A b \in RowOf(y.bindings, target), t \in RowOf(y.targets, target) :
                     TargetAgrees(y.source.targets[e], y.bindings[b], y.targets[t], y.root)
                /\ RowOf(y.targets, target) # {}
  <2> DEFINE target == y.source.targets[e].target
  <2>1. PICK d \in DOMAIN x.source.targets : x.source.targets[d] = y.source.targets[e]
    BY DEF ToSet
  <2>2. /\ RowOf(x.bindings, target) # {}
        /\ \A b \in RowOf(x.bindings, target), t \in RowOf(x.targets, target) :
             TargetAgrees(y.source.targets[e], x.bindings[b], x.targets[t], x.root)
        /\ RowOf(x.targets, target) # {}
    BY <2>1 DEF ValidPolicySnapshot
  <2> HIDE DEF target
  <2>4. RowOf(y.bindings, target) # {}
    BY <2>2, RowAlike
  <2>5. RowOf(y.targets, target) # {}
    BY <2>2, RowAlike
  <2>6. ASSUME NEW b \in RowOf(y.bindings, target), NEW t \in RowOf(y.targets, target)
        PROVE  TargetAgrees(y.source.targets[e], y.bindings[b], y.targets[t], y.root)
    <3>1. PICK c \in RowOf(x.bindings, target) : x.bindings[c] = y.bindings[b]
      <4> DEFINE left == y.bindings
      <4> DEFINE right == x.bindings
      <4>1. ToSet(left) = ToSet(right) /\ b \in RowOf(left, target)
        OBVIOUS
      <4> HIDE DEF left, right
      <4>2. \E c \in RowOf(right, target) : right[c] = left[b]
        BY <4>1, RowAlike
      <4> QED
        BY <4>2 DEF left, right
    <3>2. PICK u \in RowOf(x.targets, target) : x.targets[u] = y.targets[t]
      <4> DEFINE left == y.targets
      <4> DEFINE right == x.targets
      <4>1. ToSet(left) = ToSet(right) /\ t \in RowOf(left, target)
        OBVIOUS
      <4> HIDE DEF left, right
      <4>2. \E u \in RowOf(right, target) : right[u] = left[t]
        BY <4>1, RowAlike
      <4> QED
        BY <4>2 DEF left, right
    <3> QED
      BY <2>2, <3>1, <3>2
  <2> QED
    BY <2>4, <2>5, <2>6 DEF target
<1> QED
  BY <1>1, <1>2, <1>3, <1>4, <1>5 DEF ValidPolicySnapshot

-----------------------------------------------------------------------------
(* What is stored of a snapshot.                                           *)

\* A snapshot with other rows.
Relisted(x, a, b, c) == [x EXCEPT !.bindings = a, !.targets = b, !.source.targets = c]
Entered(source, c) == [source EXCEPT !.targets = c]

\* A snapshot with other rows, field by field.
LEMMA WithRows ==
  ASSUME NEW x, NEW a, NEW b, NEW c,
         x = [epoch |-> x.epoch, source |-> x.source, bindings |-> x.bindings,
              targets |-> x.targets, root |-> x.root]
  PROVE  Relisted(x, a, b, c) =
           [epoch |-> x.epoch, source |-> Entered(x.source, c),
            bindings |-> a, targets |-> b, root |-> x.root]
<1> DEFINE epoch == x.epoch
<1> DEFINE source == x.source
<1> DEFINE bindings == x.bindings
<1> DEFINE targets == x.targets
<1> DEFINE root == x.root
<1> DEFINE w == [epoch |-> epoch, source |-> source, bindings |-> bindings, targets |-> targets,
                 root |-> root]
<1> DEFINE y == [epoch |-> epoch, source |-> source, bindings |-> a, targets |-> targets,
                 root |-> root]
<1> DEFINE z == [epoch |-> epoch, source |-> source, bindings |-> a, targets |-> b,
                 root |-> root]
<1> DEFINE result == [epoch |-> epoch, source |-> [source EXCEPT !.targets = c],
                      bindings |-> a, targets |-> b, root |-> root]
<1>1. [x EXCEPT !.bindings = a, !.targets = b, !.source.targets = c] =
        [[[x EXCEPT !.bindings = a] EXCEPT !.targets = b] EXCEPT !.source = [@ EXCEPT !.targets = c]]
  OBVIOUS
<1>2. x = w
  OBVIOUS
<1> HIDE DEF epoch, source, bindings, targets, root
<1>3. [w EXCEPT !.bindings = a] = y
  OBVIOUS
<1>4. [y EXCEPT !.targets = b] = z
  OBVIOUS
<1>5. [z EXCEPT !.source = [@ EXCEPT !.targets = c]] = result
  OBVIOUS
<1>6. [x EXCEPT !.bindings = a, !.targets = b, !.source.targets = c] = result
  <2> HIDE DEF w, y, z, result
  <2> QED
    BY <1>1, <1>2, <1>3, <1>4, <1>5
<1> QED
  BY <1>6 DEF epoch, source, bindings, targets, root, Relisted, Entered

\* A source policy with other rows, field by field.
LEMMA WithEntries ==
  ASSUME NEW source, NEW c,
         source = [revision |-> source.revision, projectionRev |-> source.projectionRev,
                   executorRev |-> source.executorRev, executorSHA |-> source.executorSHA,
                   targets |-> source.targets]
  PROVE  Entered(source, c) =
           [revision |-> source.revision, projectionRev |-> source.projectionRev,
            executorRev |-> source.executorRev, executorSHA |-> source.executorSHA,
            targets |-> c]
<1> DEFINE revision == source.revision
<1> DEFINE projectionRev == source.projectionRev
<1> DEFINE executorRev == source.executorRev
<1> DEFINE executorSHA == source.executorSHA
<1> DEFINE entries == source.targets
<1> DEFINE old == [revision |-> revision, projectionRev |-> projectionRev,
                   executorRev |-> executorRev, executorSHA |-> executorSHA, targets |-> entries]
<1> DEFINE new == [revision |-> revision, projectionRev |-> projectionRev,
                   executorRev |-> executorRev, executorSHA |-> executorSHA, targets |-> c]
<1>1. source = old
  OBVIOUS
<1> HIDE DEF revision, projectionRev, executorRev, executorSHA, entries
<1>2. [old EXCEPT !.targets = c] = new
  OBVIOUS
<1>3. [source EXCEPT !.targets = c] = new
  <2> HIDE DEF old, new
  <2> QED
    BY <1>1, <1>2
<1> QED
  BY <1>3 DEF revision, projectionRev, executorRev, executorSHA, Entered

\* What is kept of a snapshot and what it says, field by field.
LEMMA FormOf ==
  ASSUME NEW x, HasFields(x)
  PROVE  /\ Normalized(x) =
              [epoch |-> x.epoch,
               source |-> [revision |-> x.source.revision, projectionRev |-> x.source.projectionRev,
                           executorRev |-> x.source.executorRev,
                           executorSHA |-> x.source.executorSHA,
                           targets |-> ByTarget(x.source.targets)],
               bindings |-> ByTarget(x.bindings), targets |-> ByTarget(x.targets),
               root |-> x.root]
         /\ Content(x) =
              [epoch |-> x.epoch,
               source |-> [revision |-> x.source.revision, projectionRev |-> x.source.projectionRev,
                           executorRev |-> x.source.executorRev,
                           executorSHA |-> x.source.executorSHA,
                           targets |-> ToSet(x.source.targets)],
               bindings |-> ToSet(x.bindings), targets |-> ToSet(x.targets),
               root |-> x.root]
<1> DEFINE result(a, b, c) ==
      [epoch |-> x.epoch,
       source |-> [revision |-> x.source.revision, projectionRev |-> x.source.projectionRev,
                   executorRev |-> x.source.executorRev, executorSHA |-> x.source.executorSHA,
                   targets |-> c],
       bindings |-> a, targets |-> b, root |-> x.root]
<1>1. /\ x = [epoch |-> x.epoch, source |-> x.source, bindings |-> x.bindings,
              targets |-> x.targets, root |-> x.root]
      /\ x.source = [revision |-> x.source.revision, projectionRev |-> x.source.projectionRev,
                     executorRev |-> x.source.executorRev, executorSHA |-> x.source.executorSHA,
                     targets |-> x.source.targets]
  BY DEF HasFields
<1>2. ASSUME NEW a, NEW b, NEW c
      PROVE  Relisted(x, a, b, c) = result(a, b, c)
  <2>1. Entered(x.source, c) =
          [revision |-> x.source.revision, projectionRev |-> x.source.projectionRev,
           executorRev |-> x.source.executorRev, executorSHA |-> x.source.executorSHA,
           targets |-> c]
    BY <1>1, WithEntries
  <2>2. Relisted(x, a, b, c) =
          [epoch |-> x.epoch, source |-> Entered(x.source, c), bindings |-> a,
           targets |-> b, root |-> x.root]
    BY <1>1, WithRows
  <2> QED
    BY <2>1, <2>2
<1>3. Normalized(x) = Relisted(x, ByTarget(x.bindings), ByTarget(x.targets),
                               ByTarget(x.source.targets))
  BY DEF Normalized, Relisted
<1>4. Content(x) = Relisted(x, ToSet(x.bindings), ToSet(x.targets), ToSet(x.source.targets))
  BY DEF Content, Relisted
<1>5. Normalized(x) = result(ByTarget(x.bindings), ByTarget(x.targets), ByTarget(x.source.targets))
  <2> HIDE DEF result
  <2> QED
    BY <1>2, <1>3, Zenon
<1>6. Content(x) = result(ToSet(x.bindings), ToSet(x.targets), ToSet(x.source.targets))
  <2> HIDE DEF result
  <2> QED
    BY <1>2, <1>4, Zenon
<1> QED
  BY <1>5, <1>6

\* A valid snapshot of tables that list their rows is stored in normal form, and
\* says what it said.
LEMMA NormalForm ==
  ASSUME NEW x, HasFields(x), ValidPolicySnapshot(x),
         Listing(x.source.targets), Listing(x.bindings), Listing(x.targets)
  PROVE  /\ InNormalForm(Normalized(x))
         /\ Content(Normalized(x)) = Content(x)
         /\ Normalized(x).root = x.root
         /\ ToSet(Normalized(x).source.targets) = ToSet(x.source.targets)
         /\ ToSet(Normalized(x).bindings) = ToSet(x.bindings)
         /\ ToSet(Normalized(x).targets) = ToSet(x.targets)
<1> DEFINE y == Normalized(x)
<1>1. /\ y.epoch = x.epoch /\ y.root = x.root
      /\ y.source.revision = x.source.revision
      /\ y.source.projectionRev = x.source.projectionRev
      /\ y.source.executorRev = x.source.executorRev
      /\ y.source.executorSHA = x.source.executorSHA
      /\ y.source.targets = ByTarget(x.source.targets)
      /\ y.bindings = ByTarget(x.bindings)
      /\ y.targets = ByTarget(x.targets)
  BY FormOf
<1>2. HasFields(y)
  BY FormOf DEF HasFields
<1> HIDE DEF y
<1>3. /\ InTargetOrder(y.source.targets) /\ Len(y.source.targets) = Len(x.source.targets)
      /\ ToSet(y.source.targets) = ToSet(x.source.targets)
  BY <1>1, NormalRows
<1>4. /\ InTargetOrder(y.bindings) /\ Len(y.bindings) = Len(x.bindings)
      /\ ToSet(y.bindings) = ToSet(x.bindings)
  BY <1>1, NormalRows
<1>5. /\ InTargetOrder(y.targets) /\ Len(y.targets) = Len(x.targets)
      /\ ToSet(y.targets) = ToSet(x.targets)
  BY <1>1, NormalRows
<1>6. Unrepeated(y.source.targets) /\ Unrepeated(y.bindings) /\ Unrepeated(y.targets)
  BY <1>3, <1>4, <1>5, OrderedLists DEF Listing
<1>7. ValidPolicySnapshot(y)
  BY <1>1, <1>3, <1>4, <1>5, <1>6, ValidByRows
<1>8. InNormalForm(y)
  BY <1>2, <1>3, <1>4, <1>5, <1>7 DEF InNormalForm
<1>9. Content(y) = Content(x)
  <2> DEFINE said(a, b, c) ==
        [epoch |-> x.epoch,
         source |-> [revision |-> x.source.revision, projectionRev |-> x.source.projectionRev,
                     executorRev |-> x.source.executorRev, executorSHA |-> x.source.executorSHA,
                     targets |-> c],
         bindings |-> a, targets |-> b, root |-> x.root]
  <2>1. Content(y) = said(ToSet(y.bindings), ToSet(y.targets), ToSet(y.source.targets))
    BY <1>1, <1>2, FormOf
  <2>2. Content(x) = said(ToSet(x.bindings), ToSet(x.targets), ToSet(x.source.targets))
    BY FormOf
  <2> HIDE DEF said
  <2> QED
    BY <1>3, <1>4, <1>5, <2>1, <2>2
<1> QED
  BY <1>1, <1>3, <1>4, <1>5, <1>8, <1>9 DEF y

\* A snapshot in normal form is what its content says, ...
LEMMA ContentTells ==
  ASSUME NEW x, NEW y, InNormalForm(x), InNormalForm(y), Content(x) = Content(y)
  PROVE  x = y
<1>1. /\ Content(x).epoch = x.epoch /\ Content(x).root = x.root
      /\ Content(x).source.revision = x.source.revision
      /\ Content(x).source.projectionRev = x.source.projectionRev
      /\ Content(x).source.executorRev = x.source.executorRev
      /\ Content(x).source.executorSHA = x.source.executorSHA
      /\ Content(x).source.targets = ToSet(x.source.targets)
      /\ Content(x).bindings = ToSet(x.bindings)
      /\ Content(x).targets = ToSet(x.targets)
  BY FormOf DEF InNormalForm
<1>2. /\ Content(y).epoch = y.epoch /\ Content(y).root = y.root
      /\ Content(y).source.revision = y.source.revision
      /\ Content(y).source.projectionRev = y.source.projectionRev
      /\ Content(y).source.executorRev = y.source.executorRev
      /\ Content(y).source.executorSHA = y.source.executorSHA
      /\ Content(y).source.targets = ToSet(y.source.targets)
      /\ Content(y).bindings = ToSet(y.bindings)
      /\ Content(y).targets = ToSet(y.targets)
  BY FormOf DEF InNormalForm
<1>3. /\ x.source.targets = y.source.targets
      /\ x.bindings = y.bindings
      /\ x.targets = y.targets
  BY <1>1, <1>2, OrderedByRows DEF InNormalForm
<1>4. HasFields(x) /\ HasFields(y)
  BY DEF InNormalForm
<1> QED
  BY <1>1, <1>2, <1>3, <1>4 DEF HasFields

\* ... so a snapshot's name tells its content and its content its name.
LEMMA IdentityFollows ==
  ASSUME Inductive
  PROVE  IdentityIsContent
<1> SUFFICES ASSUME NEW a \in stored, NEW b \in stored
             PROVE  a.identity = b.identity <=> a.content = b.content
  BY DEF IdentityIsContent
<1>1. /\ InNormalForm(a.kept) /\ a.content = Content(a.kept) /\ a.identity = Sha256(a.kept)
      /\ InNormalForm(b.kept) /\ b.content = Content(b.kept) /\ b.identity = Sha256(b.kept)
  BY DEF Inductive, NamedByContent
<1>2. a.identity = b.identity => a.kept = b.kept
  BY <1>1 DEF Sha256
<1>3. a.content = b.content => a.kept = b.kept
  BY <1>1, ContentTells
<1> QED
  BY <1>1, <1>2, <1>3

\* A snapshot with other bindings.
LEMMA OtherBindings ==
  ASSUME NEW x, HasFields(x), NEW bindings
  PROVE  LET y == [x EXCEPT !.bindings = bindings]
         IN /\ HasFields(y)
            /\ y.epoch = x.epoch /\ y.root = x.root /\ y.source = x.source
            /\ y.bindings = bindings /\ y.targets = x.targets
<1> DEFINE epoch == x.epoch
<1> DEFINE source == x.source
<1> DEFINE old == x.bindings
<1> DEFINE targets == x.targets
<1> DEFINE root == x.root
<1> DEFINE w == [epoch |-> epoch, source |-> source, bindings |-> old, targets |-> targets,
                 root |-> root]
<1> DEFINE v == [epoch |-> epoch, source |-> source, bindings |-> bindings,
                 targets |-> targets, root |-> root]
<1> DEFINE y == [x EXCEPT !.bindings = bindings]
<1>1. x = w
  BY DEF HasFields
<1>2. [w EXCEPT !.bindings = bindings] = v
  <2> HIDE DEF epoch, source, old, targets, root
  <2> QED
    OBVIOUS
<1>3. y = v
  <2> HIDE DEF w, v
  <2> QED
    BY <1>1, <1>2
<1>4. x.source = [revision |-> x.source.revision, projectionRev |-> x.source.projectionRev,
                  executorRev |-> x.source.executorRev, executorSHA |-> x.source.executorSHA,
                  targets |-> x.source.targets]
  BY DEF HasFields
<1>5. /\ y.epoch = x.epoch /\ y.root = x.root /\ y.source = x.source
      /\ y.bindings = bindings /\ y.targets = x.targets
  <2> HIDE DEF y
  <2> QED
    BY <1>3
<1>6. HasFields(y)
  <2> HIDE DEF y
  <2> QED
    BY <1>3, <1>4, <1>5 DEF HasFields
<1> QED
  BY <1>5, <1>6

\* A snapshot in normal form is its own normal form, also with its bindings backwards.
LEMMA NormalAgain ==
  ASSUME NEW x, InNormalForm(x), NEW bindings,
         bindings \in {x.bindings, Reverse(x.bindings)}
  PROVE  /\ ValidPolicySnapshot([x EXCEPT !.bindings = bindings])
         /\ Normalized([x EXCEPT !.bindings = bindings]) = x
<1> DEFINE y == [x EXCEPT !.bindings = bindings]
<1>1. /\ HasFields(x) /\ ValidPolicySnapshot(x)
      /\ InTargetOrder(x.source.targets) /\ InTargetOrder(x.bindings) /\ InTargetOrder(x.targets)
  BY DEF InNormalForm
<1>2. /\ y.epoch = x.epoch /\ y.root = x.root /\ y.source = x.source
      /\ y.bindings = bindings /\ y.targets = x.targets
  BY <1>1, OtherBindings
<1>3. HasFields(y)
  BY <1>1, OtherBindings
<1> HIDE DEF y
<1>4. /\ Listing(bindings) /\ ToSet(bindings) = ToSet(x.bindings)
      /\ Len(bindings) = Len(x.bindings)
  BY <1>1, OrderedLists, ReversedLists
<1>5. Listing(x.source.targets) /\ Listing(x.targets)
  BY <1>1, OrderedLists
<1>6. ValidPolicySnapshot(y)
  <2>1. Unrepeated(y.source.targets) /\ Unrepeated(y.bindings) /\ Unrepeated(y.targets)
    BY <1>2, <1>4, <1>5 DEF Listing
  <2> QED
    BY <1>1, <1>2, <1>4, <2>1, ValidByRows
<1>7. InNormalForm(Normalized(y)) /\ Content(Normalized(y)) = Content(y)
  BY <1>2, <1>3, <1>4, <1>5, <1>6, NormalForm
<1>8. Content(y) = Content(x)
  <2> DEFINE said(rows) ==
        [epoch |-> x.epoch,
         source |-> [revision |-> x.source.revision, projectionRev |-> x.source.projectionRev,
                     executorRev |-> x.source.executorRev, executorSHA |-> x.source.executorSHA,
                     targets |-> ToSet(x.source.targets)],
         bindings |-> rows, targets |-> ToSet(x.targets), root |-> x.root]
  <2>1. Content(y) = said(ToSet(y.bindings))
    BY <1>2, <1>3, FormOf
  <2>2. Content(x) = said(ToSet(x.bindings))
    BY <1>1, FormOf
  <2> HIDE DEF said
  <2> QED
    BY <1>2, <1>4, <2>1, <2>2
<1>9. Normalized(y) = x
  BY <1>7, <1>8, ContentTells
<1> QED
  BY <1>6, <1>9 DEF y

\* A snapshot in normal form is stored under its own digest.
LEMMA OwnIdentity ==
  ASSUME NEW x, InNormalForm(x)
  PROVE  /\ SnapshotIdentity(x) = Sha256(x)
         /\ ValidDigest(SnapshotIdentity(x))
<1> DEFINE y == [x EXCEPT !.bindings = x.bindings]
<1>1. y = x
  BY Zenon DEF InNormalForm, HasFields
<1>2. ValidPolicySnapshot(y) /\ Normalized(y) = x
  BY NormalAgain
<1> HIDE DEF y
<1>3. ValidPolicySnapshot(x) /\ Normalized(x) = x
  BY <1>1, <1>2
<1>4. SnapshotIdentity(x) = Sha256(x)
  BY <1>3 DEF SnapshotIdentity
<1>5. Sha256(x) # NoDigest
  BY DEF Sha256, NoDigest
<1> QED
  BY <1>4, <1>5 DEF ValidDigest

\* Bindings from elsewhere make the same snapshot only if they are the same.
LEMMA RestoredFollows ==
  ASSUME Inductive
  PROVE  RestoredIsStored
<1> SUFFICES ASSUME NEW a \in stored, NEW b \in stored
             PROVE  EqualPolicySnapshots(a.kept, [a.kept EXCEPT !.bindings = Reverse(b.kept.bindings)])
                      <=> a.content.bindings = b.content.bindings
  BY DEF RestoredIsStored
<1> DEFINE x == a.kept
<1> DEFINE y == b.kept
<1> DEFINE restored == [x EXCEPT !.bindings = Reverse(y.bindings)]
<1>1. InNormalForm(x) /\ InNormalForm(y)
  BY DEF Inductive, NamedByContent
<1>2. a.content.bindings = ToSet(x.bindings) /\ b.content.bindings = ToSet(y.bindings)
  <2>1. a.content = Content(x) /\ b.content = Content(y)
    BY DEF Inductive, NamedByContent
  <2>2. Content(x).bindings = ToSet(x.bindings) /\ Content(y).bindings = ToSet(y.bindings)
    <3> HIDE DEF x, y
    <3> QED
      BY <1>1, FormOf DEF InNormalForm
  <2> QED
    BY <2>1, <2>2
<1> HIDE DEF x, y
<1>3. SnapshotIdentity(x) = Sha256(x) /\ ValidDigest(SnapshotIdentity(x))
  BY <1>1, OwnIdentity
<1>4. ASSUME ToSet(x.bindings) = ToSet(y.bindings)
      PROVE  EqualPolicySnapshots(x, restored)
  <2>1. x.bindings = y.bindings
    BY <1>1, <1>4, OrderedByRows DEF InNormalForm
  <2>2. restored = [x EXCEPT !.bindings = Reverse(x.bindings)]
    BY <2>1
  <2>3. ValidPolicySnapshot(restored) /\ Normalized(restored) = x
    BY <1>1, <2>2, NormalAgain
  <2> HIDE DEF restored
  <2>4. SnapshotIdentity(restored) = Sha256(x)
    BY <2>3 DEF SnapshotIdentity
  <2> QED
    BY <1>3, <2>4 DEF EqualPolicySnapshots
<1>5. ASSUME EqualPolicySnapshots(x, restored)
      PROVE  ToSet(x.bindings) = ToSet(y.bindings)
  <2>1. HasFields(restored) /\ restored.bindings = Reverse(y.bindings)
    BY <1>1, OtherBindings DEF InNormalForm
  <2> HIDE DEF restored
  <2>2. SnapshotIdentity(restored) = Sha256(x) /\ SnapshotIdentity(restored) # NoDigest
    BY <1>3, <1>5 DEF EqualPolicySnapshots, ValidDigest
  <2>3. Sha256(Normalized(restored)) = Sha256(x)
    BY <2>2 DEF SnapshotIdentity
  <2>4. Normalized(restored) = x
    BY <2>3 DEF Sha256
  <2>5. x.bindings = ByTarget(Reverse(y.bindings))
    BY <2>1, <2>4, FormOf
  <2>6. Listing(Reverse(y.bindings)) /\ ToSet(Reverse(y.bindings)) = ToSet(y.bindings)
    BY <1>1, ReversedLists DEF InNormalForm
  <2> QED
    BY <2>5, <2>6, NormalRows
<1> QED
  BY <1>2, <1>4, <1>5 DEF x, y

-----------------------------------------------------------------------------
(* Worlds, and what is read of them.                                       *)

\* Worlds of one source revision are one world.
LEMMA RevisionTells ==
  ASSUME Inductive, NEW i \in DOMAIN worlds, NEW j \in DOMAIN worlds,
         worlds[i].policy.sourceRev = worlds[j].policy.sourceRev
  PROVE  i = j
<1>1. DOMAIN worlds = 1 .. Len(worlds)
  BY LenProperties DEF Inductive
<1>2. /\ worlds[i].policy.sourceRev \in Int
      /\ ~(i < j) /\ ~(j < i)
  BY DEF Inductive, Ranked, Revision
<1> QED
  BY <1>1, <1>2

\* A service with the same configuration revision in two worlds is the same in both.
LEMMA ConfigTells ==
  ASSUME Inductive, NEW i \in DOMAIN worlds, NEW j \in DOMAIN worlds, NEW s \in Services,
         worlds[i].policy.targets[s].configRev = worlds[j].policy.targets[s].configRev
  PROVE  SameService(worlds[i], worlds[j], s)
<1>1. DOMAIN worlds = 1 .. Len(worlds)
  BY LenProperties DEF Inductive
<1>2. worlds[i].policy.targets[s].configRev \in Int
  BY DEF Inductive, Versioned, WholeWorld, Revision
<1>3. i < j => SameService(worlds[i], worlds[j], s)
  <2>1. i < j => \/ SameService(worlds[i], worlds[j], s)
                 \/ worlds[i].policy.targets[s].configRev < worlds[j].policy.targets[s].configRev
    BY DEF Inductive, Versioned
  <2> QED
    BY <1>2, <2>1
<1>4. j < i => SameService(worlds[j], worlds[i], s)
  <2>1. j < i => \/ SameService(worlds[j], worlds[i], s)
                 \/ worlds[j].policy.targets[s].configRev < worlds[i].policy.targets[s].configRev
    BY DEF Inductive, Versioned
  <2> QED
    BY <1>2, <2>1
<1> QED
  BY <1>1, <1>3, <1>4 DEF SameService

\* A table with a row for each service lists them, if its targets differ.
LEMMA TableLists ==
  ASSUME NEW order \in Orders, NEW rows, rows = [i \in DOMAIN order |-> rows[i]],
         \A i \in DOMAIN order : rows[i].target = IdOf[order[i]], Unrepeated(rows)
  PROVE  Listing(rows)
<1> DEFINE n == Len(order)
<1>1. order \in Seq(Services) /\ n \in Nat /\ DOMAIN order = 1 .. n
  BY OrdersAssumption, LenProperties
<1>2. DOMAIN rows = 1 .. n
  BY <1>1
<1> HIDE DEF n
<1>3. rows \in [1 .. n -> ToSet(rows)]
  BY <1>1, <1>2 DEF ToSet
<1>4. rows \in Seq(ToSet(rows))
  BY <1>1, <1>3, SeqDef
<1>5. \A i \in 1 .. n : order[i] \in Services
  BY <1>1, ElementOfSeq DEF n
<1>6. \A i \in DOMAIN rows : rows[i].target \in Nat
  BY <1>1, <1>2, <1>5, IdOfAssumption
<1> QED
  BY <1>4, <1>6 DEF Listing

\* The rows of a table are the rows of its services.
LEMMA TableRows ==
  ASSUME NEW order \in Orders, NEW rows, NEW row,
         DOMAIN rows = DOMAIN order, \A i \in DOMAIN order : rows[i] = row[order[i]],
         DOMAIN row = Services
  PROVE  ToSet(rows) = { row[s] : s \in Services }
<1>1. { order[i] : i \in DOMAIN order } = Services
  BY OrdersAssumption DEF ToSet
<1>2. \A s \in Services : \E i \in DOMAIN order : order[i] = s
  BY <1>1
<1>3. \A i \in DOMAIN order : order[i] \in Services
  BY <1>1
<1> QED
  BY <1>2, <1>3 DEF ToSet

\* What was read, field by field.
LEMMA AssembledIs ==
  ASSUME NEW o, NEW p, NEW q
  PROVE  /\ HasFields(Assembled(o, p, q))
         /\ Assembled(o, p, q).root = World("root").policy
         /\ Assembled(o, p, q).source.revision = World("source").policy.sourceRev
         /\ Assembled(o, p, q).source.executorSHA = Sha256(World("source").policy)
         /\ Assembled(o, p, q).source.targets = [i \in DOMAIN o |-> SourceRow(World("source"), o[i])]
         /\ Assembled(o, p, q).bindings = [i \in DOMAIN p |-> BindingRow(World("bindings"), p[i])]
         /\ Assembled(o, p, q).targets =
              [i \in DOMAIN q |-> TargetRow(World("targets"), worlds[desired], q[i])]
<1> DEFINE w(t) == World(t)
<1> DEFINE entries == [i \in DOMAIN o |-> SourceRow(w("source"), o[i])]
<1> DEFINE bindings == [i \in DOMAIN p |-> BindingRow(w("bindings"), p[i])]
<1> DEFINE targets == [i \in DOMAIN q |-> TargetRow(w("targets"), worlds[desired], q[i])]
<1>1. Assembled(o, p, q) =
        [epoch |-> 1,
         source |-> [revision |-> w("source").policy.sourceRev,
                     projectionRev |-> w("source").policy.projectionRev,
                     executorRev |-> w("source").policy.policyRev,
                     executorSHA |-> Sha256(w("source").policy),
                     targets |-> entries],
         bindings |-> bindings, targets |-> targets, root |-> w("root").policy]
  BY DEF Assembled, SourceOf, InOrder
<1> HIDE DEF w, entries, bindings, targets
<1>2. HasFields(Assembled(o, p, q))
  BY <1>1 DEF HasFields
<1>3. /\ Assembled(o, p, q).root = w("root").policy
      /\ Assembled(o, p, q).source.revision = w("source").policy.sourceRev
      /\ Assembled(o, p, q).source.executorSHA = Sha256(w("source").policy)
      /\ Assembled(o, p, q).source.targets = entries
      /\ Assembled(o, p, q).bindings = bindings
      /\ Assembled(o, p, q).targets = targets
  BY <1>1
<1> QED
  BY <1>2, <1>3 DEF w, entries, bindings, targets

\* A target state whose desired endpoint is applied is determined by its service.
LEMMA StateAtRestIs ==
  ASSUME NEW v, NEW w, NEW x, NEW s, SameService(v, w, s), Settled(TargetRow(v, x, s))
  PROVE  StateAtRest(TargetRow(v, x, s)) = StateAtRest(TargetRow(w, w, s))
<1> DEFINE fields == {"target", "service", "type", "desired", "applied",
                      "appliedEndpointRev", "configRev", "configSHA", "localPort", "docker"}
<1>1. /\ DOMAIN TargetRow(v, x, s) \ {"endpointRev"} = fields
      /\ DOMAIN TargetRow(w, w, s) \ {"endpointRev"} = fields
  BY DEF TargetRow
<1>2. x.endpoints[s] = w.endpoints[s]
  BY DEF Settled, SameService, TargetRow
<1>3. \A f \in fields : TargetRow(v, x, s)[f] = TargetRow(w, w, s)[f]
  BY <1>2 DEF TargetRow, SameService
<1> HIDE DEF fields
<1> QED
  BY <1>1, <1>3 DEF StateAtRest

\* A candidate names each of its tables' rows by target.
LEMMA CandidateLists ==
  ASSUME NEW o \in Orders, NEW p \in Orders, NEW q \in Orders,
         ValidPolicySnapshot(Assembled(o, p, q))
  PROVE  /\ Listing(Assembled(o, p, q).source.targets)
         /\ Listing(Assembled(o, p, q).bindings)
         /\ Listing(Assembled(o, p, q).targets)
<1> DEFINE c == Assembled(o, p, q)
<1>1. /\ c.source.targets = [i \in DOMAIN o |-> SourceRow(World("source"), o[i])]
      /\ c.bindings = [i \in DOMAIN p |-> BindingRow(World("bindings"), p[i])]
      /\ c.targets = [i \in DOMAIN q |-> TargetRow(World("targets"), worlds[desired], q[i])]
  BY AssembledIs
<1>2. Unrepeated(c.source.targets) /\ Unrepeated(c.bindings) /\ Unrepeated(c.targets)
  BY DEF ValidPolicySnapshot
<1> DEFINE entries == c.source.targets
<1> DEFINE bindings == c.bindings
<1> DEFINE targets == c.targets
<1> HIDE DEF c
<1>3. /\ entries = [i \in DOMAIN o |-> entries[i]]
      /\ \A i \in DOMAIN o : entries[i].target = IdOf[o[i]]
  BY <1>1 DEF SourceRow
<1>4. /\ bindings = [i \in DOMAIN p |-> bindings[i]]
      /\ \A i \in DOMAIN p : bindings[i].target = IdOf[p[i]]
  BY <1>1 DEF BindingRow
<1>5. /\ targets = [i \in DOMAIN q |-> targets[i]]
      /\ \A i \in DOMAIN q : targets[i].target = IdOf[q[i]]
  BY <1>1 DEF TargetRow
<1>6. Unrepeated(entries) /\ Unrepeated(bindings) /\ Unrepeated(targets)
  BY <1>2
<1> HIDE DEF entries, bindings, targets
<1>7. Listing(entries)
  BY <1>3, <1>6, TableLists
<1>8. Listing(bindings)
  BY <1>4, <1>6, TableLists
<1>9. Listing(targets)
  BY <1>5, <1>6, TableLists
<1> QED
  BY <1>7, <1>8, <1>9 DEF c, entries, bindings, targets

\* What a valid candidate says of one service: the binding is of the revision of
\* the source policy, the state of the configuration of the root policy
\* and with no endpoint in transition.
LEMMA CandidateSays ==
  ASSUME NEW o \in Orders, NEW p \in Orders, NEW q \in Orders,
         ValidPolicySnapshot(Assembled(o, p, q)), NEW s \in Services
  PROVE  /\ World("bindings").policy.sourceRev = World("source").policy.sourceRev
         /\ World("root").policy.targets[s].configRev = World("targets").policy.targets[s].configRev
         /\ Settled(TargetRow(World("targets"), worlds[desired], s))
<1> DEFINE c == Assembled(o, p, q)
<1>1. /\ c.root = World("root").policy
      /\ c.source.revision = World("source").policy.sourceRev
      /\ c.source.targets = [i \in DOMAIN o |-> SourceRow(World("source"), o[i])]
      /\ c.bindings = [i \in DOMAIN p |-> BindingRow(World("bindings"), p[i])]
      /\ c.targets = [i \in DOMAIN q |-> TargetRow(World("targets"), worlds[desired], q[i])]
  BY AssembledIs
<1>2. /\ \A i \in DOMAIN c.bindings : BindingOfRevision(c.bindings[i], c.source)
      /\ \A e \in DOMAIN c.source.targets :
           \A b \in RowOf(c.bindings, c.source.targets[e].target),
              t \in RowOf(c.targets, c.source.targets[e].target) :
             TargetAgrees(c.source.targets[e], c.bindings[b], c.targets[t], c.root)
      /\ \A i \in DOMAIN c.targets : ValidTargetState(c.targets[i])
  BY DEF ValidPolicySnapshot
<1> HIDE DEF c
<1>3. PICK e \in DOMAIN o : o[e] = s
  BY OrdersAssumption DEF ToSet
<1>4. PICK b \in DOMAIN p : p[b] = s
  BY OrdersAssumption DEF ToSet
<1>5. PICK t \in DOMAIN q : q[t] = s
  BY OrdersAssumption DEF ToSet
<1>6. /\ e \in DOMAIN c.source.targets /\ c.source.targets[e] = SourceRow(World("source"), s)
      /\ b \in DOMAIN c.bindings /\ c.bindings[b] = BindingRow(World("bindings"), s)
      /\ t \in DOMAIN c.targets /\ c.targets[t] = TargetRow(World("targets"), worlds[desired], s)
  BY <1>1, <1>3, <1>4, <1>5
<1>7. /\ SourceRow(World("source"), s).target = IdOf[s]
      /\ SourceRow(World("source"), s).service = s
      /\ BindingRow(World("bindings"), s).target = IdOf[s]
      /\ BindingRow(World("bindings"), s).revision = World("bindings").policy.sourceRev
      /\ TargetRow(World("targets"), worlds[desired], s).target = IdOf[s]
      /\ TargetRow(World("targets"), worlds[desired], s).configRev
           = World("targets").policy.targets[s].configRev
  BY DEF SourceRow, BindingRow, TargetRow
<1>8. World("bindings").policy.sourceRev = World("source").policy.sourceRev
  BY <1>1, <1>2, <1>6, <1>7 DEF BindingOfRevision
<1>9. b \in RowOf(c.bindings, IdOf[s]) /\ t \in RowOf(c.targets, IdOf[s])
  BY <1>6, <1>7 DEF RowOf
<1>10. TargetAgrees(c.source.targets[e], c.bindings[b], c.targets[t], c.root)
  BY <1>2, <1>6, <1>7, <1>9
<1>11. RootTargetMatchesRef(c.root.targets[s], RefOf(c.targets[t]))
  BY <1>6, <1>7, <1>10 DEF TargetAgrees
<1>12. c.root.targets[s].configRev = c.targets[t].configRev
  BY <1>11 DEF RootTargetMatchesRef, RefOf
<1>13. Settled(TargetRow(World("targets"), worlds[desired], s))
  BY <1>2, <1>6 DEF ValidTargetState
<1> QED
  BY <1>1, <1>6, <1>7, <1>8, <1>12, <1>13

\* So it shows the host as it was in one world.
LEMMA CandidateIsTaken ==
  ASSUME Inductive, NEW o \in Orders, NEW p \in Orders, NEW q \in Orders,
         ValidPolicySnapshot(Assembled(o, p, q))
  PROVE  \E w \in DOMAIN worlds : TakenOf(Assembled(o, p, q), worlds[w])
<1> DEFINE c == Assembled(o, p, q)
<1> DEFINE world == World("root")
<1>1. /\ c.root = World("root").policy
      /\ c.source.executorSHA = Sha256(World("source").policy)
      /\ c.source.targets = [i \in DOMAIN o |-> SourceRow(World("source"), o[i])]
      /\ c.bindings = [i \in DOMAIN p |-> BindingRow(World("bindings"), p[i])]
      /\ c.targets = [i \in DOMAIN q |-> TargetRow(World("targets"), worlds[desired], q[i])]
  BY AssembledIs
<1>2. /\ versions["root"] \in DOMAIN worlds /\ versions["source"] \in DOMAIN worlds
      /\ versions["bindings"] \in DOMAIN worlds /\ versions["targets"] \in DOMAIN worlds
  BY DEF Inductive, Known, Tables
<1>3. World("source") = world
  <2>1. Sha256(World("source").policy) = Sha256(world.policy)
    BY <1>1 DEF ValidPolicySnapshot, PoliciesAgree
  <2>2. World("source").policy.sourceRev = world.policy.sourceRev
    BY <2>1 DEF Sha256
  <2> QED
    BY <1>2, <2>2, RevisionTells DEF World
<1>4. \A s \in Services : World("bindings") = world
  <2> TAKE s \in Services
  <2>1. World("bindings").policy.sourceRev = World("source").policy.sourceRev
    BY CandidateSays
  <2>2. World("bindings") = World("source")
    BY <1>2, <2>1, RevisionTells DEF World
  <2> QED
    BY <1>3, <2>2
<1>5. ASSUME NEW s \in Services
      PROVE  SameService(World("targets"), world, s)
  <2>1. world.policy.targets[s].configRev = World("targets").policy.targets[s].configRev
    BY CandidateSays
  <2> QED
    BY <1>2, <2>1, ConfigTells DEF World
<1>6. ToSet(c.source.targets) = { SourceRow(world, s) : s \in Services }
  <2> DEFINE row == [s \in Services |-> SourceRow(world, s)]
  <2> DEFINE rows == c.source.targets
  <2>1. /\ DOMAIN rows = DOMAIN o /\ \A i \in DOMAIN o : rows[i] = SourceRow(world, o[i])
    <3> HIDE DEF c, world
    <3> QED
      BY <1>1, <1>3
  <2>2. \A i \in DOMAIN o : o[i] \in Services
    BY OrdersAssumption DEF ToSet
  <2>3. \A i \in DOMAIN o : rows[i] = row[o[i]]
    <3> HIDE DEF c, world, rows
    <3> QED
      BY <2>1, <2>2
  <2>4. DOMAIN row = Services /\ \A s \in Services : row[s] = SourceRow(world, s)
    OBVIOUS
  <2> HIDE DEF row, rows, c, world
  <2>5. ToSet(rows) = { row[s] : s \in Services }
    BY <2>1, <2>3, <2>4, TableRows
  <2> QED
    BY <2>4, <2>5 DEF rows
<1>7. ToSet(c.bindings) = { BindingRow(world, s) : s \in Services }
  <2> DEFINE row == [s \in Services |-> BindingRow(world, s)]
  <2> DEFINE rows == c.bindings
  <2>1. \A i \in DOMAIN p : p[i] \in Services
    BY OrdersAssumption DEF ToSet
  <2>2. /\ DOMAIN rows = DOMAIN p /\ \A i \in DOMAIN p : rows[i] = BindingRow(world, p[i])
    <3> HIDE DEF c, world
    <3> QED
      BY <1>1, <1>4, <2>1
  <2>3. \A i \in DOMAIN p : rows[i] = row[p[i]]
    <3> HIDE DEF c, world, rows
    <3> QED
      BY <2>1, <2>2
  <2>4. DOMAIN row = Services /\ \A s \in Services : row[s] = BindingRow(world, s)
    OBVIOUS
  <2> HIDE DEF row, rows, c, world
  <2>5. ToSet(rows) = { row[s] : s \in Services }
    BY <2>2, <2>3, <2>4, TableRows
  <2> QED
    BY <2>4, <2>5 DEF rows
<1>8. { StateAtRest(r) : r \in ToSet(c.targets) } =
        { StateAtRest(TargetRow(world, world, s)) : s \in Services }
  <2> DEFINE state(s) == TargetRow(World("targets"), worlds[desired], s)
  <2> DEFINE row == [s \in Services |-> state(s)]
  <2> DEFINE rows == c.targets
  <2>1. \A i \in DOMAIN q : q[i] \in Services
    BY OrdersAssumption DEF ToSet
  <2>2. /\ DOMAIN rows = DOMAIN q /\ \A i \in DOMAIN q : rows[i] = state(q[i])
    <3> HIDE DEF c
    <3> QED
      BY <1>1
  <2>3. \A s \in Services :
          StateAtRest(state(s)) = StateAtRest(TargetRow(world, world, s))
    <3> TAKE s \in Services
    <3>1. SameService(World("targets"), world, s)
      BY <1>5
    <3>2. Settled(TargetRow(World("targets"), worlds[desired], s))
      BY CandidateSays
    <3> HIDE DEF world
    <3> QED
      BY <3>1, <3>2, StateAtRestIs
  <2> HIDE DEF state
  <2>4. \A i \in DOMAIN q : rows[i] = row[q[i]]
    <3> HIDE DEF c, rows
    <3> QED
      BY <2>1, <2>2
  <2>5. DOMAIN row = Services /\ \A s \in Services : row[s] = state(s)
    OBVIOUS
  <2> HIDE DEF row, rows, c, world
  <2>6. ToSet(rows) = { row[s] : s \in Services }
    BY <2>2, <2>4, <2>5, TableRows
  <2>7. ToSet(rows) = { state(s) : s \in Services }
    BY <2>5, <2>6
  <2> QED
    BY <2>3, <2>7 DEF rows
<1>9. c.root = world.policy
  BY <1>1
<1>10. TakenOf(c, world)
  <2> HIDE DEF c, world
  <2> QED
    BY <1>6, <1>7, <1>8, <1>9 DEF TakenOf
<1> QED
  BY <1>2, <1>10 DEF World

-----------------------------------------------------------------------------
(* What a request changes.                                                 *)

\* A request asks for a later revision than the one it was made from.
LEMMA AfterRefAdvances ==
  ASSUME NEW snapshot, NEW row, NEW request, NEW step
  PROVE  LET before == BeforeRef(snapshot, row)
             after  == AfterRef(before, row, request, step)
         IN /\ before.sourceRev = snapshot.source.revision
            /\ after.sourceRev = before.sourceRev + step
            /\ after.configRev = before.configRev + step
BY DEF AfterRef, BeforeRef

\* A policy that was changed has the source revision of the after reference, ...
LEMMA DeltaRaises ==
  ASSUME NEW policy, NEW s, NEW before, NEW after, before # after,
         ApplyDelta(policy, s, before, after) # NoPolicy
  PROVE  /\ policy.sourceRev = before.sourceRev
         /\ ValidRevision(after.sourceRev)
         /\ ApplyDelta(policy, s, before, after).sourceRev = after.sourceRev
<1>1. DeltaAllowed(policy, s, before, after)
  BY DEF ApplyDelta
<1>2. ApplyDelta(policy, s, before, after) = Rewritten(policy, s, after)
  BY <1>1 DEF ApplyDelta
<1>3. Rewritten(policy, s, after).sourceRev = after.sourceRev
  BY DEF Rewritten
<1> QED
  BY <1>1, <1>2, <1>3 DEF DeltaAllowed, PolicyMatchesRef, CountersAdvance

\* The world a request makes: the policy of the delta, and the endpoint and the
\* container of the service it moves.
LEMMA ChangeMakes ==
  ASSUME Inductive, NEW entry \in stored, NEW s \in Services, Change(entry, s)
  PROVE  \E policy, endpoint, docker, before, after :
           /\ worlds' = Append(worlds,
                [policy |-> policy, endpoints |-> [Last(worlds).endpoints EXCEPT ![s] = endpoint],
                 dockers |-> [Last(worlds).dockers EXCEPT ![s] = docker],
                 from |-> entry.identity])
           /\ before.sourceRev = entry.kept.source.revision
           /\ \E step \in 1 .. 2 : /\ after.sourceRev = before.sourceRev + step
                                   /\ after.configRev = before.configRev + step
           /\ DeltaAllowed(Last(worlds).policy, s, before, after)
           /\ policy = ApplyDelta(Last(worlds).policy, s, before, after)
<1> DEFINE now == Last(worlds)
<1> DEFINE row == StoredRow(entry.kept, s)
<1> DEFINE before == BeforeRef(entry.kept, row)
<1>1. PICK request \in Requests(entry, row), step \in 1 .. 2 :
        LET after == AfterRef(before, row, request, step)
            next  == ApplyDelta(now.policy, s, before, after)
        IN /\ next # NoPolicy
           /\ worlds' = Append(worlds,
                [policy    |-> next,
                 endpoints |-> [now.endpoints EXCEPT ![s] = EndpointAfter(row, request, step)],
                 dockers   |-> [now.dockers EXCEPT ![s] = after.docker],
                 from      |-> entry.identity])
  BY DEF Change
<1> DEFINE after == AfterRef(before, row, request, step)
<1>2. /\ before.sourceRev = entry.kept.source.revision
      /\ after.sourceRev = before.sourceRev + step
      /\ after.configRev = before.configRev + step
  BY AfterRefAdvances
<1> HIDE DEF before, row, after
<1>3. /\ ApplyDelta(now.policy, s, before, after) # NoPolicy
      /\ worlds' = Append(worlds,
                [policy    |-> ApplyDelta(now.policy, s, before, after),
                 endpoints |-> [now.endpoints EXCEPT ![s] = EndpointAfter(row, request, step)],
                 dockers   |-> [now.dockers EXCEPT ![s] = after.docker],
                 from      |-> entry.identity])
  BY <1>1 DEF after
<1>4. DeltaAllowed(now.policy, s, before, after)
  BY <1>3 DEF ApplyDelta
<1> QED
  BY <1>2, <1>3, <1>4

\* Every other service is as it was, and the configuration revision of this one
\* has grown with the source revision.
LEMMA ChangeShape ==
  ASSUME Inductive, NEW entry \in stored, NEW s \in Services, Change(entry, s)
  PROVE  /\ \E x : /\ worlds' = Append(worlds, x)
                   /\ x.from = entry.identity
                   /\ x.policy.sourceRev \in Revision
                   /\ worlds[Len(worlds)].policy.sourceRev < x.policy.sourceRev
                   /\ worlds[Len(worlds)].policy.sourceRev = entry.kept.source.revision
                   /\ WholeWorld(x)
                   /\ \A t \in Services :
                        \/ SameService(worlds[Len(worlds)], x, t)
                        \/ worlds[Len(worlds)].policy.targets[t].configRev
                             < x.policy.targets[t].configRev
         /\ stored' = stored /\ versions' = versions
<1> DEFINE now == Last(worlds)
<1>1. PICK policy, endpoint, docker, before, after :
           /\ worlds' = Append(worlds,
                [policy |-> policy, endpoints |-> [now.endpoints EXCEPT ![s] = endpoint],
                 dockers |-> [now.dockers EXCEPT ![s] = docker], from |-> entry.identity])
           /\ before.sourceRev = entry.kept.source.revision
           /\ \E step \in 1 .. 2 : /\ after.sourceRev = before.sourceRev + step
                                   /\ after.configRev = before.configRev + step
           /\ DeltaAllowed(now.policy, s, before, after)
           /\ policy = ApplyDelta(now.policy, s, before, after)
  BY ChangeMakes
<1>2. PICK step \in 1 .. 2 : /\ after.sourceRev = before.sourceRev + step
                             /\ after.configRev = before.configRev + step
  BY <1>1
<1>3. Len(worlds) \in DOMAIN worlds /\ now = worlds[Len(worlds)]
  BY LenProperties DEF Inductive, Last
<1>4. WholeWorld(now) /\ now.policy.sourceRev \in Revision
  BY <1>3 DEF Inductive, Versioned, Ranked
<1> DEFINE x == [policy |-> policy, endpoints |-> [now.endpoints EXCEPT ![s] = endpoint],
                 dockers |-> [now.dockers EXCEPT ![s] = docker], from |-> entry.identity]
<1>5. /\ worlds' = Append(worlds, x) /\ x.policy = policy /\ x.from = entry.identity
      /\ x.endpoints = [now.endpoints EXCEPT ![s] = endpoint]
      /\ x.dockers = [now.dockers EXCEPT ![s] = docker]
  BY <1>1
<1> HIDE DEF now, x
<1>6. /\ now.policy.sourceRev = before.sourceRev
      /\ now.policy.targets[s].configRev = before.configRev
      /\ ValidRevision(after.sourceRev) /\ ValidRevision(after.configRev)
  BY <1>1 DEF DeltaAllowed, PolicyMatchesRef, RootTargetMatchesRef, CountersAdvance
<1>7. before.sourceRev \in Revision /\ before.configRev \in Revision
  BY <1>4, <1>6 DEF WholeWorld
<1>8. before # after
  BY <1>2, <1>7 DEF Revision
<1>9. policy = Rewritten(now.policy, s, after)
  BY <1>1, <1>8 DEF ApplyDelta
<1>10. /\ policy.sourceRev = after.sourceRev
       /\ policy.targets = [now.policy.targets EXCEPT ![s] = MovedTarget(now.policy.targets[s], after)]
  BY <1>9 DEF Rewritten
<1>11. \A t \in Services \ {s} : policy.targets[t] = now.policy.targets[t]
  BY <1>4, <1>10 DEF WholeWorld
<1>12. policy.targets[s].configRev = after.configRev
  <2>1. policy.targets[s] = MovedTarget(now.policy.targets[s], after)
    BY <1>4, <1>10 DEF WholeWorld
  <2> QED
    BY <2>1 DEF MovedTarget
<1>13. /\ after.sourceRev \in Revision /\ now.policy.sourceRev < after.sourceRev
       /\ after.configRev \in Revision /\ before.configRev < after.configRev
  BY <1>2, <1>6, <1>7, MaxRevisionAssumption DEF Revision, ValidRevision
<1>14. WholeWorld(x)
  <2>1. /\ DOMAIN policy.targets = Services
        /\ DOMAIN x.endpoints = Services /\ DOMAIN x.dockers = Services
    BY <1>4, <1>5, <1>10 DEF WholeWorld
  <2>2. \A t \in Services : policy.targets[t].configRev \in Revision
    BY <1>4, <1>11, <1>12, <1>13 DEF WholeWorld
  <2> QED
    BY <1>5, <2>1, <2>2 DEF WholeWorld
<1>15. ASSUME NEW t \in Services
       PROVE  \/ SameService(now, x, t)
              \/ now.policy.targets[t].configRev < x.policy.targets[t].configRev
  <2>1. CASE t = s
    BY <1>5, <1>6, <1>12, <1>13, <2>1
  <2>2. CASE t # s
    BY <1>4, <1>5, <1>11, <2>2 DEF WholeWorld, SameService
  <2> QED
    BY <2>1, <2>2
<1>16. stored' = stored /\ versions' = versions
  BY DEF Change
<1> QED
  BY <1>1, <1>3, <1>5, <1>6, <1>10, <1>13, <1>14, <1>15, <1>16

-----------------------------------------------------------------------------
(* Every step keeps the invariant.                                         *)

\* A host that is enrolled has changed nothing yet.
LEMMA InitInductive == Init => Inductive
<1> SUFFICES ASSUME Init PROVE Inductive
  OBVIOUS
<1>1. PICK w \in InitWorlds : worlds = <<w>>
  BY DEF Init
<1>2. /\ Len(worlds) = 1 /\ DOMAIN worlds = {1} /\ worlds[1] = w
      /\ ToSet(worlds) = {w}
  BY <1>1 DEF ToSet
<1>3. worlds \in Seq(ToSet(worlds))
  BY <1>1, <1>2
<1>4. Known
  BY <1>2 DEF Init, Known
<1>5. Ranked
  BY <1>2, InitWorldsAssumption DEF Ranked
<1>6. Versioned
  BY <1>2, InitWorldsAssumption DEF Versioned, WholeWorld
<1>7. MadeFromStored /\ NamedByContent /\ OneMoment
  BY <1>2 DEF Init, MadeFromStored, NamedByContent, OneMoment
<1> QED
  BY <1>2, <1>3, <1>4, <1>5, <1>6, <1>7 DEF Inductive

\* A change adds a world after the others, later than all of them.
LEMMA ChangeInductive ==
  ASSUME Inductive, NEW entry \in stored, NEW s \in Services, Change(entry, s)
  PROVE  Inductive'
<1>1. PICK x : /\ worlds' = Append(worlds, x)
               /\ x.from = entry.identity
               /\ x.policy.sourceRev \in Revision
               /\ worlds[Len(worlds)].policy.sourceRev < x.policy.sourceRev
               /\ worlds[Len(worlds)].policy.sourceRev = entry.kept.source.revision
               /\ WholeWorld(x)
               /\ \A t \in Services :
                    \/ SameService(worlds[Len(worlds)], x, t)
                    \/ worlds[Len(worlds)].policy.targets[t].configRev
                         < x.policy.targets[t].configRev
  BY ChangeShape
<1>2. stored' = stored /\ versions' = versions
  BY ChangeShape
<1> DEFINE n == Len(worlds)
<1>3. worlds \in Seq(ToSet(worlds)) /\ n \in Nat /\ n > 0 /\ DOMAIN worlds = 1 .. n
  BY LenProperties DEF Inductive
<1>4. /\ worlds' \in Seq(ToSet(worlds) \cup {x}) /\ Len(worlds') = n + 1
      /\ DOMAIN worlds' = 1 .. n + 1
      /\ \A i \in 1 .. n : worlds'[i] = worlds[i]
      /\ worlds'[n + 1] = x
  <2>1. worlds \in Seq(ToSet(worlds) \cup {x})
    BY <1>3
  <2> DEFINE S == ToSet(worlds) \cup {x}
  <2>2. worlds \in Seq(S) /\ x \in S
    BY <2>1
  <2> HIDE DEF S
  <2>3. /\ Append(worlds, x) \in Seq(S) /\ Len(Append(worlds, x)) = n + 1
        /\ \A i \in 1 .. n : Append(worlds, x)[i] = worlds[i]
        /\ Append(worlds, x)[n + 1] = x
    BY <2>2, AppendProperties
  <2> QED
    BY <1>1, <1>3, <2>3, LenProperties DEF S
<1>5. worlds' \in Seq(ToSet(worlds'))
  <2>1. ToSet(worlds') = ToSet(worlds) \cup {x}
    BY <1>3, <1>4 DEF ToSet
  <2> QED
    BY <1>4, <2>1
<1>6. Known'
  <2>1. versions \in [Tables -> 1 .. n]
    BY <1>3 DEF Inductive, Known
  <2>2. versions' \in [Tables -> 1 .. n + 1]
    BY <1>2, <1>3, <2>1
  <2> QED
    BY <1>4, <2>2 DEF Known, Tables
<1>7. Ranked'
  <2>1. \A i \in 1 .. n : worlds[i].policy.sourceRev \in Revision
    BY <1>3 DEF Inductive, Ranked
  <2>2. \A i, j \in 1 .. n : i < j => worlds[i].policy.sourceRev < worlds[j].policy.sourceRev
    BY <1>3 DEF Inductive, Ranked
  <2>3. \A i \in 1 .. n : worlds[i].policy.sourceRev <= worlds[n].policy.sourceRev
    BY <1>3, <2>1, <2>2, MaxRevisionAssumption DEF Revision
  <2>4. \A i \in 1 .. n : worlds[i].policy.sourceRev < x.policy.sourceRev
    BY <1>1, <1>3, <2>1, <2>3, MaxRevisionAssumption DEF Revision
  <2>5. \A i \in 1 .. n + 1 : worlds'[i].policy.sourceRev \in Revision
    <3> TAKE i \in 1 .. n + 1
    <3>1. CASE i = n + 1
      BY <1>1, <1>4, <3>1
    <3>2. CASE i \in 1 .. n
      BY <1>4, <2>1, <3>2
    <3> QED
      BY <1>3, <3>1, <3>2
  <2>6. \A i, j \in 1 .. n + 1 :
          i < j => worlds'[i].policy.sourceRev < worlds'[j].policy.sourceRev
    <3> SUFFICES ASSUME NEW i \in 1 .. n + 1, NEW j \in 1 .. n + 1, i < j
                 PROVE  worlds'[i].policy.sourceRev < worlds'[j].policy.sourceRev
      OBVIOUS
    <3>1. CASE j = n + 1
      <4>1. i \in 1 .. n
        BY <1>3, <3>1
      <4> QED
        BY <1>4, <2>4, <3>1, <4>1
    <3>2. CASE j \in 1 .. n
      <4>1. i \in 1 .. n
        BY <1>3, <3>2
      <4> QED
        BY <1>4, <2>2, <3>2, <4>1
    <3> QED
      BY <1>3, <3>1, <3>2
  <2> QED
    BY <1>4, <2>5, <2>6 DEF Ranked, Revision
<1>8. Versioned'
  <2>1. \A i \in 1 .. n : WholeWorld(worlds[i])
    BY <1>3 DEF Inductive, Versioned
  <2>2. \A i \in 1 .. n + 1 : WholeWorld(worlds'[i])
    <3> TAKE i \in 1 .. n + 1
    <3>1. CASE i = n + 1
      BY <1>1, <1>4, <3>1
    <3>2. CASE i \in 1 .. n
      BY <1>4, <2>1, <3>2
    <3> QED
      BY <1>3, <3>1, <3>2
  <2>3. ASSUME NEW i \in 1 .. n, NEW t \in Services
        PROVE  \/ SameService(worlds[i], x, t)
               \/ worlds[i].policy.targets[t].configRev < x.policy.targets[t].configRev
    <3>1. \/ SameService(worlds[n], x, t)
          \/ worlds[n].policy.targets[t].configRev < x.policy.targets[t].configRev
      BY <1>1
    <3>2. \/ SameService(worlds[i], worlds[n], t)
          \/ worlds[i].policy.targets[t].configRev < worlds[n].policy.targets[t].configRev
      <4>1. CASE i = n
        BY <4>1 DEF SameService
      <4>2. CASE i < n
        <5>1. i \in DOMAIN worlds /\ n \in DOMAIN worlds
          BY <1>3
        <5> HIDE DEF n
        <5> QED
          BY <4>2, <5>1 DEF Inductive, Versioned
      <4>3. i = n \/ i < n
        <5> HIDE DEF n
        <5> QED
          BY <1>3
      <4> QED
        BY <4>1, <4>2, <4>3, Zenon
    <3>3. /\ worlds[i].policy.targets[t].configRev \in Int
          /\ worlds[n].policy.targets[t].configRev \in Int
          /\ x.policy.targets[t].configRev \in Int
      BY <1>1, <1>3, <2>1 DEF WholeWorld, Revision
    <3> QED
      BY <3>1, <3>2, <3>3 DEF SameService
  <2>4. ASSUME NEW i \in 1 .. n + 1, NEW j \in 1 .. n + 1, NEW t \in Services, i < j
        PROVE  \/ SameService(worlds'[i], worlds'[j], t)
               \/ worlds'[i].policy.targets[t].configRev < worlds'[j].policy.targets[t].configRev
    <3>1. CASE j = n + 1
      <4>1. i \in 1 .. n
        BY <1>3, <2>4, <3>1
      <4> QED
        BY <1>4, <2>3, <3>1, <4>1
    <3>2. CASE j \in 1 .. n
      <4>1. i \in 1 .. n
        BY <1>3, <2>4, <3>2
      <4>2. worlds'[i] = worlds[i] /\ worlds'[j] = worlds[j]
        BY <1>4, <3>2, <4>1
      <4>3. \/ SameService(worlds[i], worlds[j], t)
            \/ worlds[i].policy.targets[t].configRev < worlds[j].policy.targets[t].configRev
        BY <1>3, <2>4, <3>2, <4>1 DEF Inductive, Versioned
      <4> QED
        BY <4>2, <4>3
    <3> QED
      BY <1>3, <3>1, <3>2
  <2> QED
    BY <1>4, <2>2, <2>4 DEF Versioned
<1>9. MadeFromStored'
  <2>1. \A i \in 2 .. n + 1 : \E e \in stored :
          /\ worlds'[i].from = e.identity
          /\ worlds'[i - 1].policy.sourceRev = e.kept.source.revision
    <3> TAKE i \in 2 .. n + 1
    <3>1. CASE i = n + 1
      <4>1. i - 1 = n /\ n \in 1 .. n
        BY <1>3, <3>1
      <4>2. worlds'[i] = x /\ worlds'[i - 1] = worlds[n]
        BY <1>4, <3>1, <4>1
      <4> QED
        BY <1>1, <4>2
    <3>2. CASE i \in 2 .. n
      <4>1. i \in 1 .. n /\ i - 1 \in 1 .. n
        BY <1>3, <3>2
      <4>2. worlds'[i] = worlds[i] /\ worlds'[i - 1] = worlds[i - 1]
        BY <1>4, <4>1
      <4> QED
        BY <3>2, <4>2 DEF Inductive, MadeFromStored
    <3> QED
      BY <1>3, <3>1, <3>2
  <2> QED
    BY <1>2, <1>4, <2>1 DEF MadeFromStored
<1>10. NamedByContent'
  BY <1>2 DEF Inductive, NamedByContent
<1>11. OneMoment'
  <2>1. \A e \in stored : \E w \in 1 .. n : TakenOf(e.kept, worlds[w])
    BY <1>3 DEF Inductive, OneMoment
  <2>2. \A e \in stored : \E w \in 1 .. n + 1 : TakenOf(e.kept, worlds'[w])
    <3> TAKE e \in stored
    <3>1. PICK w \in 1 .. n : TakenOf(e.kept, worlds[w])
      BY <2>1
    <3>2. w \in 1 .. n + 1 /\ worlds'[w] = worlds[w]
      BY <1>3, <1>4
    <3> QED
      BY <3>1, <3>2
  <2> QED
    BY <1>2, <1>4, <2>2 DEF OneMoment
<1> QED
  BY <1>3, <1>4, <1>5, <1>6, <1>7, <1>8, <1>9, <1>10, <1>11 DEF Inductive

\* Reading and storing change no world: what remains to be shown is about the
\* tables that were read and the snapshots that were stored.
LEMMA StoreInductive ==
  ASSUME Inductive, worlds' = worlds, Known', stored \subseteq stored',
         \A entry \in stored' \ stored :
           /\ InNormalForm(entry.kept)
           /\ entry.content = Content(entry.kept)
           /\ entry.identity = Sha256(entry.kept)
           /\ \E w \in DOMAIN worlds : TakenOf(entry.kept, worlds[w])
  PROVE  Inductive'
<1>1. worlds' \in Seq(ToSet(worlds')) /\ Len(worlds') > 0
  BY DEF Inductive, ToSet
<1>2. Ranked' /\ Versioned'
  BY DEF Inductive, Ranked, Versioned
<1>3. MadeFromStored'
  BY DEF Inductive, MadeFromStored
<1>4. NamedByContent'
  BY DEF Inductive, NamedByContent
<1>5. OneMoment'
  BY DEF Inductive, OneMoment
<1> QED
  BY <1>1, <1>2, <1>3, <1>4, <1>5 DEF Inductive

\* What is stored is stored in normal form, and of one moment.
LEMMA StoreStores ==
  ASSUME Inductive, Store
  PROVE  Inductive'
<1>1. PICK c \in { c \in Candidates : ValidPolicySnapshot(c) } :
        stored' = stored \cup {[content |-> Content(c), kept |-> Normalized(c),
                                identity |-> SnapshotIdentity(c)]}
  BY DEF Store
<1>2. PICK o \in Orders, p \in Orders, q \in Orders : c = Assembled(o, p, q)
  BY DEF Candidates
<1>3. HasFields(c) /\ ValidPolicySnapshot(c)
  BY <1>2, AssembledIs
<1>4. Listing(c.source.targets) /\ Listing(c.bindings) /\ Listing(c.targets)
  BY <1>2, <1>3, CandidateLists
<1>5. PICK w \in DOMAIN worlds : TakenOf(c, worlds[w])
  BY <1>2, <1>3, CandidateIsTaken
<1> DEFINE entry == [content |-> Content(c), kept |-> Normalized(c),
                     identity |-> SnapshotIdentity(c)]
<1>6. /\ InNormalForm(Normalized(c))
      /\ Content(Normalized(c)) = Content(c)
      /\ Normalized(c).root = c.root
      /\ ToSet(Normalized(c).source.targets) = ToSet(c.source.targets)
      /\ ToSet(Normalized(c).bindings) = ToSet(c.bindings)
      /\ ToSet(Normalized(c).targets) = ToSet(c.targets)
  BY <1>3, <1>4, NormalForm
<1>7. SnapshotIdentity(c) = Sha256(Normalized(c))
  BY <1>3 DEF SnapshotIdentity
<1>8. TakenOf(Normalized(c), worlds[w])
  BY <1>5, <1>6 DEF TakenOf
<1>9. /\ entry.kept = Normalized(c)
      /\ entry.content = Content(c)
      /\ entry.identity = SnapshotIdentity(c)
  OBVIOUS
<1>10. stored' = stored \cup {entry}
  BY <1>1
<1> HIDE DEF entry
<1>11. \A e \in stored' \ stored : e = entry
  BY <1>10
<1>12. worlds' = worlds /\ Known' /\ stored \subseteq stored'
  BY <1>10 DEF Store, Inductive, Known, Tables
<1> QED
  BY <1>6, <1>7, <1>8, <1>9, <1>11, <1>12, StoreInductive

\* Every step keeps the invariant.
LEMMA NextInductive ==
  ASSUME Inductive, [Next]_vars
  PROVE  Inductive'
<1>1. ASSUME NEW table \in Tables, Read(table) PROVE Inductive'
  <2>1. worlds' = worlds /\ stored' = stored
    BY <1>1 DEF Read
  <2>2. PICK v \in versions[table] .. Len(worlds) : versions' = [versions EXCEPT ![table] = v]
    BY <1>1 DEF Read
  <2>3. Len(worlds) \in Nat /\ DOMAIN worlds = 1 .. Len(worlds)
    BY LenProperties DEF Inductive
  <2>4. versions \in [Tables -> 1 .. Len(worlds)]
    BY <2>3 DEF Inductive, Known
  <2>5. v \in 1 .. Len(worlds)
    BY <2>2, <2>3, <2>4
  <2>6. versions' \in [Tables -> 1 .. Len(worlds)]
    BY <2>2, <2>4, <2>5
  <2>7. Known'
    BY <2>1, <2>3, <2>6 DEF Known, Tables
  <2> QED
    BY <2>1, <2>7, StoreInductive
<1>2. CASE Store
  BY <1>2, StoreStores
<1>3. CASE Refuse
  <2>1. worlds' = worlds /\ stored' = stored /\ Known'
    BY <1>3 DEF Refuse, Inductive, Known, Tables
  <2> QED
    BY <2>1, StoreInductive
<1>4. CASE \E entry \in stored, s \in Services : Change(entry, s)
  BY <1>4, ChangeInductive
<1>5. CASE UNCHANGED vars
  <2>1. worlds' = worlds /\ stored' = stored /\ Known'
    BY <1>5 DEF vars, Inductive, Known, Tables
  <2> QED
    BY <2>1, StoreInductive
<1> QED
  BY <1>1, <1>2, <1>3, <1>4, <1>5 DEF Next

\* Two changes made from one snapshot were made of one source revision, so of
\* one world, and a world is changed once.
LEMMA OneChangeFollows ==
  ASSUME Inductive
  PROVE  OneChangePerSnapshot
<1> SUFFICES ASSUME NEW i \in 2 .. Len(worlds), NEW j \in 2 .. Len(worlds),
                    worlds[i].from = worlds[j].from
             PROVE  i = j
  BY DEF OneChangePerSnapshot
<1>1. PICK a \in stored : /\ worlds[i].from = a.identity
                          /\ worlds[i - 1].policy.sourceRev = a.kept.source.revision
  BY DEF Inductive, MadeFromStored
<1>2. PICK b \in stored : /\ worlds[j].from = b.identity
                          /\ worlds[j - 1].policy.sourceRev = b.kept.source.revision
  BY DEF Inductive, MadeFromStored
<1>3. a.kept = b.kept
  <2>1. Sha256(a.kept) = Sha256(b.kept)
    BY <1>1, <1>2 DEF Inductive, NamedByContent
  <2> QED
    BY <2>1 DEF Sha256
<1>4. worlds[i - 1].policy.sourceRev = worlds[j - 1].policy.sourceRev
  BY <1>1, <1>2, <1>3
<1>5. Len(worlds) \in Nat /\ DOMAIN worlds = 1 .. Len(worlds)
  BY LenProperties DEF Inductive
<1>6. i - 1 \in DOMAIN worlds /\ j - 1 \in DOMAIN worlds
  BY <1>5
<1>7. /\ worlds[i - 1].policy.sourceRev \in Int
      /\ ~(i - 1 < j - 1) /\ ~(j - 1 < i - 1)
  BY <1>4, <1>6 DEF Inductive, Ranked, Revision
<1> QED
  BY <1>5, <1>7

-----------------------------------------------------------------------------
\* Every change raises the source revision and was made from a stored snapshot
\* of the revision before it; a service changes only with its configuration
\* revision; and a snapshot is stored in normal form, under the digest of it.
THEOREM InductiveHolds == Spec => []Inductive
<1>1. Init => Inductive
  BY InitInductive
<1>2. Inductive /\ [Next]_vars => Inductive'
  BY NextInductive
<1> QED
  BY <1>1, <1>2, PTL DEF Spec

\* Of the requests made from one snapshot at most one ever changes the policy,
\* however stale the snapshot is and whatever has been moved back since.
THEOREM OneChangeHolds == Spec => []OneChangePerSnapshot
<1>1. Inductive => OneChangePerSnapshot
  BY OneChangeFollows
<1> QED
  BY <1>1, InductiveHolds, PTL

\* A snapshot that was accepted shows the host as it was at one moment, however
\* far the four tables it was read from were apart.
THEOREM OneMomentHolds == Spec => []OneMoment
<1>1. Inductive => OneMoment
  BY DEF Inductive
<1> QED
  BY <1>1, InductiveHolds, PTL

\* Two stored snapshots have one identity if and only if they say the same.
THEOREM IdentityHolds == Spec => []IdentityIsContent
<1>1. Inductive => IdentityIsContent
  BY IdentityFollows
<1> QED
  BY <1>1, InductiveHolds, PTL

\* A stored snapshot restored with bindings from elsewhere, in any other order,
\* equals itself if and only if the bindings are the same.
THEOREM RestoredHolds == Spec => []RestoredIsStored
<1>1. Inductive => RestoredIsStored
  BY RestoredFollows
<1> QED
  BY <1>1, InductiveHolds, PTL
=============================================================================
