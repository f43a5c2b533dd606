------------------------ MODULE VirtualColumnProofs ------------------------
(***************************************************************************)
(* What the windowed columns keep between their callbacks, for every set   *)
(* of columns and cards, every height, viewport, overscan and threshold,   *)
(* and any number of events: the types, the viewport that is filled at     *)
(* rest, and the reader who stays where he was.                            *)
(***************************************************************************)
EXTENDS VirtualColumn, FiniteSetTheorems, WellFoundedInduction, TLAPS

Sizes == [Ids -> Nat]
Views == [top : Nat, tall : Nat \ {0}]
Paints == [rows : Seq(Ids), tops : Seq(Nat), total : Nat]

----------------------------------------------------------------------------
(* Numbers.                                                                *)

LEMMA LeastNumber ==
    ASSUME NEW S \in SUBSET Nat, S # {}
    PROVE  \E m \in S : \A k \in S : m <= k
<1> DEFINE less == {pair \in Nat \X Nat : pair[1] < pair[2]}
<1>1. IsWellFoundedOn(less, Nat)
    BY NatLessThanWellFounded DEF OpToRel
<1>2. PICK m \in S : \A k \in S : ~(<<k, m>> \in less)
    <2> HIDE DEF less
    <2>1. S \subseteq Nat
        OBVIOUS
    <2>2. QED
        BY <1>1, <2>1, WFMin
<1>3. \A k \in S : m <= k
    <2> SUFFICES ASSUME NEW k \in S PROVE m <= k
        OBVIOUS
    <2>1. k \in Nat /\ m \in Nat
        OBVIOUS
    <2>2. ~(k < m)
        BY <1>2, <2>1
    <2>3. QED
        BY <2>1, <2>2
<1>4. QED
    BY <1>3

LEMMA LeastOf ==
    ASSUME NEW S \in SUBSET Nat, S # {}
    PROVE  Min(S) \in S /\ \A k \in S : Min(S) <= k
BY LeastNumber DEF Min

\* A set of numbers that holds 0 and the next of each is that of all numbers.
LEMMA Counting ==
    ASSUME NEW S \in SUBSET Nat, 0 \in S, \A n \in S : n + 1 \in S
    PROVE  S = Nat
<1> DEFINE missing == Nat \ S
<1>1. SUFFICES ASSUME missing # {} PROVE FALSE
    OBVIOUS
<1>2. PICK m \in missing : \A k \in missing : m <= k
    <2>1. missing \in SUBSET Nat
        OBVIOUS
    <2> HIDE DEF missing
    <2>2. QED
        BY <1>1, <2>1, LeastNumber
<1>3. m \in Nat /\ m # 0
    OBVIOUS
<1>4. m - 1 \in Nat /\ ~(m <= m - 1)
    BY <1>3
<1>5. m - 1 \in S
    BY <1>2, <1>4
<1>6. m - 1 + 1 = m
    BY <1>3
<1>7. QED
    BY <1>5, <1>6

LEMMA OfTwo ==
    ASSUME NEW a \in Int, NEW b \in Int
    PROVE  /\ Max({a, b}) = IF a >= b THEN a ELSE b
           /\ Min({a, b}) = IF a <= b THEN a ELSE b
<1>1. \E x \in {a, b} : \A y \in {a, b} : x >= y
    BY a >= b \/ b >= a
<1>2. Max({a, b}) \in {a, b} /\ \A y \in {a, b} : Max({a, b}) >= y
    BY <1>1 DEF Max
<1>3. \E x \in {a, b} : \A y \in {a, b} : x <= y
    BY a <= b \/ b <= a
<1>4. Min({a, b}) \in {a, b} /\ \A y \in {a, b} : Min({a, b}) <= y
    BY <1>3 DEF Min
<1>5. QED
    BY <1>2, <1>4

LEMMA SameEnd ==
    ASSUME NEW m \in Nat, NEW n \in Nat, 1..m = 1..n
    PROVE  m = n
<1>1. m # 0 => m \in 1..n
    OBVIOUS
<1>2. n # 0 => n \in 1..m
    OBVIOUS
<1>3. QED
    BY <1>1, <1>2

\* A finite set of numbers has a greatest one.
LEMMA GreatestOf ==
    ASSUME NEW S \in SUBSET Int, IsFiniteSet(S), S # {}
    PROVE  Max(S) \in S /\ \A k \in S : Max(S) >= k
<1> DEFINE Topped(T) == \E m \in T : \A k \in T : m >= k
           fine == {n \in Nat : \A T \in SUBSET S :
                       Cardinality(T) <= n /\ T # {} => Topped(T)}
<1>1. \A T \in SUBSET S : IsFiniteSet(T) /\ Cardinality(T) \in Nat
    BY FS_Subset, FS_CardinalityType
<1>2. 0 \in fine
    BY <1>1, FS_EmptySet
<1>3. \A n \in fine : n + 1 \in fine
    <2> SUFFICES ASSUME NEW n \in Nat, n \in fine,
                        NEW T \in SUBSET S, Cardinality(T) <= n + 1, T # {}
                 PROVE  Topped(T)
        OBVIOUS
    <2>1. PICK x \in T : TRUE
        OBVIOUS
    <2>2. Cardinality(T \ {x}) = Cardinality(T) - 1
        BY <1>1, <2>1, FS_RemoveElement
    <2>3. Cardinality(T \ {x}) <= n
        BY <1>1, <2>2
    <2>4. CASE T \ {x} = {}
        <3>1. \A k \in T : x >= k
            BY <2>1, <2>4
        <3>2. QED
            BY <2>1, <3>1
    <2>5. CASE T \ {x} # {}
        <3>1. Topped(T \ {x})
            BY <2>3, <2>5
        <3>2. PICK m \in T \ {x} : \A k \in T \ {x} : m >= k
            BY <3>1
        <3>3. \A k \in T : k \in Int
            OBVIOUS
        <3>4. CASE m >= x
            <4>1. \A k \in T : m >= k
                BY <3>2, <3>4
            <4>2. QED
                BY <3>2, <4>1
        <3>5. CASE x >= m
            <4>1. \A k \in T : x >= k
                BY <3>2, <3>3, <3>5
            <4>2. QED
                BY <2>1, <4>1
        <3>6. QED
            BY <3>3, <3>4, <3>5
    <2>6. QED
        BY <2>4, <2>5
<1>4. fine = Nat
    <2>1. fine \in SUBSET Nat
        OBVIOUS
    <2> HIDE DEF fine
    <2>2. QED
        BY <1>2, <1>3, <2>1, Counting
<1>5. Cardinality(S) \in fine
    BY <1>1, <1>4
<1>6. Topped(S)
    BY <1>1, <1>5
<1>7. QED
    BY <1>6 DEF Max

----------------------------------------------------------------------------
(* The geometry of a column.                                               *)

\* A slot is never empty: a height of 0 is none, and the estimate stands.
LEMMA SlotTyped ==
    ASSUME NEW sizes \in Sizes, NEW id \in Ids
    PROVE  SlotSize(sizes, id) \in Nat \ {0}
BY WindowAssumption DEF SlotSize, Sizes

\* ensureGeometry: each slot begins where the one before it ends.
LEMMA OffsetsDefined ==
    ASSUME NEW rows \in Seq(Ids), NEW sizes \in Sizes
    PROVE  Offsets(rows, sizes) =
               [n \in 1..(Len(rows) + 1) |->
                   IF n = 1 THEN 0
                   ELSE Offsets(rows, sizes)[n - 1] + SlotSize(sizes, rows[n - 1])]
<1> DEFINE ends == 1..(Len(rows) + 1)
           Next1(g, n) == IF n = 1 THEN 0 ELSE g[n - 1] + SlotSize(sizes, rows[n - 1])
           Obeys(g, n) == \A k \in ends : k <= n => g[k] = Next1(g, k)
           reached == {n \in Nat : \E g : Obeys(g, n)}
<1>1. 0 \in reached
    OBVIOUS
<1>2. \A n \in reached : n + 1 \in reached
    <2> SUFFICES ASSUME NEW n \in Nat, NEW g, Obeys(g, n) PROVE n + 1 \in reached
        OBVIOUS
    <2> DEFINE h == [k \in ends |-> IF k <= n THEN g[k] ELSE Next1(g, k)]
    <2>1. ASSUME NEW k \in ends, k <= n + 1 PROVE h[k] = Next1(h, k)
        <3>1. h[k] = Next1(g, k)
            OBVIOUS
        <3>2. CASE k = 1
            BY <3>1, <3>2
        <3>3. CASE k # 1
            <4>1. k - 1 \in ends /\ k - 1 <= n
                BY <2>1, <3>3
            <4>2. h[k - 1] = g[k - 1]
                BY <4>1
            <4>3. QED
                BY <3>1, <3>3, <4>2
        <3>4. QED
            BY <3>2, <3>3
    <2>2. Obeys(h, n + 1)
        BY <2>1
    <2> HIDE DEF h, Obeys
    <2>3. QED
        BY <2>2
<1>3. reached = Nat
    <2>1. reached \in SUBSET Nat
        OBVIOUS
    <2> HIDE DEF reached
    <2>2. QED
        BY <1>1, <1>2, <2>1, Counting
<1>4. \E g : g = [n \in ends |-> Next1(g, n)]
    <2>1. Len(rows) + 1 \in reached
        <3> HIDE DEF reached
        <3>1. QED
            BY <1>3
    <2>2. PICK g : Obeys(g, Len(rows) + 1)
        BY <2>1
    <2> DEFINE h == [n \in ends |-> g[n]]
    <2>3. \A n \in ends : g[n] = Next1(g, n)
        BY <2>2
    <2>4. \A n \in ends : n # 1 => n - 1 \in ends
        OBVIOUS
    <2>5. \A n \in ends : Next1(h, n) = Next1(g, n)
        BY <2>4
    <2>6. h = [n \in ends |-> Next1(h, n)]
        BY <2>3, <2>5
    <2> HIDE DEF h
    <2>7. QED
        BY <2>6
<1> DEFINE found == CHOOSE g : g = [n \in ends |-> Next1(g, n)]
<1>5. found = [n \in ends |-> Next1(found, n)]
    <2> HIDE DEF Next1
    <2>1. QED
        BY <1>4
<1>6. Offsets(rows, sizes) = found
    BY DEF Offsets
<1> HIDE DEF found
<1>7. QED
    BY <1>5, <1>6

LEMMA OffsetsTyped ==
    ASSUME NEW rows \in Seq(Ids), NEW sizes \in Sizes
    PROVE  /\ Offsets(rows, sizes) \in [1..(Len(rows) + 1) -> Nat]
           /\ Offsets(rows, sizes)[1] = 0
           /\ \A n \in 1..Len(rows) :
                 Offsets(rows, sizes)[n + 1] = Offsets(rows, sizes)[n] + SlotSize(sizes, rows[n])
<1> DEFINE offset == Offsets(rows, sizes)
           ends == 1..(Len(rows) + 1)
           counted == {n \in Nat : \A k \in ends : k <= n => offset[k] \in Nat}
<1>1. offset = [n \in ends |-> IF n = 1 THEN 0
                               ELSE offset[n - 1] + SlotSize(sizes, rows[n - 1])]
    BY OffsetsDefined
<1> HIDE DEF offset
<1>2. offset[1] = 0
    BY <1>1
<1>3. ASSUME NEW n \in 1..Len(rows) PROVE offset[n + 1] = offset[n] + SlotSize(sizes, rows[n])
    <2>1. n + 1 \in ends /\ n + 1 # 1 /\ n + 1 - 1 = n
        OBVIOUS
    <2>2. QED
        BY <1>1, <2>1
<1>4. 0 \in counted
    OBVIOUS
<1>5. \A n \in counted : n + 1 \in counted
    <2> SUFFICES ASSUME NEW n \in counted PROVE n + 1 \in counted
        OBVIOUS
    <2>1. n \in Nat
        OBVIOUS
    <2>2. ASSUME NEW k \in ends, k <= n + 1 PROVE offset[k] \in Nat
        <3>1. CASE k = 1
            BY <1>2, <3>1
        <3>2. CASE k # 1
            <4>1. k - 1 \in 1..Len(rows) /\ k - 1 \in ends /\ k - 1 <= n /\ k - 1 + 1 = k
                BY <2>1, <2>2, <3>2
            <4>2. offset[k - 1] \in Nat
                BY <4>1
            <4>3. SlotSize(sizes, rows[k - 1]) \in Nat
                BY <4>1, SlotTyped
            <4>4. QED
                BY <1>3, <4>1, <4>2, <4>3
        <3>3. QED
            BY <3>1, <3>2
    <2>3. QED
        BY <2>1, <2>2
<1>6. counted = Nat
    <2>1. counted \in SUBSET Nat
        OBVIOUS
    <2> HIDE DEF counted
    <2>2. QED
        BY <1>4, <1>5, <2>1, Counting
<1>7. \A k \in ends : offset[k] \in Nat
    <2>1. Len(rows) + 1 \in counted
        <3> HIDE DEF counted
        <3>1. QED
            BY <1>6
    <2>2. QED
        BY <2>1
<1>8. offset \in [ends -> Nat]
    BY <1>1, <1>7
<1>9. QED
    BY <1>2, <1>3, <1>8 DEF offset

\* A slot ends below its top, and the later slots begin at its end or below.
LEMMA OffsetsGrow ==
    ASSUME NEW rows \in Seq(Ids), NEW sizes \in Sizes,
           NEW m \in 1..(Len(rows) + 1), NEW n \in 1..(Len(rows) + 1), m < n
    PROVE  Offsets(rows, sizes)[m] < Offsets(rows, sizes)[n]
<1> DEFINE offset == Offsets(rows, sizes)
           grown == {k \in Nat : m + k + 1 \in 1..(Len(rows) + 1) => offset[m] < offset[m + k + 1]}
<1>1. /\ offset \in [1..(Len(rows) + 1) -> Nat]
      /\ \A k \in 1..Len(rows) : offset[k + 1] = offset[k] + SlotSize(sizes, rows[k])
    BY OffsetsTyped
<1>2. \A k \in 1..Len(rows) : SlotSize(sizes, rows[k]) \in Nat \ {0}
    BY SlotTyped
<1> HIDE DEF offset
<1>3. \A k \in 1..Len(rows) : offset[k] \in Nat /\ offset[k + 1] \in Nat /\ offset[k] < offset[k + 1]
    <2> SUFFICES ASSUME NEW k \in 1..Len(rows)
                 PROVE  offset[k] \in Nat /\ offset[k + 1] \in Nat /\ offset[k] < offset[k + 1]
        OBVIOUS
    <2>1. k \in 1..(Len(rows) + 1) /\ k + 1 \in 1..(Len(rows) + 1)
        OBVIOUS
    <2>2. QED
        BY <1>1, <1>2, <2>1
<1>4. 0 \in grown
    BY <1>3
<1>5. \A k \in grown : k + 1 \in grown
    <2> SUFFICES ASSUME NEW k \in Nat, k \in grown, m + (k + 1) + 1 \in 1..(Len(rows) + 1)
                 PROVE  offset[m] < offset[m + (k + 1) + 1]
        OBVIOUS
    <2>1. m + k + 1 \in 1..Len(rows) /\ m + k + 1 + 1 = m + (k + 1) + 1
        OBVIOUS
    <2>2. offset[m] < offset[m + k + 1] /\ offset[m] \in Nat
        BY <1>1, <2>1
    <2>3. offset[m + k + 1] < offset[m + k + 1 + 1] /\ offset[m + k + 1] \in Nat
          /\ offset[m + k + 1 + 1] \in Nat
        BY <1>3, <2>1
    <2>4. QED
        BY <2>1, <2>2, <2>3
<1>6. grown = Nat
    <2>1. grown \in SUBSET Nat
        OBVIOUS
    <2> HIDE DEF grown
    <2>2. QED
        BY <1>4, <1>5, <2>1, Counting
<1>7. n - m - 1 \in grown /\ m + (n - m - 1) + 1 = n
    <2> HIDE DEF grown
    <2>1. QED
        BY <1>6
<1>8. QED
    BY <1>7 DEF offset

\* The row whose slot holds a line of the column.
Holds(rows, sizes, k, line) ==
    Offsets(rows, sizes)[k] <= line /\ line < Offsets(rows, sizes)[k + 1]

\* firstIndexAfter skips no row whose slot ends after the top.
LEMMA FirstAfter ==
    ASSUME NEW rows \in Seq(Ids), NEW sizes \in Sizes, NEW top \in Nat, rows # <<>>
    PROVE  /\ FirstIndexAfter(rows, sizes, top) \in 1..Len(rows)
           /\ \A k \in 1..Len(rows) :
                 Offsets(rows, sizes)[k + 1] > top => FirstIndexAfter(rows, sizes, top) <= k
           /\ \A k \in 1..Len(rows) :
                 Holds(rows, sizes, k, top) => FirstIndexAfter(rows, sizes, top) = k
<1> DEFINE offset == Offsets(rows, sizes)
           after == {n \in 1..Len(rows) : offset[n + 1] > top} \cup {Len(rows)}
<1>1. Len(rows) \in 1..Len(rows) /\ DOMAIN rows = 1..Len(rows)
    OBVIOUS
<1>2. after \in SUBSET Nat /\ after # {} /\ after \subseteq 1..Len(rows)
    BY <1>1
<1>3. FirstIndexAfter(rows, sizes, top) = Min(after)
    BY <1>1 DEF FirstIndexAfter
<1>4. Min(after) \in after /\ \A k \in after : Min(after) <= k
    <2> HIDE DEF after
    <2>1. QED
        BY <1>2, LeastOf
<1>5. ASSUME NEW k \in 1..Len(rows), Holds(rows, sizes, k, top) PROVE Min(after) = k
    <2>1. k \in after
        BY <1>5 DEF Holds
    <2>2. Min(after) <= k
        <3> HIDE DEF after
        <3>1. QED
            BY <1>4, <2>1
    <2> DEFINE m == Min(after)
    <2>3. m \in 1..Len(rows) /\ m \in after
        BY <1>2, <1>4
    <2> HIDE DEF m
    <2>4. SUFFICES ASSUME m < k PROVE FALSE
        BY <2>2, <2>3 DEF m
    <2>5. offset[m + 1] > top
        <3>1. m # Len(rows)
            BY <2>3, <2>4
        <3>2. QED
            BY <2>3, <3>1
    <2>6. offset[m + 1] <= offset[k]
        <3>1. m + 1 \in 1..(Len(rows) + 1) /\ k \in 1..(Len(rows) + 1)
              /\ (m + 1 = k \/ m + 1 < k)
            BY <2>3, <2>4
        <3>2. offset \in [1..(Len(rows) + 1) -> Nat]
            BY OffsetsTyped
        <3>3. m + 1 < k => offset[m + 1] < offset[k]
            BY <3>1, OffsetsGrow
        <3> HIDE DEF offset
        <3>4. QED
            BY <3>1, <3>2, <3>3
    <2>7. offset[m + 1] \in Nat /\ offset[k] \in Nat
        <3>1. m + 1 \in 1..(Len(rows) + 1) /\ k \in 1..(Len(rows) + 1)
            BY <2>3
        <3>2. QED
            BY <3>1, OffsetsTyped
    <2>8. offset[k] <= top
        BY <1>5 DEF Holds
    <2> HIDE DEF offset
    <2>9. QED
        BY <2>5, <2>6, <2>7, <2>8
<1>6. QED
    BY <1>2, <1>3, <1>4, <1>5

\* The anchor is a row of the list, or its end where the list is empty; it is
\* the row whose slot holds the top.
LEMMA AnchorTyped ==
    ASSUME NEW rows \in Seq(Ids), NEW sizes \in Sizes, NEW top \in Nat
    PROVE  /\ AnchorIndexFor(rows, sizes, top) \in 1..(Len(rows) + 1)
           /\ \A k \in 1..Len(rows) :
                 Holds(rows, sizes, k, top) => AnchorIndexFor(rows, sizes, top) = k
<1> DEFINE offset == Offsets(rows, sizes)
           begun == {1} \cup {n \in 1..Len(rows) : offset[n] <= top}
<1>1. Len(rows) \in Nat /\ DOMAIN rows = 1..Len(rows)
    OBVIOUS
<1>2. CASE rows = <<>>
    BY <1>1, <1>2 DEF AnchorIndexFor
<1>3. CASE rows # <<>>
    <2>1. Len(rows) \in 1..Len(rows)
        BY <1>3
    <2>2. begun \in SUBSET (1..Len(rows)) /\ begun # {}
        BY <2>1
    <2>3. IsFiniteSet(1..Len(rows)) /\ 1..Len(rows) \in SUBSET Int
        BY FS_Interval
    <2>4. IsFiniteSet(begun) /\ begun \in SUBSET Int
        <3> HIDE DEF begun
        <3>1. QED
            BY <2>2, <2>3, FS_Subset
    <2>5. Max(begun) \in begun /\ \A k \in begun : Max(begun) >= k
        <3> HIDE DEF begun
        <3>1. QED
            BY <2>2, <2>4, GreatestOf
    <2>6. AnchorIndexFor(rows, sizes, top) = Max(begun)
        BY <1>1, <1>3 DEF AnchorIndexFor
    <2>7. ASSUME NEW k \in 1..Len(rows), Holds(rows, sizes, k, top) PROVE Max(begun) = k
        <3>1. k \in begun
            BY <2>7 DEF Holds
        <3> DEFINE m == Max(begun)
        <3>2. m >= k /\ m \in begun
            <4> HIDE DEF begun
            <4>1. QED
                BY <2>5, <3>1
        <3>3. m \in 1..Len(rows) /\ (m = 1 \/ offset[m] <= top)
            BY <2>1, <3>2
        <3> HIDE DEF m
        <3>4. SUFFICES ASSUME m > k PROVE FALSE
            BY <3>2, <3>3 DEF m
        <3>5. offset[m] <= top
            BY <3>3, <3>4
        <3>6. k + 1 \in 1..(Len(rows) + 1) /\ m \in 1..(Len(rows) + 1)
              /\ (k + 1 = m \/ k + 1 < m)
            BY <3>3, <3>4
        <3>7. offset[m] \in Nat /\ offset[k + 1] \in Nat
            BY <3>6, OffsetsTyped
        <3>8. k + 1 < m => offset[k + 1] < offset[m]
            BY <3>6, OffsetsGrow
        <3>9. top < offset[k + 1]
            BY <2>7 DEF Holds
        <3> HIDE DEF offset
        <3>10. QED
            BY <3>5, <3>6, <3>7, <3>8, <3>9
    <2>8. Max(begun) \in 1..(Len(rows) + 1)
        <3>1. Max(begun) \in 1..Len(rows)
            <4> HIDE DEF begun
            <4>1. QED
                BY <2>2, <2>5
        <3>2. QED
            BY <3>1
    <2>9. QED
        BY <2>6, <2>7, <2>8
<1>4. QED
    BY <1>2, <1>3

\* A line of the list is in one slot, and in one only.
LEMMA OneSlot ==
    ASSUME NEW rows \in Seq(Ids), NEW sizes \in Sizes, NEW line \in Nat,
           line < TotalHeight(rows, sizes)
    PROVE  /\ \E k \in 1..Len(rows) : Holds(rows, sizes, k, line)
           /\ \A k, m \in 1..Len(rows) :
                 Holds(rows, sizes, k, line) /\ Holds(rows, sizes, m, line) => k = m
<1> DEFINE offset == Offsets(rows, sizes)
           over == {k \in Nat : k \in 1..(Len(rows) + 1) /\ offset[k] > line}
<1>1. offset \in [1..(Len(rows) + 1) -> Nat] /\ offset[1] = 0
    BY OffsetsTyped
<1>2. Len(rows) \in Nat
    OBVIOUS
<1>3. Len(rows) + 1 \in over
    BY <1>2 DEF TotalHeight
<1>4. PICK k \in over : \A m \in over : k <= m
    <2>1. over \in SUBSET Nat /\ over # {}
        BY <1>3
    <2> HIDE DEF over
    <2>2. QED
        BY <2>1, LeastNumber
<1> HIDE DEF offset
<1>5. k \in 1..(Len(rows) + 1) /\ offset[k] > line /\ k # 1
    BY <1>1, <1>4
<1>6. k - 1 \in 1..Len(rows) /\ k - 1 + 1 = k /\ k - 1 \in 1..(Len(rows) + 1) /\ ~(k <= k - 1)
    BY <1>2, <1>5
<1>7. k - 1 \notin over
    <2> HIDE DEF over
    <2>1. QED
        BY <1>4, <1>6
<1>8. offset[k - 1] <= line
    BY <1>1, <1>6, <1>7
<1>9. Holds(rows, sizes, k - 1, line)
    BY <1>5, <1>6, <1>8 DEF Holds, offset
<1>10. ASSUME NEW m \in 1..Len(rows), NEW n \in 1..Len(rows), m < n,
              Holds(rows, sizes, m, line), Holds(rows, sizes, n, line)
       PROVE  FALSE
    <2>1. line < offset[m + 1] /\ offset[n] <= line
        BY <1>10 DEF Holds, offset
    <2>2. m + 1 \in 1..(Len(rows) + 1) /\ n \in 1..(Len(rows) + 1) /\ (m + 1 = n \/ m + 1 < n)
        BY <1>10
    <2>3. m + 1 < n => offset[m + 1] < offset[n]
        BY <2>2, OffsetsGrow DEF offset
    <2>4. offset[m + 1] \in Nat /\ offset[n] \in Nat
        BY <1>1, <2>2
    <2>5. QED
        BY <2>1, <2>2, <2>3, <2>4
<1>11. \A m, n \in 1..Len(rows) : m < n \/ n < m \/ m = n
    OBVIOUS
<1>12. QED
    BY <1>6, <1>9, <1>10, <1>11

\* What is painted of a column that has rows: some of them in a row, among them
\* each whose slot holds a line of the viewport.
LEMMA RangeShape ==
    ASSUME NEW rows \in Seq(Ids), NEW sizes \in Sizes, NEW at \in Views, rows # <<>>
    PROVE  \E low, high \in 1..Len(rows) :
              /\ low <= high /\ RangeFor(rows, sizes, at) = low..high
              /\ \A k \in 1..Len(rows), line \in Nat :
                    Holds(rows, sizes, k, line) /\ at.top <= line /\ line < at.top + at.tall
                    => k \in low..high
<1> DEFINE offset == Offsets(rows, sizes)
           size == Len(rows)
           first == FirstIndexAfter(rows, sizes, at.top)
           reached == {n \in first..size : offset[n] < at.top + at.tall}
           bottom == Min({first + Cardinality(reached), size})
           low == Max({1, first - Overscan})
           high == Min({size, bottom + Overscan})
<1>1. /\ at.top \in Nat /\ at.tall \in Nat /\ Overscan \in Nat /\ MinRows \in Nat
      /\ size \in Nat /\ size # 0 /\ DOMAIN rows = 1..size
    BY WindowAssumption DEF Views
<1>2. CASE size <= MinRows
    <2>1. RangeFor(rows, sizes, at) = 1..size /\ 1 \in 1..size /\ size \in 1..size /\ 1 <= size
        BY <1>1, <1>2 DEF RangeFor
    <2>2. QED
        BY <2>1
<1>3. CASE ~(size <= MinRows)
    <2>1. RangeFor(rows, sizes, at) = low..high
        BY <1>1, <1>3 DEF RangeFor, Window
    <2>2. /\ first \in 1..size
          /\ \A k \in 1..size : offset[k + 1] > at.top => first <= k
        BY <1>1, FirstAfter
    <2>3. offset \in [1..(size + 1) -> Nat]
        BY OffsetsTyped
    <2>4. /\ IsFiniteSet(reached) /\ Cardinality(reached) \in Nat
        <3>1. IsFiniteSet(first..size) /\ reached \subseteq first..size
            BY <1>1, <2>2, FS_Interval
        <3> HIDE DEF reached, first
        <3>2. QED
            BY <3>1, FS_Subset, FS_CardinalityType
    <2>5. ASSUME NEW k \in 1..size, NEW line \in Nat, Holds(rows, sizes, k, line),
                 at.top <= line, line < at.top + at.tall
          PROVE  first <= k /\ k < first + Cardinality(reached)
        <3>1. offset[k] <= line /\ line < offset[k + 1]
            BY <2>5 DEF Holds
        <3>2. k \in 1..(size + 1) /\ k + 1 \in 1..(size + 1)
            BY <1>1
        <3>3. offset[k] \in Nat /\ offset[k + 1] \in Nat
            BY <2>3, <3>2
        <3>4. first <= k
            <4>1. offset[k + 1] > at.top
                BY <1>1, <2>5, <3>1, <3>3
            <4> HIDE DEF offset, first
            <4>2. QED
                BY <2>2, <4>1
        <3>5. offset[k] < at.top + at.tall
            BY <1>1, <2>5, <3>1, <3>3
        <3>6. first..k \in SUBSET reached
            <4> SUFFICES ASSUME NEW n \in first..k PROVE n \in reached
                OBVIOUS
            <4>1. n \in first..size /\ n \in 1..(size + 1) /\ (n = k \/ n < k)
                BY <1>1, <2>2
            <4>2. n < k => offset[n] < offset[k]
                BY <3>2, <4>1, OffsetsGrow
            <4>3. offset[n] \in Nat
                BY <2>3, <4>1
            <4>4. offset[n] < at.top + at.tall
                BY <1>1, <3>3, <3>5, <4>1, <4>2, <4>3
            <4>5. QED
                BY <4>1, <4>4
        <3>7. Cardinality(first..k) = k - first + 1
            <4> HIDE DEF first
            <4>1. QED
                BY <2>2, <3>4, FS_Interval
        <3>8. Cardinality(first..k) <= Cardinality(reached)
            <4> HIDE DEF first, reached
            <4>1. QED
                BY <2>4, <3>6, FS_Subset
        <3> HIDE DEF first, reached
        <3>9. QED
            BY <2>2, <2>4, <3>4, <3>7, <3>8
    <2> DEFINE end == first + Cardinality(reached)
    <2> HIDE DEF first, reached, offset
    <2>6. end \in Int /\ size \in Int /\ first <= end /\ first \in Int /\ 1 <= first /\ first <= size
        BY <1>1, <2>2, <2>4
    <2>7. bottom = IF end <= size THEN end ELSE size
        <3> HIDE DEF end
        <3>1. Min({end, size}) = IF end <= size THEN end ELSE size
            BY <2>6, OfTwo
        <3>2. QED
            BY <3>1 DEF end
    <2> HIDE DEF bottom, end
    <2>8. bottom \in Int /\ first <= bottom /\ bottom <= size
        BY <2>6, <2>7
    <2>9. Overscan \in Nat /\ size \in Int /\ first \in Int /\ 1 <= first /\ first <= size
        BY <1>1, <2>6
    <2>10. low = IF 1 >= first - Overscan THEN 1 ELSE first - Overscan
        <3>1. first - Overscan \in Int
            BY <1>1, <2>6
        <3> DEFINE start == first - Overscan
        <3> HIDE DEF start
        <3>2. Max({1, start}) = IF 1 >= start THEN 1 ELSE start
            BY <3>1, OfTwo DEF start
        <3>3. QED
            BY <3>2 DEF start
    <2>11. high = IF size <= bottom + Overscan THEN size ELSE bottom + Overscan
        <3> DEFINE stop == bottom + Overscan
        <3>1. stop \in Int
            BY <2>8, <2>9
        <3> HIDE DEF stop
        <3>2. Min({size, stop}) = IF size <= stop THEN size ELSE stop
            BY <2>6, <3>1, OfTwo
        <3>3. QED
            BY <3>2 DEF stop
    <2> HIDE DEF low, high
    <2>12. /\ low \in 1..size /\ high \in 1..size /\ low <= high
           /\ low <= first /\ bottom <= high
        BY <2>10, <2>11, <2>8, <2>9
    <2>13. ASSUME NEW k \in 1..size, NEW line \in Nat, Holds(rows, sizes, k, line),
                  at.top <= line, line < at.top + at.tall
           PROVE  k \in low..high
        <3>1. first <= k /\ k < end
            BY <2>5, <2>13 DEF end
        <3>2. QED
            BY <2>6, <2>7, <2>12, <3>1
    <2>14. QED
        BY <2>1, <2>12, <2>13
<1>4. QED
    BY <1>2, <1>3

LEMMA RangeOfNone ==
    ASSUME NEW sizes, NEW at
    PROVE  RangeFor(<<>>, sizes, at) = {}
BY DEF RangeFor, Window

\* What is painted: size rows after from, which no line of the viewport is outside of.
Painted(rows, sizes, at, from, size) ==
    /\ from + size <= Len(rows) /\ (size = 0 => from = 0 /\ rows = <<>>)
    /\ RangeFor(rows, sizes, at) = (from + 1)..(from + size)
    /\ Paint(rows, sizes, at).rows = [n \in 1..size |-> rows[from + n]]
    /\ Paint(rows, sizes, at).tops = [n \in 1..size |-> Offsets(rows, sizes)[from + n]]
    /\ \A k \in 1..Len(rows), line \in Nat :
          Holds(rows, sizes, k, line) /\ at.top <= line /\ line < at.top + at.tall
          => k \in (from + 1)..(from + size)

LEMMA PaintShape ==
    ASSUME NEW rows \in Seq(Ids), NEW sizes \in Sizes, NEW at \in Views
    PROVE  /\ Paint(rows, sizes, at) \in Paints
           /\ Paint(rows, sizes, at).total = TotalHeight(rows, sizes)
           /\ \E from, size \in Nat : Painted(rows, sizes, at, from, size)
<1> DEFINE offset == Offsets(rows, sizes)
           range == RangeFor(rows, sizes, at)
           from == IF range = {} THEN 0 ELSE Min(range) - 1
           size == Cardinality(range)
<1>1. /\ offset \in [1..(Len(rows) + 1) -> Nat] /\ Len(rows) \in Nat
      /\ TotalHeight(rows, sizes) \in Nat
    BY OffsetsTyped DEF TotalHeight
<1>2. Paint(rows, sizes, at) =
          [rows |-> [n \in 1..size |-> rows[from + n]],
           tops |-> [n \in 1..size |-> offset[from + n]],
           total |-> TotalHeight(rows, sizes)]
    BY DEF Paint
<1> HIDE DEF offset
<1>3. /\ from \in Nat /\ size \in Nat /\ from + size <= Len(rows)
      /\ (size = 0 => from = 0 /\ rows = <<>>)
      /\ range = (from + 1)..(from + size)
      /\ \A k \in 1..Len(rows), line \in Nat :
            Holds(rows, sizes, k, line) /\ at.top <= line /\ line < at.top + at.tall
            => k \in (from + 1)..(from + size)
    <2>1. CASE rows = <<>>
        <3>1. range = {} /\ Len(rows) = 0
            BY <2>1, RangeOfNone
        <3>2. from = 0 /\ size = 0
            BY <3>1, FS_EmptySet
        <3>3. (0 + 1)..(0 + 0) = {} /\ 1..0 = {}
            OBVIOUS
        <3> HIDE DEF from, size, range
        <3>4. QED
            BY <2>1, <3>1, <3>2, <3>3
    <2>2. CASE rows # <<>>
        <3>1. PICK low, high \in 1..Len(rows) :
                 /\ low <= high /\ range = low..high
                 /\ \A k \in 1..Len(rows), line \in Nat :
                       Holds(rows, sizes, k, line) /\ at.top <= line /\ line < at.top + at.tall
                       => k \in low..high
            BY <2>2, RangeShape
        <3> HIDE DEF range
        <3>2. low \in Nat /\ high \in Nat /\ low \in range /\ range \in SUBSET Nat
            BY <3>1
        <3>3. Min(range) \in range /\ \A k \in range : Min(range) <= k
            BY <3>2, LeastOf
        <3>4. Min(range) = low
            BY <3>1, <3>2, <3>3
        <3>5. size = high - low + 1
            BY <3>1, <3>2, FS_Interval
        <3>6. from = low - 1
            BY <3>2, <3>4
        <3> HIDE DEF from, size
        <3>7. /\ from + 1 = low /\ from + size = high /\ from \in Nat /\ size \in Nat /\ size # 0
              /\ high <= Len(rows)
            BY <3>1, <3>2, <3>5, <3>6
        <3>8. QED
            BY <3>1, <3>7
    <2>3. QED
        BY <2>1, <2>2
<1> HIDE DEF from, size, range
<1>4. Paint(rows, sizes, at) \in Paints
    <2>1. \A n \in 1..size : from + n \in 1..Len(rows) /\ from + n \in 1..(Len(rows) + 1)
        BY <1>1, <1>3
    <2>2. [n \in 1..size |-> rows[from + n]] \in Seq(Ids)
        BY <1>3, <2>1
    <2>3. [n \in 1..size |-> offset[from + n]] \in Seq(Nat)
        BY <1>1, <1>3, <2>1
    <2>4. QED
        BY <1>1, <1>2, <2>2, <2>3 DEF Paints
<1>5. /\ Paint(rows, sizes, at).rows = [n \in 1..size |-> rows[from + n]]
      /\ Paint(rows, sizes, at).tops = [n \in 1..size |-> Offsets(rows, sizes)[from + n]]
      /\ Paint(rows, sizes, at).total = TotalHeight(rows, sizes)
    BY <1>2 DEF offset
<1>6. RangeFor(rows, sizes, at) = (from + 1)..(from + size)
    BY <1>3 DEF range
<1>7. Painted(rows, sizes, at, from, size)
    BY <1>3, <1>5, <1>6 DEF Painted
<1>8. QED
    BY <1>3, <1>4, <1>5, <1>7

----------------------------------------------------------------------------
(* The document, and the sum over the columns.                             *)

\* The content ends at the end of the spacer, or of a card past it.
LEMMA ReachTyped ==
    ASSUME NEW paint \in Paints, Len(paint.tops) = Len(paint.rows), NEW heights \in Sizes
    PROVE  /\ Reach(paint, heights) \in Nat
           /\ paint.total <= Reach(paint, heights)
           /\ \A n \in 1..Len(paint.rows) :
                 paint.tops[n] + heights[paint.rows[n]] <= Reach(paint, heights)
           /\ \/ Reach(paint, heights) = paint.total
              \/ \E n \in 1..Len(paint.rows) :
                    Reach(paint, heights) = paint.tops[n] + heights[paint.rows[n]]
<1> DEFINE size == Len(paint.rows)
           Bottom(n) == paint.tops[n] + heights[paint.rows[n]]
           bottoms == {Bottom(n) : n \in 1..size}
           ends == {paint.total} \cup bottoms
<1>1. /\ paint.rows \in Seq(Ids) /\ paint.tops \in Seq(Nat) /\ paint.total \in Nat
      /\ DOMAIN paint.rows = 1..size /\ size \in Nat
    BY DEF Paints
<1>2. \A n \in 1..size : Bottom(n) \in Nat
    <2> SUFFICES ASSUME NEW n \in 1..size PROVE Bottom(n) \in Nat
        OBVIOUS
    <2>1. paint.tops[n] \in Nat /\ paint.rows[n] \in Ids
        BY <1>1
    <2>2. heights[paint.rows[n]] \in Nat
        BY <2>1 DEF Sizes
    <2>3. QED
        BY <2>1, <2>2
<1>3. IsFiniteSet(bottoms)
    <2>1. IsFiniteSet(1..size)
        <3>1. \A n \in Nat : IsFiniteSet(1..n)
            BY FS_Interval
        <3> HIDE DEF size
        <3>2. QED
            BY <1>1, <3>1
    <2> DEFINE f == [n \in 1..size |-> Bottom(n)]
    <2>2. f \in Surjection(1..size, bottoms)
        BY DEF Surjection
    <2> HIDE DEF f, bottoms
    <2>3. QED
        BY <2>1, <2>2, FS_Surjection
<1>4. IsFiniteSet(ends)
    <2>1. IsFiniteSet({paint.total})
        BY FS_Singleton
    <2> HIDE DEF bottoms
    <2>2. QED
        BY <1>3, <2>1, FS_Union
<1>5. ends \in SUBSET Int /\ ends # {} /\ ends \subseteq Nat
    <2> HIDE DEF Bottom
    <2>1. QED
        BY <1>1, <1>2
<1>6. Max(ends) \in ends /\ \A k \in ends : Max(ends) >= k
    <2> HIDE DEF ends
    <2>1. QED
        BY <1>4, <1>5, GreatestOf
<1>7. Reach(paint, heights) = Max(ends)
    BY <1>1 DEF Reach
<1> DEFINE reach == Max(ends)
<1>8. /\ reach \in Nat /\ paint.total <= reach
      /\ \A n \in 1..size : Bottom(n) <= reach
      /\ \/ reach = paint.total
         \/ \E n \in 1..size : reach = Bottom(n)
    <2>1. paint.total \in ends /\ \A n \in 1..size : Bottom(n) \in ends
        OBVIOUS
    <2>2. reach \in ends /\ \A k \in ends : reach >= k
        <3> HIDE DEF ends
        <3>1. QED
            BY <1>6
    <2> HIDE DEF Bottom, reach
    <2>3. QED
        BY <1>1, <1>2, <1>5, <2>1, <2>2
<1>9. QED
    BY <1>7, <1>8

\* The document leaves a scroll alone where the content has room for it.
LEMMA InDocumentTyped ==
    ASSUME NEW top \in Int, NEW viewport \in Nat, NEW paint \in Paints,
           Len(paint.tops) = Len(paint.rows), NEW heights \in Sizes
    PROVE  LET kept == InDocument(top, paint, heights, viewport)
           IN  /\ kept \in Nat
               /\ kept = 0 \/ kept <= Reach(paint, heights) - viewport
               /\ 0 <= top /\ top <= Reach(paint, heights) - viewport => kept = top
               /\ top = 0 => kept = 0
               /\ InDocument(kept, paint, heights, viewport) = kept
<1> DEFINE room == Reach(paint, heights) - viewport
<1>1. room \in Int
    BY ReachTyped
<1>2. \A t \in Int : InDocument(t, paint, heights, viewport) =
          IF t <= room THEN (IF 0 >= t THEN 0 ELSE t) ELSE (IF 0 >= room THEN 0 ELSE room)
    <2> SUFFICES ASSUME NEW t \in Int
                 PROVE  InDocument(t, paint, heights, viewport) =
                        IF t <= room THEN (IF 0 >= t THEN 0 ELSE t)
                        ELSE (IF 0 >= room THEN 0 ELSE room)
        OBVIOUS
    <2>1. InDocument(t, paint, heights, viewport) = Max({0, Min({t, room})})
        BY DEF InDocument
    <2> HIDE DEF room
    <2>2. Min({t, room}) = IF t <= room THEN t ELSE room
        BY <1>1, OfTwo
    <2> DEFINE low == Min({t, room})
    <2>3. low \in Int
        BY <1>1, <2>2
    <2> HIDE DEF low
    <2>4. Max({0, low}) = IF 0 >= low THEN 0 ELSE low
        BY <2>3, OfTwo
    <2>5. QED
        BY <1>1, <2>1, <2>2, <2>4 DEF low
<1> HIDE DEF room
<1>3. QED
    BY <1>1, <1>2 DEF room

\* A sum is that of what is left, and of the one that is taken first.
LEMMA SumDefined ==
    ASSUME NEW delta
    PROVE  \E sum : /\ Together(delta) = sum[Columns]
                    /\ \A s \in SUBSET Columns : sum[s] =
                          IF s = {} THEN 0
                          ELSE delta[CHOOSE c \in s : TRUE] + sum[s \ {CHOOSE c \in s : TRUE}]
<1> DEFINE First(s) == CHOOSE c \in s : TRUE
           Summed(g, s) == IF s = {} THEN 0 ELSE delta[First(s)] + g[s \ {First(s)}]
           sum == CHOOSE g : g = [s \in SUBSET Columns |-> Summed(g, s)]
           Obeys(g, n) == \A s \in SUBSET Columns : Cardinality(s) <= n => g[s] = Summed(g, s)
           reached == {n \in Nat : \E g : Obeys(g, n)}
<1>1. Together(delta) = sum[Columns]
    BY DEF Together, MapThenSumSet, MapThenFoldSet
<1>2. \A s \in SUBSET Columns :
         /\ IsFiniteSet(s) /\ Cardinality(s) \in Nat /\ Cardinality(s) <= Cardinality(Columns)
         /\ Cardinality(s) = 0 <=> s = {}
         /\ s # {} => /\ First(s) \in s /\ s \ {First(s)} \in SUBSET Columns
                      /\ Cardinality(s \ {First(s)}) = Cardinality(s) - 1
    <2> SUFFICES ASSUME NEW s \in SUBSET Columns
                 PROVE  /\ IsFiniteSet(s) /\ Cardinality(s) \in Nat
                        /\ Cardinality(s) <= Cardinality(Columns)
                        /\ Cardinality(s) = 0 <=> s = {}
                        /\ s # {} => /\ First(s) \in s /\ s \ {First(s)} \in SUBSET Columns
                                     /\ Cardinality(s \ {First(s)}) = Cardinality(s) - 1
        OBVIOUS
    <2>1. /\ IsFiniteSet(s) /\ Cardinality(s) \in Nat /\ Cardinality(s) <= Cardinality(Columns)
          /\ Cardinality(s) = 0 <=> s = {}
        BY WindowAssumption, FS_Subset, FS_CardinalityType, FS_EmptySet
    <2>2. \A c \in s : Cardinality(s \ {c}) = Cardinality(s) - 1
        BY <2>1, FS_RemoveElement
    <2>3. s # {} => First(s) \in s
        OBVIOUS
    <2> HIDE DEF First
    <2>4. QED
        BY <2>1, <2>2, <2>3
<1> HIDE DEF First
<1>3. 0 \in reached
    <2> DEFINE g == [s \in SUBSET Columns |-> 0]
    <2>1. Obeys(g, 0)
        <3> SUFFICES ASSUME NEW s \in SUBSET Columns, Cardinality(s) <= 0
                     PROVE  g[s] = Summed(g, s)
            OBVIOUS
        <3>1. s = {}
            <4>1. Cardinality(s) \in Nat /\ (Cardinality(s) = 0 => s = {})
                BY <1>2
            <4>2. QED
                BY <4>1
        <3>2. QED
            BY <3>1
    <2>2. QED
        BY <2>1
<1>4. \A n \in reached : n + 1 \in reached
    <2> SUFFICES ASSUME NEW n \in reached PROVE n + 1 \in reached
        OBVIOUS
    <2>1. PICK g : Obeys(g, n)
        OBVIOUS
    <2> DEFINE h == [s \in SUBSET Columns |-> IF Cardinality(s) <= n THEN g[s] ELSE Summed(g, s)]
    <2>2. n \in Nat
        OBVIOUS
    <2>3. ASSUME NEW s \in SUBSET Columns, Cardinality(s) <= n + 1 PROVE h[s] = Summed(h, s)
        <3>1. h[s] = Summed(g, s)
            BY <2>1
        <3>2. CASE s = {}
            BY <3>1, <3>2
        <3>3. CASE s # {}
            <4>1. s \ {First(s)} \in SUBSET Columns /\ Cardinality(s \ {First(s)}) <= n
                BY <1>2, <2>2, <2>3, <3>3
            <4>2. h[s \ {First(s)}] = g[s \ {First(s)}]
                BY <4>1
            <4>3. QED
                BY <3>1, <3>3, <4>2
        <3>4. QED
            BY <3>2, <3>3
    <2>4. Obeys(h, n + 1)
        BY <2>3
    <2> HIDE DEF h, Obeys
    <2>5. QED
        BY <2>2, <2>4
<1>5. reached = Nat
    <2>1. reached \in SUBSET Nat
        OBVIOUS
    <2> HIDE DEF reached
    <2>2. QED
        BY <1>3, <1>4, <2>1, Counting
<1>6. \E g : g = [s \in SUBSET Columns |-> Summed(g, s)]
    <2>1. Cardinality(Columns) \in reached
        <3> HIDE DEF reached
        <3>1. QED
            BY <1>2, <1>5
    <2>2. PICK g : Obeys(g, Cardinality(Columns))
        BY <2>1
    <2> DEFINE h == [s \in SUBSET Columns |-> g[s]]
    <2>3. \A s \in SUBSET Columns : g[s] = Summed(g, s)
        BY <1>2, <2>2
    <2>4. \A s \in SUBSET Columns : Summed(h, s) = Summed(g, s)
        BY <1>2
    <2>5. h = [s \in SUBSET Columns |-> Summed(h, s)]
        BY <2>3, <2>4
    <2> HIDE DEF h
    <2>6. QED
        BY <2>5
<1>7. sum = [s \in SUBSET Columns |-> Summed(sum, s)]
    <2> HIDE DEF Summed
    <2>1. QED
        BY <1>6
<1> HIDE DEF sum
<1>8. \A s \in SUBSET Columns : sum[s] = Summed(sum, s)
    <2> HIDE DEF Summed
    <2>1. QED
        BY <1>7
<1>9. QED
    BY <1>1, <1>8 DEF First

\* The moves of the columns add up to a number, that of the only one that moves
\* if the others do not.
LEMMA SumTyped ==
    ASSUME NEW delta \in [Columns -> Int]
    PROVE  /\ Together(delta) \in Int
           /\ \A c \in Columns :
                 (\A other \in Columns : other # c => delta[other] = 0)
                 => Together(delta) = delta[c]
           /\ (\A c \in Columns : delta[c] = 0) => Together(delta) = 0
<1>1. PICK sum :
         /\ Together(delta) = sum[Columns]
         /\ \A s \in SUBSET Columns : sum[s] =
               IF s = {} THEN 0
               ELSE delta[CHOOSE c \in s : TRUE] + sum[s \ {CHOOSE c \in s : TRUE}]
    BY SumDefined
<1> DEFINE Still(c) == \A other \in Columns : other # c => delta[other] = 0
           Adds(s) == /\ sum[s] \in Int
                      /\ \A c : Still(c) => sum[s] = IF c \in s THEN delta[c] ELSE 0
           added == {n \in Nat : \A s \in SUBSET Columns : Cardinality(s) <= n => Adds(s)}
<1>2. \A s \in SUBSET Columns : /\ IsFiniteSet(s) /\ Cardinality(s) \in Nat
                                /\ Cardinality(s) <= Cardinality(Columns)
                                /\ Cardinality(s) = 0 <=> s = {}
    BY WindowAssumption, FS_Subset, FS_CardinalityType, FS_EmptySet
<1>3. 0 \in added
    <2> SUFFICES ASSUME NEW s \in SUBSET Columns, Cardinality(s) <= 0 PROVE Adds(s)
        OBVIOUS
    <2>1. s = {}
        BY <1>2
    <2>2. sum[s] = 0
        BY <1>1, <2>1
    <2>3. QED
        BY <2>1, <2>2
<1>4. \A n \in added : n + 1 \in added
    <2> SUFFICES ASSUME NEW n \in added PROVE n + 1 \in added
        OBVIOUS
    <2>1. n \in Nat
        OBVIOUS
    <2>2. ASSUME NEW s \in SUBSET Columns, Cardinality(s) <= n + 1 PROVE Adds(s)
        <3>1. CASE s = {}
            <4>1. sum[s] = 0
                BY <1>1, <3>1
            <4>2. QED
                BY <3>1, <4>1
        <3>2. CASE s # {}
            <4> DEFINE x == CHOOSE c \in s : TRUE
            <4>1. x \in s
                BY <3>2
            <4>2. sum[s] = delta[x] + sum[s \ {x}]
                BY <1>1, <3>2
            <4> HIDE DEF x
            <4>3. Cardinality(s \ {x}) = Cardinality(s) - 1
                BY <1>2, <4>1, FS_RemoveElement
            <4>4. Cardinality(s \ {x}) <= n /\ s \ {x} \in SUBSET Columns
                BY <1>2, <2>1, <2>2, <4>3
            <4>5. Adds(s \ {x})
                BY <4>4
            <4>6. delta[x] \in Int /\ sum[s \ {x}] \in Int
                BY <4>1, <4>5
            <4>7. sum[s] \in Int
                BY <4>2, <4>6
            <4>8. ASSUME NEW c, Still(c) PROVE sum[s] = IF c \in s THEN delta[c] ELSE 0
                <5>1. sum[s \ {x}] = IF c \in s \ {x} THEN delta[c] ELSE 0
                    BY <4>5, <4>8
                <5>2. CASE x = c
                    <6>1. sum[s \ {x}] = 0
                        BY <5>1, <5>2
                    <6>2. QED
                        BY <4>1, <4>2, <4>6, <5>2, <6>1
                <5>3. CASE x # c
                    <6>1. delta[x] = 0
                        BY <4>1, <4>8, <5>3
                    <6>2. QED
                        BY <4>2, <4>6, <5>1, <5>3, <6>1
                <5>4. QED
                    BY <5>2, <5>3
            <4>9. QED
                BY <4>7, <4>8
        <3>3. QED
            BY <3>1, <3>2
    <2> HIDE DEF Adds
    <2>3. QED
        BY <2>1, <2>2
<1>5. added = Nat
    <2>1. added \in SUBSET Nat
        OBVIOUS
    <2> HIDE DEF added
    <2>2. QED
        BY <1>3, <1>4, <2>1, Counting
<1>6. Adds(Columns)
    <2>1. Cardinality(Columns) \in added
        <3> HIDE DEF added
        <3>1. QED
            BY <1>2, <1>5
    <2> HIDE DEF Adds
    <2>2. QED
        BY <1>2, <2>1
<1>7. ASSUME \A c \in Columns : delta[c] = 0 PROVE Together(delta) = 0
    <2>1. CASE Columns = {}
        BY <1>1, <2>1
    <2>2. CASE Columns # {}
        <3>1. PICK c \in Columns : TRUE
            BY <2>2
        <3>2. Still(c)
            BY <1>7
        <3>3. QED
            BY <1>1, <1>6, <1>7, <3>1, <3>2
    <2>3. QED
        BY <2>1, <2>2
<1>8. QED
    BY <1>1, <1>6, <1>7

----------------------------------------------------------------------------
(* The heights that are known.                                             *)

Known == [Ids -> Heights \cup {0}]

\* The heights noted are those of rows of a column.
Only(sizes, rows) == \A id \in Ids : sizes[id] # 0 => id \in ToSet(rows)

\* The height expected of a card is the one it has.
Fit(sizes, ids) == \A id \in ids : SlotSize(sizes, id) = height[id]

LEMMA KnownSizes ==
    /\ Known \subseteq Sizes
    /\ height \in [Ids -> Heights] => height \in Sizes /\ \A id \in Ids : height[id] # 0
<1>1. Heights \subseteq Nat \ {0}
    BY WindowAssumption
<1>2. ASSUME NEW sizes \in Known PROVE sizes \in Sizes
    <2>1. \A id \in Ids : sizes[id] \in Heights \cup {0}
        BY DEF Known
    <2>2. ASSUME NEW id \in Ids PROVE sizes[id] \in Nat
        <3>1. sizes[id] \in Heights \/ sizes[id] = 0
            BY <2>1
        <3>2. \A h \in Heights : h \in Nat
            BY <1>1
        <3>3. QED
            BY <3>1, <3>2
    <2>3. sizes = [id \in Ids |-> sizes[id]]
        BY DEF Known
    <2>4. QED
        BY <2>2, <2>3 DEF Sizes
<1>3. ASSUME height \in [Ids -> Heights]
      PROVE  height \in Sizes /\ \A id \in Ids : height[id] # 0
    BY <1>1, <1>3 DEF Sizes
<1>4. QED
    BY <1>2, <1>3

LEMMA KeptTyped ==
    ASSUME NEW sizes \in Known, NEW rows
    PROVE  /\ Kept(rows, sizes) \in Known /\ Only(Kept(rows, sizes), rows)
           /\ \A id \in ToSet(rows) \cap Ids : Kept(rows, sizes)[id] = sizes[id]
           /\ Only(sizes, rows) => Kept(rows, sizes) = sizes
<1>1. Kept(rows, sizes) = [id \in Ids |-> IF id \in ToSet(rows) THEN sizes[id] ELSE 0]
    BY DEF Kept
<1>2. Kept(rows, sizes) \in Known
    BY <1>1 DEF Known
<1>3. Only(sizes, rows) => \A id \in Ids : Kept(rows, sizes)[id] = sizes[id]
    BY <1>1 DEF Only
<1>4. Only(sizes, rows) => Kept(rows, sizes) = sizes
    BY <1>2, <1>3 DEF Known
<1>5. QED
    BY <1>1, <1>2, <1>4 DEF Only

\* What measuring some cards comes to.
LEMMA MeasureTyped ==
    ASSUME height \in [Ids -> Heights], NEW sizes \in Known, NEW ids \in SUBSET Ids
    PROVE  /\ Measure(sizes, ids) \in Known
           /\ Fit(Measure(sizes, ids), ids)
           /\ \A id \in Ids \ ids : Measure(sizes, ids)[id] = sizes[id]
           /\ \A rows : Only(sizes, rows) /\ ids \subseteq ToSet(rows)
                        => Only(Measure(sizes, ids), rows)
           /\ Fit(sizes, ids) => Measure(sizes, ids) = sizes
<1> DEFINE after == Measure(sizes, ids)
<1>1. after = [id \in Ids |-> IF id \in ids /\ SlotSize(sizes, id) # height[id]
                              THEN height[id] ELSE sizes[id]]
    BY DEF Measure
<1> HIDE DEF after
<1>2. after \in Known
    BY <1>1 DEF Known
<1>3. ASSUME NEW id \in ids PROVE SlotSize(after, id) = height[id]
    <2>1. id \in Ids /\ height[id] # 0
        BY KnownSizes
    <2>2. CASE SlotSize(sizes, id) # height[id]
        BY <1>1, <2>1, <2>2 DEF SlotSize
    <2>3. CASE SlotSize(sizes, id) = height[id]
        BY <1>1, <2>1, <2>3 DEF SlotSize
    <2>4. QED
        BY <2>2, <2>3
<1>4. \A id \in Ids \ ids : after[id] = sizes[id]
    BY <1>1
<1>5. ASSUME NEW rows, Only(sizes, rows), ids \subseteq ToSet(rows) PROVE Only(after, rows)
    BY <1>1, <1>5 DEF Only
<1>6. Fit(sizes, ids) => after = sizes
    <2> SUFFICES ASSUME Fit(sizes, ids) PROVE after = sizes
        OBVIOUS
    <2>1. \A id \in Ids : after[id] = sizes[id]
        BY <1>1 DEF Fit
    <2>2. QED
        BY <1>2, <2>1 DEF Known
<1>7. Fit(after, ids)
    BY <1>3 DEF Fit
<1>8. QED
    BY <1>2, <1>4, <1>5, <1>6, <1>7 DEF after

LEMMA PaintTyped ==
    ASSUME NEW rows \in Seq(Ids), NEW sizes \in Sizes, NEW at \in Views
    PROVE  /\ Paint(rows, sizes, at) \in Paints
           /\ Len(Paint(rows, sizes, at).tops) = Len(Paint(rows, sizes, at).rows)
           /\ ToSet(Paint(rows, sizes, at).rows) \subseteq ToSet(rows)
<1> DEFINE paint == Paint(rows, sizes, at)
<1>0. PICK from, size \in Nat : Painted(rows, sizes, at, from, size)
    BY PaintShape
<1>1. /\ from + size <= Len(rows)
      /\ paint.rows = [n \in 1..size |-> rows[from + n]]
      /\ paint.tops = [n \in 1..size |-> Offsets(rows, sizes)[from + n]]
    BY <1>0 DEF Painted
<1>2. Paint(rows, sizes, at) \in Paints
    BY PaintShape
<1>3. /\ Paint(rows, sizes, at).rows \in Seq(Ids) /\ Paint(rows, sizes, at).tops \in Seq(Nat)
    BY <1>2 DEF Paints
<1>4. Len(paint.tops) = Len(paint.rows)
    <2>1. /\ DOMAIN paint.rows = 1..size /\ DOMAIN paint.tops = 1..size
        BY <1>1
    <2>2. /\ DOMAIN paint.rows = 1..Len(paint.rows) /\ Len(paint.rows) \in Nat
          /\ DOMAIN paint.tops = 1..Len(paint.tops) /\ Len(paint.tops) \in Nat
        BY <1>3
    <2> DEFINE m == Len(paint.tops)
               n == Len(paint.rows)
    <2>3. m \in Nat /\ n \in Nat /\ 1..m = 1..n
        BY <2>1, <2>2
    <2> HIDE DEF m, n
    <2>4. m = n
        BY <2>3, SameEnd
    <2>5. QED
        BY <2>4 DEF m, n
<1>5. ToSet(paint.rows) \subseteq ToSet(rows)
    <2> SUFFICES ASSUME NEW n \in DOMAIN paint.rows PROVE paint.rows[n] \in ToSet(rows)
        BY DEF ToSet
    <2>1. n \in 1..size /\ from + n \in DOMAIN rows /\ paint.rows[n] = rows[from + n]
        BY <1>1
    <2>2. QED
        BY <2>1 DEF ToSet
<1>6. QED
    BY <1>2, <1>4, <1>5

----------------------------------------------------------------------------
(* The invariant.                                                          *)

Current(c) == view[c] = [top |-> scroll[c], tall |-> tall]

PaintOf(c) == Paint(board[c], measured[c], view[c])

\* Once the scrollers are mounted, what is not to be called has nothing to do:
\* each window counts the rows of the board, each view is where the scroller is,
\* the cards are as high as noted, and the paint is that of rows, heights and view.
HookSound ==
    attached =>
        /\ "rows" \notin due => list = board
        /\ \A c \in Columns :
              /\ "observe" \notin due /\ c \notin scrolled => Current(c)
              /\ "observe" \notin due => Fit(measured[c], Cards(c))
              /\ due \cap {"tick", "rows", "observe"} = {} => painted[c] = PaintOf(c)

WindowInv == TypeOK /\ HookSound

LEMMA StateTyped ==
    ASSUME TypeOK
    PROVE  /\ height \in Sizes /\ tall \in Nat \ {0}
           /\ \A c \in Columns :
                 /\ board[c] \in Seq(Ids) /\ IsInjective(board[c]) /\ list[c] \in Seq(Ids)
                 /\ measured[c] \in Known /\ measured[c] \in Sizes /\ Only(measured[c], list[c])
                 /\ view[c] \in Views /\ [top |-> scroll[c], tall |-> tall] \in Views
                 /\ scroll[c] \in Nat
                 /\ painted[c] \in Paints /\ Len(painted[c].tops) = Len(painted[c].rows)
                 /\ Cards(c) = ToSet(painted[c].rows)
                 /\ Cards(c) \subseteq Ids /\ Cards(c) \subseteq ToSet(list[c])
<1>1. height \in Sizes /\ tall \in Nat \ {0} /\ Viewports \subseteq Nat \ {0}
    BY KnownSizes, WindowAssumption DEF TypeOK
<1> SUFFICES ASSUME NEW c \in Columns
             PROVE  /\ board[c] \in Seq(Ids) /\ IsInjective(board[c]) /\ list[c] \in Seq(Ids)
                    /\ measured[c] \in Known /\ measured[c] \in Sizes
                    /\ Only(measured[c], list[c])
                    /\ view[c] \in Views /\ [top |-> scroll[c], tall |-> tall] \in Views
                    /\ scroll[c] \in Nat
                    /\ painted[c] \in Paints /\ Len(painted[c].tops) = Len(painted[c].rows)
                    /\ Cards(c) = ToSet(painted[c].rows)
                    /\ Cards(c) \subseteq Ids /\ Cards(c) \subseteq ToSet(list[c])
    BY <1>1
<1>2. board[c] \in Seq(Ids) /\ IsInjective(board[c])
    BY WindowAssumption DEF TypeOK
<1>3. list[c] \in Seq(Ids)
    <2>1. CASE list \in Boards
        BY <2>1, WindowAssumption
    <2>2. CASE list = [k \in Columns |-> <<>>]
        BY <2>2
    <2>3. QED
        BY <2>1, <2>2 DEF TypeOK
<1>4. measured[c] \in Known /\ measured[c] \in Sizes /\ Only(measured[c], list[c])
    BY KnownSizes DEF TypeOK, Known, Only
<1>5. scroll[c] \in Nat /\ view[c] \in [top : Nat, tall : Viewports]
    BY DEF TypeOK
<1>6. view[c] \in Views /\ [top |-> scroll[c], tall |-> tall] \in Views
    BY <1>1, <1>5 DEF Views
<1>7. painted[c] \in Paints /\ Len(painted[c].tops) = Len(painted[c].rows)
    BY DEF TypeOK, Paints
<1>8. Cards(c) = ToSet(painted[c].rows) /\ Cards(c) \subseteq ToSet(list[c])
    BY DEF Cards, ToSet, TypeOK
<1>9. Cards(c) \subseteq Ids
    <2>1. painted[c].rows \in Seq(Ids)
        BY <1>7 DEF Paints
    <2>2. QED
        BY <2>1 DEF Cards
<1>10. QED
    BY <1>2, <1>3, <1>4, <1>5, <1>6, <1>7, <1>8, <1>9

----------------------------------------------------------------------------
(* What the steps are made of.                                             *)

Flags == {"tick", "rows", "measure", "observe"}

\* The layout leaves every scroll inside the content, and a move is an event.
LEMMA RelayoutTyped ==
    ASSUME NEW paint \in [Columns -> Paints], NEW heights \in Sizes, NEW viewport \in Nat,
           \A c \in Columns : Len(paint[c].tops) = Len(paint[c].rows),
           scroll \in [Columns -> Nat], scrolled \subseteq Columns,
           Relayout(paint, heights, viewport)
    PROVE  /\ scroll' \in [Columns -> Nat]
           /\ \A c \in Columns :
                 /\ scroll'[c] = InDocument(scroll'[c], paint[c], heights, viewport)
                 /\ scroll[c] = InDocument(scroll[c], paint[c], heights, viewport)
                    => scroll'[c] = scroll[c]
           /\ scrolled' \subseteq Columns /\ scrolled \subseteq scrolled'
           /\ \A c \in Columns : c \notin scrolled' => scroll'[c] = scroll[c]
           /\ \A c \in Columns : scroll'[c] = scroll[c] /\ c \notin scrolled => c \notin scrolled'
<1>1. /\ scroll' = [c \in Columns |-> InDocument(scroll[c], paint[c], heights, viewport)]
      /\ scrolled' = scrolled \cup {c \in Columns : scroll'[c] # scroll[c]}
    BY DEF Relayout
<1>2. ASSUME NEW c \in Columns
      PROVE  /\ scroll'[c] \in Nat
             /\ scroll'[c] = InDocument(scroll'[c], paint[c], heights, viewport)
    <2>1. scroll[c] \in Int /\ paint[c] \in Paints
        OBVIOUS
    <2>2. scroll'[c] = InDocument(scroll[c], paint[c], heights, viewport)
        BY <1>1
    <2>3. QED
        BY <2>1, <2>2, InDocumentTyped
<1>3. scroll' \in [Columns -> Nat]
    BY <1>1, <1>2
<1>4. QED
    BY <1>1, <1>2, <1>3

LEMMA DeltaTyped ==
    ASSUME TypeOK, NEW c \in Columns, NEW sizes \in Sizes
    PROVE  Delta(c, sizes) \in Int
<1> DEFINE anchor == AnchorIndexFor(list[c], measured[c], scroll[c])
<1>1. list[c] \in Seq(Ids) /\ measured[c] \in Sizes /\ scroll[c] \in Nat
    BY StateTyped
<1>2. anchor \in 1..(Len(list[c]) + 1)
    BY <1>1, AnchorTyped
<1> HIDE DEF anchor
<1>3. Offsets(list[c], sizes)[anchor] \in Nat /\ Offsets(list[c], measured[c])[anchor] \in Nat
    BY <1>1, <1>2, OffsetsTyped
<1>4. Delta(c, sizes) = Offsets(list[c], sizes)[anchor] - Offsets(list[c], measured[c])[anchor]
    BY DEF Delta, anchor
<1>5. QED
    BY <1>3, <1>4

\* Of cards that are as high as noted, measuring changes nothing; else it notes
\* their heights, and a view that is left as it was is that of scrollers that
\* did not move.
LEMMA MeasureAllStep ==
    ASSUME TypeOK, NEW at \in [Columns -> [top : Nat, tall : Viewports]], NEW asks,
           MeasureAll(at, asks)
    PROVE  /\ measured' \in [Columns -> Known]
           /\ \A c \in Columns : /\ measured'[c] = Measure(measured[c], Cards(c))
                                 /\ Only(measured'[c], list[c])
                                 /\ Fit(measured'[c], Cards(c))
           /\ scroll' \in [Columns -> Nat]
           /\ \A c \in Columns : scroll'[c] = InDocument(scroll'[c], painted[c], height, tall)
           /\ scrolled' \subseteq Columns /\ scrolled \subseteq scrolled'
           /\ view' \in [Columns -> [top : Nat, tall : Viewports]]
           /\ \/ scroll' = scroll /\ scrolled' = scrolled /\ view' = at
              \/ \A c \in Columns : view'[c] = [top |-> scroll'[c], tall |-> tall]
           /\ asks \subseteq due' /\ due' \subseteq asks \cup {"tick"}
           /\ (\A c \in Columns : Fit(measured[c], Cards(c)))
              => /\ measured' = measured /\ scroll' = scroll /\ scrolled' = scrolled
                 /\ view' = at /\ due' = asks
<1> DEFINE sizes == [c \in Columns |-> Measure(measured[c], Cards(c))]
           delta == [c \in Columns |-> Delta(c, sizes[c])]
           moved == Together(delta)
<1>1. /\ measured' = sizes
      /\ scroll' = [c \in Columns |->
             IF moved = 0 THEN scroll[c]
             ELSE InDocument(scroll[c] + moved, painted[c], height, tall)]
      /\ scrolled' = scrolled \cup {c \in Columns : scroll'[c] # scroll[c]}
      /\ view' = IF moved = 0 THEN at
                 ELSE [c \in Columns |-> [top |-> scroll'[c], tall |-> tall]]
      /\ due' = Bumped(asks, \E c \in Columns : delta[c] # 0)
    BY DEF MeasureAll
<1>2. ASSUME NEW c \in Columns
      PROVE  /\ sizes[c] \in Known /\ Fit(sizes[c], Cards(c)) /\ Only(sizes[c], list[c])
             /\ Fit(measured[c], Cards(c)) => sizes[c] = measured[c]
    <2>1. /\ height \in [Ids -> Heights] /\ measured[c] \in Known /\ Cards(c) \in SUBSET Ids
          /\ Only(measured[c], list[c]) /\ Cards(c) \subseteq ToSet(list[c])
        BY StateTyped DEF TypeOK
    <2>2. sizes[c] = Measure(measured[c], Cards(c))
        OBVIOUS
    <2> HIDE DEF sizes
    <2>3. QED
        BY <2>1, <2>2, MeasureTyped
<1>3. sizes \in [Columns -> Known]
    BY <1>2
<1>4. ASSUME NEW c \in Columns PROVE delta[c] \in Int
    <2>1. sizes[c] \in Sizes
        BY <1>2, KnownSizes
    <2>2. delta[c] = Delta(c, sizes[c])
        OBVIOUS
    <2> HIDE DEF sizes, delta
    <2>3. QED
        BY <2>1, <2>2, DeltaTyped
<1>5. delta \in [Columns -> Int]
    <2> DEFINE d == delta
    <2>1. d = [c \in Columns |-> d[c]]
        OBVIOUS
    <2> HIDE DEF sizes
    <2>2. QED
        BY <1>4
<1>6. /\ moved \in Int
      /\ (\A c \in Columns : delta[c] = 0) => moved = 0
    <2> HIDE DEF delta
    <2>1. QED
        BY <1>5, SumTyped
<1>7. (\A c \in Columns : Fit(measured[c], Cards(c)))
      => sizes = measured /\ \A c \in Columns : delta[c] = 0
    <2> SUFFICES ASSUME \A c \in Columns : Fit(measured[c], Cards(c))
                 PROVE  sizes = measured /\ \A c \in Columns : delta[c] = 0
        OBVIOUS
    <2>1. \A c \in Columns : sizes[c] = measured[c]
        BY <1>2
    <2>2. sizes = measured
        <3>1. measured = [c \in Columns |-> measured[c]]
            BY DEF TypeOK
        <3>2. sizes = [c \in Columns |-> sizes[c]]
            OBVIOUS
        <3> HIDE DEF sizes
        <3>3. QED
            BY <2>1, <3>1, <3>2
    <2>3. ASSUME NEW c \in Columns PROVE delta[c] = 0
        <3> DEFINE anchor == AnchorIndexFor(list[c], measured[c], scroll[c])
                   spot == Offsets(list[c], measured[c])[anchor]
        <3>1. delta[c] = Delta(c, measured[c])
            <4> HIDE DEF sizes
            <4>1. QED
                BY <2>2
        <3>2. Delta(c, measured[c]) = spot - spot
            BY DEF Delta
        <3>3. list[c] \in Seq(Ids) /\ measured[c] \in Sizes /\ scroll[c] \in Nat
            BY StateTyped
        <3>4. spot \in Nat
            <4>1. anchor \in 1..(Len(list[c]) + 1)
                BY <3>3, AnchorTyped
            <4> HIDE DEF anchor
            <4>2. QED
                BY <3>3, <4>1, OffsetsTyped
        <3> HIDE DEF spot, delta
        <3>5. QED
            BY <3>1, <3>2, <3>4
    <2> HIDE DEF sizes, delta
    <2>4. QED
        BY <2>2, <2>3
<1> HIDE DEF sizes, delta, moved
<1>8. ASSUME NEW c \in Columns
      PROVE  /\ scroll'[c] \in Nat
             /\ scroll'[c] = InDocument(scroll'[c], painted[c], height, tall)
    <2>1. /\ scroll[c] \in Nat /\ height \in Sizes /\ tall \in Nat
          /\ painted[c] \in Paints /\ Len(painted[c].tops) = Len(painted[c].rows)
        BY StateTyped
    <2>2. CASE moved = 0
        <3>1. scroll'[c] = scroll[c]
            BY <1>1, <2>2
        <3>2. QED
            BY <2>1, <3>1 DEF TypeOK
    <2>3. CASE moved # 0
        <3>1. scroll'[c] = InDocument(scroll[c] + moved, painted[c], height, tall)
            BY <1>1, <2>3
        <3> DEFINE top == scroll[c] + moved
        <3>2. top \in Int
            BY <1>6, <2>1
        <3> HIDE DEF top
        <3>3. /\ InDocument(top, painted[c], height, tall) \in Nat
              /\ InDocument(InDocument(top, painted[c], height, tall), painted[c], height, tall)
                 = InDocument(top, painted[c], height, tall)
            BY <2>1, <3>2, InDocumentTyped
        <3>4. QED
            BY <3>1, <3>3 DEF top
    <2>4. QED
        BY <2>2, <2>3
<1>9. scroll' \in [Columns -> Nat]
    BY <1>1, <1>8
<1>10. moved = 0 => scroll' = scroll /\ scrolled' = scrolled /\ view' = at
    <2> SUFFICES ASSUME moved = 0
                 PROVE  scroll' = scroll /\ scrolled' = scrolled /\ view' = at
        OBVIOUS
    <2>1. scroll = [c \in Columns |-> scroll[c]]
        BY DEF TypeOK
    <2>2. scroll' = scroll
        BY <1>1, <2>1
    <2>3. QED
        BY <1>1, <2>2
<1>11. moved # 0 => \A c \in Columns : view'[c] = [top |-> scroll'[c], tall |-> tall]
    BY <1>1
<1>12. view' \in [Columns -> [top : Nat, tall : Viewports]]
    <2>1. tall \in Viewports
        BY DEF TypeOK
    <2>2. CASE moved = 0
        BY <1>1, <2>2
    <2>3. CASE moved # 0
        BY <1>1, <1>9, <2>1, <2>3
    <2>4. QED
        BY <2>2, <2>3
<1>13. /\ asks \subseteq due' /\ due' \subseteq asks \cup {"tick"}
       /\ (\A c \in Columns : delta[c] = 0) => due' = asks
    BY <1>1 DEF Bumped
<1>14. scrolled' \subseteq Columns /\ scrolled \subseteq scrolled'
    BY <1>1 DEF TypeOK
<1>15. \A c \in Columns : /\ measured'[c] = Measure(measured[c], Cards(c))
                          /\ Only(measured'[c], list[c])
                          /\ Fit(measured'[c], Cards(c))
    BY <1>1, <1>2 DEF sizes
<1>16. QED
    BY <1>1, <1>3, <1>6, <1>7, <1>8, <1>9, <1>10, <1>11, <1>12, <1>13, <1>14, <1>15

----------------------------------------------------------------------------
(* Each callback and each event keeps the invariant.                       *)

LEMMA RenderKeeps ==
    ASSUME WindowInv, Render
    PROVE  WindowInv'
<1> DEFINE kept == [c \in Columns |-> Kept(board[c], measured[c])]
           paint == [c \in Columns |-> Paint(board[c], kept[c], view[c])]
           mounts == [c \in Columns |-> ToSet(paint[c].rows) \ Cards(c)]
<1>1. /\ list' = board /\ painted' = paint /\ attached' = TRUE
      /\ measured' = [c \in Columns |-> Measure(kept[c], mounts[c])]
      /\ Relayout(paint, height, tall)
      /\ view' = IF attached THEN view
                 ELSE [c \in Columns |-> [top |-> scroll'[c], tall |-> tall]]
      /\ UNCHANGED <<board, height, tall, reading, events>>
    BY DEF Render
<1>2. /\ due' \subseteq due \cup Flags /\ "rows" \notin due'
      /\ "observe" \notin due' => /\ attached /\ "observe" \notin due
                                  /\ \A c \in Columns : mounts[c] = {}
      /\ ~attached => "tick" \in due'
    BY DEF Render, Flags
<1>3. TypeOK /\ HookSound /\ height \in [Ids -> Heights] /\ height \in Sizes /\ tall \in Nat
    BY StateTyped DEF WindowInv, TypeOK
<1>4. ASSUME NEW c \in Columns
      PROVE  /\ kept[c] \in Known /\ Only(kept[c], board[c])
             /\ \A id \in ToSet(board[c]) \cap Ids : kept[c][id] = measured[c][id]
             /\ paint[c] \in Paints /\ Len(paint[c].tops) = Len(paint[c].rows)
             /\ paint[c] = Paint(board[c], kept[c], view[c])
             /\ ToSet(paint[c].rows) \subseteq ToSet(board[c])
             /\ ToSet(paint[c].rows) \subseteq Ids
             /\ mounts[c] = ToSet(paint[c].rows) \ Cards(c)
    <2>1. board[c] \in Seq(Ids) /\ measured[c] \in Known /\ view[c] \in Views
        BY <1>3, StateTyped
    <2>2. kept[c] = Kept(board[c], measured[c])
        OBVIOUS
    <2>3. /\ kept[c] \in Known /\ Only(kept[c], board[c])
          /\ \A id \in ToSet(board[c]) \cap Ids : kept[c][id] = measured[c][id]
        <3> HIDE DEF kept
        <3>1. QED
            BY <2>1, <2>2, KeptTyped
    <2>4. paint[c] = Paint(board[c], kept[c], view[c]) /\ mounts[c] = ToSet(paint[c].rows) \ Cards(c)
        OBVIOUS
    <2> HIDE DEF kept, paint, mounts
    <2>5. kept[c] \in Sizes
        BY <2>3, KnownSizes
    <2>6. /\ paint[c] \in Paints /\ Len(paint[c].tops) = Len(paint[c].rows)
          /\ ToSet(paint[c].rows) \subseteq ToSet(board[c])
        BY <2>1, <2>4, <2>5, PaintTyped
    <2>7. ToSet(board[c]) \subseteq Ids
        BY <2>1 DEF ToSet
    <2>8. QED
        BY <2>3, <2>4, <2>6, <2>7
<1>5. paint \in [Columns -> Paints]
    <2>1. paint = [c \in Columns |-> paint[c]]
        OBVIOUS
    <2> HIDE DEF paint, kept, mounts
    <2>2. QED
        BY <1>4, <2>1
<1> HIDE DEF paint, kept, mounts
<1>6. ASSUME NEW c \in Columns
      PROVE  /\ measured'[c] \in Known /\ Only(measured'[c], board[c])
             /\ \A id \in Ids \ mounts[c] : measured'[c][id] = kept[c][id]
             /\ mounts[c] = {} => measured'[c] = kept[c]
    <2>1. kept[c] \in Known /\ Only(kept[c], board[c])
          /\ mounts[c] \in SUBSET Ids /\ mounts[c] \subseteq ToSet(board[c])
        BY <1>4
    <2>2. measured'[c] = Measure(kept[c], mounts[c])
        BY <1>1
    <2>3. mounts[c] = {} => Fit(kept[c], mounts[c])
        BY DEF Fit
    <2>4. QED
        BY <1>3, <2>1, <2>2, <2>3, MeasureTyped
<1>7. measured' \in [Columns -> Known]
    BY <1>1, <1>6
<1>8. /\ scroll' \in [Columns -> Nat]
      /\ \A c \in Columns : scroll'[c] = InDocument(scroll'[c], paint[c], height, tall)
      /\ scrolled' \subseteq Columns /\ scrolled \subseteq scrolled'
      /\ \A c \in Columns : c \notin scrolled' => scroll'[c] = scroll[c]
    <2>1. /\ scroll \in [Columns -> Nat] /\ scrolled \subseteq Columns
          /\ \A c \in Columns : Len(paint[c].tops) = Len(paint[c].rows)
        BY <1>3, <1>4 DEF TypeOK
    <2>2. QED
        BY <1>1, <1>3, <1>5, <2>1, RelayoutTyped
<1>9. view' \in [Columns -> [top : Nat, tall : Viewports]]
    <2>1. tall \in Viewports /\ view \in [Columns -> [top : Nat, tall : Viewports]]
        BY <1>3 DEF TypeOK
    <2>2. CASE attached
        BY <1>1, <2>1, <2>2
    <2>3. CASE ~attached
        BY <1>1, <1>8, <2>1, <2>3
    <2>4. QED
        BY <2>2, <2>3
<1>10. \A c \in Columns : Cards(c)' = ToSet(paint[c].rows)
    BY <1>1 DEF Cards, ToSet
<1>11. TypeOK'
    <2>1. /\ board' \in Boards /\ height' \in [Ids -> Heights] /\ tall' \in Viewports
          /\ list' \in Boards /\ attached' \in BOOLEAN /\ events' \in 0..MaxEvents
          /\ due' \subseteq Flags
        BY <1>1, <1>2, <1>3 DEF TypeOK, Flags
    <2>2. painted' \in [Columns -> Paints] /\ height' = height /\ tall' = tall
        BY <1>1, <1>5
    <2>3. ASSUME NEW c \in Columns
          PROVE  /\ \A id \in Ids : measured'[c][id] # 0 => id \in ToSet(list'[c])
                 /\ Cards(c)' \subseteq ToSet(list'[c])
                 /\ Len(painted'[c].tops) = Len(painted'[c].rows)
                 /\ scroll'[c] = InDocument(scroll'[c], painted'[c], height', tall')
        BY <1>1, <1>4, <1>6, <1>8, <1>10, <2>2 DEF Only
    <2>4. QED
        BY <1>7, <1>8, <1>9, <2>1, <2>2, <2>3 DEF TypeOK, Known, Paints, Flags
<1>12. HookSound'
    <2>1. "rows" \notin due' => list' = board'
        BY <1>1
    <2>2. ASSUME NEW c \in Columns, "observe" \notin due'
          PROVE  /\ c \notin scrolled' => Current(c)'
                 /\ Fit(measured[c], Cards(c))'
                 /\ painted'[c] = PaintOf(c)'
        <3>1. attached /\ "observe" \notin due /\ mounts[c] = {}
            BY <1>2, <2>2
        <3>2. /\ c \notin scrolled => Current(c)
              /\ Fit(measured[c], Cards(c))
            BY <1>3, <3>1 DEF HookSound
        <3>3. view' = view /\ tall' = tall /\ board' = board /\ height' = height
            BY <1>1, <3>1
        <3>4. c \notin scrolled' => Current(c)'
            BY <1>8, <3>2, <3>3 DEF Current
        <3>5. Cards(c)' \subseteq Cards(c) /\ Cards(c)' \subseteq ToSet(board[c]) \cap Ids
            BY <1>4, <1>10, <3>1
        <3>6. measured'[c] = kept[c]
            BY <1>6, <3>1
        <3>7. \A id \in Cards(c)' : SlotSize(measured'[c], id) = height'[id]
            BY <1>4, <3>2, <3>3, <3>5, <3>6 DEF Fit, SlotSize
        <3>8. painted'[c] = PaintOf(c)'
            BY <1>1, <1>4, <3>3, <3>6 DEF PaintOf
        <3>9. QED
            BY <3>4, <3>7, <3>8 DEF Fit
    <2>3. QED
        BY <2>1, <2>2 DEF HookSound
<1>13. QED
    BY <1>11, <1>12 DEF WindowInv

LEMMA EffectKeeps ==
    ASSUME WindowInv, Effect
    PROVE  WindowInv'
<1>1. /\ "measure" \in due
      /\ MeasureAll(view, due \ {"measure"})
      /\ UNCHANGED <<board, height, tall, list, painted, attached, reading, events>>
    BY DEF Effect
<1>2. TypeOK /\ HookSound /\ view \in [Columns -> [top : Nat, tall : Viewports]]
    BY DEF WindowInv, TypeOK
<1> DEFINE asks == due \ {"measure"}
<1>3. /\ measured' \in [Columns -> Known]
      /\ \A c \in Columns : Only(measured'[c], list[c]) /\ Fit(measured'[c], Cards(c))
      /\ scroll' \in [Columns -> Nat]
      /\ \A c \in Columns : scroll'[c] = InDocument(scroll'[c], painted[c], height, tall)
      /\ scrolled' \subseteq Columns /\ scrolled \subseteq scrolled'
      /\ view' \in [Columns -> [top : Nat, tall : Viewports]]
      /\ \/ scroll' = scroll /\ scrolled' = scrolled /\ view' = view
         \/ \A c \in Columns : view'[c] = [top |-> scroll'[c], tall |-> tall]
      /\ asks \subseteq due' /\ due' \subseteq asks \cup {"tick"}
      /\ (\A c \in Columns : Fit(measured[c], Cards(c)))
         => /\ measured' = measured /\ scroll' = scroll /\ scrolled' = scrolled
            /\ view' = view /\ due' = asks
    <2> HIDE DEF asks
    <2>1. MeasureAll(view, asks)
        BY <1>1 DEF asks
    <2>2. QED
        BY <1>2, <2>1, MeasureAllStep
<1>4. \A c \in Columns : Cards(c)' = Cards(c)
    BY <1>1 DEF Cards
<1>5. TypeOK'
    <2>1. /\ board' \in Boards /\ height' \in [Ids -> Heights] /\ tall' \in Viewports
          /\ list' \in Boards \cup {[c \in Columns |-> <<>>]}
          /\ attached' \in BOOLEAN /\ events' \in 0..MaxEvents /\ due' \subseteq Flags
          /\ painted' \in [Columns -> [rows : Seq(Ids), tops : Seq(Nat), total : Nat]]
        BY <1>1, <1>2, <1>3 DEF TypeOK, Flags
    <2>2. ASSUME NEW c \in Columns
          PROVE  /\ \A id \in Ids : measured'[c][id] # 0 => id \in ToSet(list'[c])
                 /\ Cards(c)' \subseteq ToSet(list'[c])
                 /\ Len(painted'[c].tops) = Len(painted'[c].rows)
                 /\ scroll'[c] = InDocument(scroll'[c], painted'[c], height', tall')
        BY <1>1, <1>2, <1>3, <1>4 DEF TypeOK, Only
    <2>3. QED
        BY <1>3, <2>1, <2>2 DEF TypeOK, Known, Flags
<1>6. HookSound'
    <2> SUFFICES ASSUME attached PROVE HookSound'
        BY <1>1 DEF HookSound
    <2>1. "rows" \notin due' => list' = board'
        BY <1>1, <1>2, <1>3 DEF HookSound
    <2>2. ASSUME NEW c \in Columns, "observe" \notin due'
          PROVE  /\ c \notin scrolled' => Current(c)'
                 /\ Fit(measured[c], Cards(c))'
                 /\ due' \cap {"tick", "rows", "observe"} = {} => painted'[c] = PaintOf(c)'
        <3>1. "observe" \notin due
            BY <1>3, <2>2
        <3>2. \A k \in Columns : /\ k \notin scrolled => Current(k)
                                 /\ Fit(measured[k], Cards(k))
                                 /\ due \cap {"tick", "rows", "observe"} = {} => painted[k] = PaintOf(k)
            BY <1>2, <3>1 DEF HookSound
        <3>3. measured' = measured /\ scroll' = scroll /\ scrolled' = scrolled
              /\ view' = view /\ due' = due \ {"measure"}
            BY <1>3, <3>2
        <3>4. Current(c)' <=> Current(c)
            BY <1>1, <3>3 DEF Current
        <3>5. PaintOf(c)' = PaintOf(c)
            BY <1>1, <3>3 DEF PaintOf
        <3>6. Fit(measured[c], Cards(c))'
            BY <1>1, <1>4, <3>2, <3>3 DEF Fit, SlotSize
        <3>7. due' \cap {"tick", "rows", "observe"} = {} => due \cap {"tick", "rows", "observe"} = {}
            BY <3>3
        <3>8. QED
            BY <1>1, <3>2, <3>3, <3>4, <3>5, <3>6, <3>7
    <2>3. QED
        BY <2>1, <2>2 DEF HookSound
<1>7. QED
    BY <1>5, <1>6 DEF WindowInv

LEMMA ObserveKeeps ==
    ASSUME WindowInv, Observe
    PROVE  WindowInv'
<1> DEFINE at == [c \in Columns |-> [top |-> scroll[c], tall |-> tall]]
           asks == (due \ {"observe"}) \cup {"tick"}
<1>1. /\ MeasureAll(at, asks)
      /\ UNCHANGED <<board, height, tall, list, painted, attached, reading, events>>
    BY DEF Observe
<1>2. TypeOK /\ HookSound /\ at \in [Columns -> [top : Nat, tall : Viewports]]
    BY DEF WindowInv, TypeOK
<1>3. /\ measured' \in [Columns -> Known]
      /\ \A c \in Columns : Only(measured'[c], list[c]) /\ Fit(measured'[c], Cards(c))
      /\ scroll' \in [Columns -> Nat]
      /\ \A c \in Columns : scroll'[c] = InDocument(scroll'[c], painted[c], height, tall)
      /\ scrolled' \subseteq Columns /\ scrolled \subseteq scrolled'
      /\ view' \in [Columns -> [top : Nat, tall : Viewports]]
      /\ \/ scroll' = scroll /\ scrolled' = scrolled /\ view' = at
         \/ \A c \in Columns : view'[c] = [top |-> scroll'[c], tall |-> tall]
      /\ asks \subseteq due' /\ due' \subseteq asks \cup {"tick"}
    <2> HIDE DEF asks, at
    <2>1. QED
        BY <1>1, <1>2, MeasureAllStep
<1>4. \A c \in Columns : Cards(c)' = Cards(c)
    BY <1>1 DEF Cards
<1>5. TypeOK'
    <2>1. /\ board' \in Boards /\ height' \in [Ids -> Heights] /\ tall' \in Viewports
          /\ list' \in Boards \cup {[c \in Columns |-> <<>>]}
          /\ attached' \in BOOLEAN /\ events' \in 0..MaxEvents /\ due' \subseteq Flags
          /\ painted' \in [Columns -> [rows : Seq(Ids), tops : Seq(Nat), total : Nat]]
        BY <1>1, <1>2, <1>3 DEF TypeOK, Flags
    <2>2. ASSUME NEW c \in Columns
          PROVE  /\ \A id \in Ids : measured'[c][id] # 0 => id \in ToSet(list'[c])
                 /\ Cards(c)' \subseteq ToSet(list'[c])
                 /\ Len(painted'[c].tops) = Len(painted'[c].rows)
                 /\ scroll'[c] = InDocument(scroll'[c], painted'[c], height', tall')
        BY <1>1, <1>2, <1>3, <1>4 DEF TypeOK, Only
    <2>3. QED
        BY <1>3, <2>1, <2>2 DEF TypeOK, Known, Flags
<1>6. HookSound'
    <2> SUFFICES ASSUME attached PROVE HookSound'
        BY <1>1 DEF HookSound
    <2>1. "rows" \notin due' => list' = board'
        BY <1>1, <1>2, <1>3 DEF HookSound
    <2>2. "tick" \in due'
        BY <1>3
    <2>3. ASSUME NEW c \in Columns PROVE Current(c)'
        BY <1>1, <1>3 DEF Current
    <2>4. ASSUME NEW c \in Columns PROVE Fit(measured[c], Cards(c))'
        BY <1>1, <1>3, <1>4 DEF Fit, SlotSize
    <2>5. QED
        BY <2>1, <2>2, <2>3, <2>4 DEF HookSound
<1>7. QED
    BY <1>5, <1>6 DEF WindowInv

LEMMA OnScrollKeeps ==
    ASSUME WindowInv, NEW c \in Columns, OnScroll(c)
    PROVE  WindowInv'
<1>1. /\ scrolled' = scrolled \ {c}
      /\ view' = [view EXCEPT ![c] = [top |-> scroll[c], tall |-> tall]]
      /\ due' = IF RangeFor(list[c], measured[c], view[c]) = RangeFor(list[c], measured[c], view'[c])
                THEN due ELSE due \cup {"tick"}
      /\ UNCHANGED <<board, height, tall, scroll, list, measured, painted, attached, reading, events>>
    BY DEF OnScroll
<1>2. TypeOK /\ HookSound /\ view \in [Columns -> [top : Nat, tall : Viewports]]
      /\ scroll[c] \in Nat /\ tall \in Viewports
    BY DEF WindowInv, TypeOK
<1>3. view' \in [Columns -> [top : Nat, tall : Viewports]]
    BY <1>1, <1>2
<1>4. /\ \A k \in Columns : Cards(k)' = Cards(k)
      /\ \A k \in Columns : InDocument(scroll[k], painted[k], height, tall)'
                            = InDocument(scroll[k], painted[k], height, tall)
    BY <1>1 DEF Cards, InDocument, Reach
<1>5. TypeOK'
    BY <1>1, <1>2, <1>3, <1>4 DEF TypeOK
<1>6. HookSound'
    <2> SUFFICES ASSUME attached PROVE HookSound'
        BY <1>1 DEF HookSound
    <2>1. "rows" \notin due' => list' = board'
        BY <1>1, <1>2 DEF HookSound
    <2>2. ASSUME NEW k \in Columns, "observe" \notin due'
          PROVE  /\ k \notin scrolled' => Current(k)'
                 /\ Fit(measured[k], Cards(k))'
        <3>1. /\ k \notin scrolled => Current(k)
              /\ Fit(measured[k], Cards(k))
            BY <1>1, <1>2, <2>2 DEF HookSound
        <3>2. CASE k = c
            BY <1>1, <1>2, <1>4, <3>1, <3>2 DEF Current, Fit, SlotSize
        <3>3. CASE k # c
            BY <1>1, <1>2, <1>4, <3>1, <3>3 DEF Current, Fit, SlotSize
        <3>4. QED
            BY <3>2, <3>3
    <2>3. ASSUME NEW k \in Columns, due' \cap {"tick", "rows", "observe"} = {}
          PROVE  painted'[k] = PaintOf(k)'
        <3>1. /\ due' = due
              /\ RangeFor(list[c], measured[c], view[c]) = RangeFor(list[c], measured[c], view'[c])
            BY <1>1, <2>3
        <3>2. painted[k] = PaintOf(k) /\ list = board
            BY <1>2, <2>3, <3>1 DEF HookSound
        <3>3. CASE k = c
            <4>1. Paint(board[c], measured[c], view[c]) = Paint(board[c], measured[c], view'[c])
                BY <3>1, <3>2 DEF Paint
            <4>2. QED
                BY <1>1, <3>2, <3>3, <4>1 DEF PaintOf
        <3>4. CASE k # c
            <4>1. view'[k] = view[k]
                BY <1>1, <1>2, <3>4
            <4>2. QED
                BY <1>1, <3>2, <4>1 DEF PaintOf
        <3>5. QED
            BY <3>3, <3>4
    <2>4. QED
        BY <2>1, <2>2, <2>3 DEF HookSound
<1>7. QED
    BY <1>5, <1>6 DEF WindowInv

LEMMA ScrollsKeeps ==
    ASSUME WindowInv, NEW c \in Columns, NEW top, top \in 0..Reach(painted[c], height), Scrolls(c, top)
    PROVE  WindowInv'
<1>1. /\ attached /\ events' = events + 1 /\ events < MaxEvents
      /\ top = InDocument(top, painted[c], height, tall)
      /\ scroll' = [scroll EXCEPT ![c] = top] /\ scrolled' = scrolled \cup {c}
      /\ UNCHANGED <<board, height, tall, list, measured, view, painted, attached, due>>
    BY DEF Scrolls, Moves, Event
<1>2. TypeOK /\ HookSound /\ scroll \in [Columns -> Nat] /\ MaxEvents \in Nat
    BY WindowAssumption DEF WindowInv, TypeOK
<1>3. top \in Nat
    <2>1. Reach(painted[c], height) \in Nat
        BY <1>2, StateTyped, ReachTyped
    <2>2. QED
        BY <2>1
<1>4. \A k \in Columns : Cards(k)' = Cards(k)
    BY <1>1 DEF Cards
<1>5. ASSUME NEW k \in Columns
      PROVE  scroll'[k] = InDocument(scroll'[k], painted'[k], height', tall')
    <2>1. scroll[k] = InDocument(scroll[k], painted[k], height, tall)
        BY <1>2 DEF TypeOK
    <2>2. scroll'[k] = scroll[k] \/ (k = c /\ scroll'[k] = top)
        BY <1>1, <1>2
    <2>3. painted' = painted /\ height' = height /\ tall' = tall
        BY <1>1
    <2>4. QED
        BY <1>1, <2>1, <2>2, <2>3
<1>6. scroll' \in [Columns -> Nat] /\ events' \in 0..MaxEvents
    BY <1>1, <1>2, <1>3 DEF TypeOK
<1>7. TypeOK'
    BY <1>1, <1>2, <1>4, <1>5, <1>6 DEF TypeOK
<1>8. \A k \in Columns : k \notin scrolled' => k \notin scrolled /\ scroll'[k] = scroll[k]
    BY <1>1, <1>2
<1>9. \A k \in Columns : PaintOf(k)' = PaintOf(k) /\ (Fit(measured[k], Cards(k))' <=> Fit(measured[k], Cards(k)))
    BY <1>1, <1>4 DEF PaintOf, Fit, SlotSize
<1>10. \A k \in Columns : k \notin scrolled' => (Current(k)' <=> Current(k))
    BY <1>1, <1>8 DEF Current
<1>11. HookSound'
    BY <1>1, <1>2, <1>8, <1>9, <1>10 DEF HookSound
<1>12. QED
    BY <1>7, <1>11 DEF WindowInv

LEMMA ResizesKeeps ==
    ASSUME WindowInv, NEW id \in Ids, NEW h \in Heights, Resizes(id, h)
    PROVE  WindowInv'
<1>1. /\ attached /\ events' = events + 1 /\ events < MaxEvents
      /\ height' = [height EXCEPT ![id] = h]
      /\ Relayout(painted, height', tall)
      /\ due' = IF \E c \in Columns : id \in Cards(c) THEN due \cup {"observe"} ELSE due
      /\ UNCHANGED <<board, tall, list, measured, view, painted, attached>>
    BY DEF Resizes, Event
<1>2. TypeOK /\ HookSound /\ MaxEvents \in Nat /\ tall \in Nat
    BY StateTyped, WindowAssumption DEF WindowInv, TypeOK
<1>3. height' \in [Ids -> Heights] /\ height' \in Sizes
    <2>1. height' \in [Ids -> Heights]
        BY <1>1, <1>2 DEF TypeOK
    <2>2. Heights \subseteq Nat
        BY WindowAssumption
    <2>3. QED
        BY <2>1, <2>2 DEF Sizes
<1>4. /\ scroll' \in [Columns -> Nat]
      /\ \A c \in Columns : scroll'[c] = InDocument(scroll'[c], painted[c], height', tall)
      /\ scrolled' \subseteq Columns /\ scrolled \subseteq scrolled'
      /\ \A c \in Columns : c \notin scrolled' => scroll'[c] = scroll[c]
    <2>1. painted \in [Columns -> Paints] /\ scroll \in [Columns -> Nat] /\ scrolled \subseteq Columns
          /\ \A c \in Columns : Len(painted[c].tops) = Len(painted[c].rows)
        BY <1>2 DEF TypeOK, Paints
    <2>2. QED
        BY <1>1, <1>2, <1>3, <2>1, RelayoutTyped
<1>5. \A c \in Columns : Cards(c)' = Cards(c)
    BY <1>1 DEF Cards
<1>6. events' \in 0..MaxEvents
    BY <1>1, <1>2 DEF TypeOK
<1>7. due' \subseteq {"tick", "rows", "measure", "observe"}
    BY <1>1, <1>2 DEF TypeOK
<1>8. TypeOK'
    BY <1>1, <1>2, <1>3, <1>4, <1>5, <1>6, <1>7 DEF TypeOK
<1>9. HookSound'
    <2>1. "rows" \notin due' => list' = board'
        BY <1>1, <1>2 DEF HookSound
    <2>2. ASSUME NEW c \in Columns, "observe" \notin due'
          PROVE  /\ c \notin scrolled' => Current(c)'
                 /\ Fit(measured[c], Cards(c))'
        <3>1. due' = due /\ id \notin Cards(c)
            BY <1>1, <2>2
        <3>2. /\ c \notin scrolled => Current(c)
              /\ Fit(measured[c], Cards(c)) /\ Cards(c) \subseteq Ids
            BY <1>1, <1>2, <2>2, <3>1, StateTyped DEF HookSound
        <3>3. \A other \in Cards(c) : height'[other] = height[other]
            BY <1>1, <1>2, <3>1, <3>2 DEF TypeOK
        <3>4. QED
            BY <1>1, <1>4, <1>5, <3>2, <3>3 DEF Current, Fit, SlotSize
    <2>3. ASSUME NEW c \in Columns, due' \cap {"tick", "rows", "observe"} = {}
          PROVE  painted'[c] = PaintOf(c)'
        <3>1. due \cap {"tick", "rows", "observe"} = {}
            BY <1>1, <2>3
        <3>2. painted[c] = PaintOf(c)
            BY <1>1, <1>2, <3>1 DEF HookSound
        <3>3. QED
            BY <1>1, <3>2 DEF PaintOf
    <2>4. QED
        BY <2>1, <2>2, <2>3 DEF HookSound
<1>10. QED
    BY <1>8, <1>9 DEF WindowInv

LEMMA StretchesKeeps ==
    ASSUME WindowInv, NEW viewport \in Viewports, Stretches(viewport)
    PROVE  WindowInv'
<1>1. /\ attached /\ events' = events + 1 /\ events < MaxEvents
      /\ tall' = viewport
      /\ Relayout(painted, height, viewport)
      /\ due' = due \cup {"observe"}
      /\ UNCHANGED <<board, height, list, measured, view, painted, attached>>
    BY DEF Stretches, Moves, Event
<1>2. TypeOK /\ HookSound /\ MaxEvents \in Nat /\ viewport \in Nat /\ height \in Sizes
    BY StateTyped, WindowAssumption DEF WindowInv
<1>3. /\ scroll' \in [Columns -> Nat]
      /\ \A c \in Columns : scroll'[c] = InDocument(scroll'[c], painted[c], height, viewport)
      /\ scrolled' \subseteq Columns
    <2>1. painted \in [Columns -> Paints] /\ scroll \in [Columns -> Nat] /\ scrolled \subseteq Columns
          /\ \A c \in Columns : Len(painted[c].tops) = Len(painted[c].rows)
        BY <1>2 DEF TypeOK, Paints
    <2>2. QED
        BY <1>1, <1>2, <2>1, RelayoutTyped
<1>4. \A c \in Columns : Cards(c)' = Cards(c)
    BY <1>1 DEF Cards
<1>5. events' \in 0..MaxEvents
    BY <1>1, <1>2 DEF TypeOK
<1>6. TypeOK'
    BY <1>1, <1>2, <1>3, <1>4, <1>5 DEF TypeOK
<1>7. "rows" \notin due' => list' = board'
    BY <1>1, <1>2 DEF HookSound
<1>8. HookSound'
    BY <1>1, <1>7 DEF HookSound
<1>9. QED
    BY <1>6, <1>8 DEF WindowInv

LEMMA ShowsKeeps ==
    ASSUME WindowInv, NEW rows \in Boards, Shows(rows)
    PROVE  WindowInv'
<1>1. /\ attached /\ events' = events + 1 /\ events < MaxEvents
      /\ board' = rows /\ due' = due \cup {"rows"}
      /\ UNCHANGED <<height, tall, scroll, list, measured, view, painted, attached, scrolled>>
    BY DEF Shows, Moves, Event
<1>2. TypeOK /\ HookSound /\ MaxEvents \in Nat
    BY WindowAssumption DEF WindowInv
<1>3. /\ \A k \in Columns : Cards(k)' = Cards(k)
      /\ \A k \in Columns : InDocument(scroll[k], painted[k], height, tall)'
                            = InDocument(scroll[k], painted[k], height, tall)
    BY <1>1 DEF Cards, InDocument, Reach
<1>4. events' \in 0..MaxEvents
    BY <1>1, <1>2 DEF TypeOK
<1>5. TypeOK'
    BY <1>1, <1>2, <1>3, <1>4 DEF TypeOK
<1>6. \A k \in Columns : /\ Current(k)' <=> Current(k)
                         /\ Fit(measured[k], Cards(k))' <=> Fit(measured[k], Cards(k))
    BY <1>1, <1>3 DEF Current, Fit, SlotSize
<1>7. HookSound'
    BY <1>1, <1>2, <1>6 DEF HookSound
<1>8. QED
    BY <1>5, <1>7 DEF WindowInv

LEMMA InitWindow ==
    ASSUME Init
    PROVE  WindowInv
<1>1. Max(Viewports) \in Viewports /\ Viewports \subseteq Nat
    <2>1. Viewports \in SUBSET Int /\ IsFiniteSet(Viewports) /\ Viewports # {} /\ Viewports \subseteq Nat
        BY WindowAssumption
    <2>2. QED
        BY <2>1, GreatestOf
<1>2. height \in [Ids -> Heights] /\ height \in Sizes /\ tall \in Viewports /\ tall \in Nat
    BY <1>1, KnownSizes DEF Init
<1>3. ASSUME NEW c \in Columns
      PROVE  /\ painted[c] = [rows |-> <<>>, tops |-> <<>>, total |-> 0]
             /\ painted[c] \in Paints
             /\ Len(painted[c].tops) = Len(painted[c].rows) /\ Cards(c) = {}
             /\ scroll[c] = 0 /\ scroll[c] = InDocument(scroll[c], painted[c], height, tall)
             /\ \A id \in Ids : measured[c][id] = 0
    <2>1. /\ painted[c] = [rows |-> <<>>, tops |-> <<>>, total |-> 0] /\ scroll[c] = 0
          /\ \A id \in Ids : measured[c][id] = 0
        BY DEF Init
    <2>2. painted[c] \in Paints /\ Len(painted[c].tops) = Len(painted[c].rows) /\ Cards(c) = {}
        BY <2>1 DEF Paints, Cards
    <2>3. 0 = InDocument(0, painted[c], height, tall)
        BY <1>2, <2>2, InDocumentTyped
    <2>4. QED
        BY <2>1, <2>2, <2>3
<1>4. painted \in [Columns -> Paints] /\ scroll \in [Columns -> Nat]
    BY <1>3 DEF Init
<1>5. MaxEvents \in Nat
    BY WindowAssumption
<1>6. /\ board \in Boards /\ list = [c \in Columns |-> <<>>]
      /\ measured \in [Columns -> [Ids -> Heights \cup {0}]]
      /\ view \in [Columns -> [top : Nat, tall : Viewports]]
      /\ attached = FALSE /\ due = {"tick"} /\ scrolled = {} /\ events = 0
    BY <1>1 DEF Init
<1>7. TypeOK
    <2>1. list \in Boards \cup {[c \in Columns |-> <<>>]}
        BY <1>6
    <2>2. /\ due \subseteq {"tick", "rows", "measure", "observe"}
          /\ scrolled \subseteq Columns /\ events \in 0..MaxEvents
        BY <1>5, <1>6
    <2>5. attached \in BOOLEAN
        BY <1>6
    <2>3. ASSUME NEW c \in Columns
          PROVE  /\ \A id \in Ids : measured[c][id] # 0 => id \in ToSet(list[c])
                 /\ Cards(c) \subseteq ToSet(list[c])
        BY <1>3
    <2>4. QED
        BY <1>2, <1>3, <1>4, <1>6, <2>1, <2>2, <2>3, <2>5 DEF TypeOK, Paints
<1>8. HookSound
    BY <1>6 DEF HookSound
<1>9. QED
    BY <1>7, <1>8 DEF WindowInv

LEMMA StepKeeps ==
    ASSUME WindowInv, [Next]_vars
    PROVE  WindowInv'
<1>1. CASE Render
    BY <1>1, RenderKeeps
<1>2. CASE Effect
    BY <1>2, EffectKeeps
<1>3. CASE Observe
    BY <1>3, ObserveKeeps
<1>4. ASSUME NEW c \in Columns, OnScroll(c) PROVE WindowInv'
    BY <1>4, OnScrollKeeps
<1>5. ASSUME NEW c \in Columns, NEW top \in 0..Reach(painted[c], height), Scrolls(c, top)
      PROVE  WindowInv'
    BY <1>5, ScrollsKeeps
<1>6. ASSUME NEW id \in Ids, NEW h \in Heights, Resizes(id, h) PROVE WindowInv'
    BY <1>6, ResizesKeeps
<1>7. ASSUME NEW viewport \in Viewports, Stretches(viewport) PROVE WindowInv'
    BY <1>7, StretchesKeeps
<1>8. ASSUME NEW rows \in Boards, Shows(rows) PROVE WindowInv'
    BY <1>8, ShowsKeeps
<1>9. CASE UNCHANGED vars
    <2>1. UNCHANGED <<board, height, tall, scroll, list, measured, view, painted, attached, due,
                      scrolled, events>>
        BY <1>9 DEF vars
    <2>2. TypeOK'
        <3>1. /\ \A k \in Columns : Cards(k)' = Cards(k)
              /\ \A k \in Columns : InDocument(scroll[k], painted[k], height, tall)'
                                    = InDocument(scroll[k], painted[k], height, tall)
            BY <2>1 DEF Cards, InDocument, Reach
        <3>2. QED
            BY <2>1, <3>1 DEF WindowInv, TypeOK
    <2>3. HookSound'
        BY <2>1 DEF WindowInv, HookSound, Current, Fit, SlotSize, PaintOf, Cards
    <2>4. QED
        BY <2>2, <2>3 DEF WindowInv
<1>10. QED
    BY <1>1, <1>2, <1>3, <1>4, <1>5, <1>6, <1>7, <1>8, <1>9 DEF Next

\* What holds between the callbacks, whatever their order and number: the types,
\* the cache that holds heights of rows only, the scroller inside its content,
\* and that what is not to be called has nothing to do (HookSound).
THEOREM WindowInvariant == Spec => []WindowInv
BY InitWindow, StepKeeps, PTL DEF Spec

\* The cache of heights never outlives the rows it is about, the cards of the
\* document are rows of the window, and the scroller stays inside its content.
THEOREM WindowTypes == Spec => []TypeOK
<1>1. WindowInv => TypeOK
    BY DEF WindowInv
<1>2. QED
    BY <1>1, WindowInvariant, PTL

----------------------------------------------------------------------------
(* The viewport at rest.                                                   *)

\* What a paint that is up to date shows: size rows after from.
Shown(c, from, size) ==
    /\ from + size <= Len(board[c])
    /\ DOMAIN painted[c].rows = 1..size /\ DOMAIN painted[c].tops = 1..size
    /\ Len(painted[c].rows) = size /\ Len(painted[c].tops) = size
    /\ painted[c].rows = [n \in 1..size |-> board[c][from + n]]
    /\ \A n \in 1..size :
          /\ painted[c].rows[n] = board[c][from + n]
          /\ painted[c].tops[n] = Offsets(board[c], measured[c])[from + n]
    /\ painted[c].total = TotalHeight(board[c], measured[c])
    /\ \A k \in 1..Len(board[c]), line \in Nat :
          Holds(board[c], measured[c], k, line)
          /\ view[c].top <= line /\ line < view[c].top + view[c].tall
          => k \in (from + 1)..(from + size)

LEMMA ShownRows ==
    ASSUME TypeOK, NEW c \in Columns, painted[c] = PaintOf(c)
    PROVE  \E from, size \in Nat : Shown(c, from, size)
<1> DEFINE rows == board[c]
           sizes == measured[c]
           at == view[c]
<1>1. rows \in Seq(Ids) /\ sizes \in Sizes /\ at \in Views
      /\ painted[c] \in Paints
    BY StateTyped
<1>2. painted[c] = Paint(rows, sizes, at)
    BY DEF PaintOf
<1> HIDE DEF rows, sizes, at
<1>3. /\ Paint(rows, sizes, at).total = TotalHeight(rows, sizes)
      /\ \E from, size \in Nat : Painted(rows, sizes, at, from, size)
    BY <1>1, PaintShape
<1>4. PICK from \in Nat, size \in Nat : Painted(rows, sizes, at, from, size)
    BY <1>3
<1>5. /\ from + size <= Len(rows)
      /\ painted[c].rows = [n \in 1..size |-> rows[from + n]]
      /\ painted[c].tops = [n \in 1..size |-> Offsets(rows, sizes)[from + n]]
      /\ \A k \in 1..Len(rows), line \in Nat :
            Holds(rows, sizes, k, line) /\ at.top <= line /\ line < at.top + at.tall
            => k \in (from + 1)..(from + size)
    BY <1>2, <1>4 DEF Painted
<1>6. painted[c].rows \in Seq(Ids) /\ painted[c].tops \in Seq(Nat)
    BY <1>1 DEF Paints
<1>7. Len(painted[c].rows) = size /\ Len(painted[c].tops) = size
    <2> DEFINE m == Len(painted[c].rows)
               n == Len(painted[c].tops)
    <2>1. m \in Nat /\ n \in Nat /\ 1..m = 1..size /\ 1..n = 1..size
        BY <1>5, <1>6
    <2> HIDE DEF m, n
    <2>2. m = size /\ n = size
        BY <2>1, SameEnd
    <2>3. QED
        BY <2>2 DEF m, n
<1>8. Shown(c, from, size)
    BY <1>2, <1>3, <1>5, <1>7 DEF Shown, rows, sizes, at
<1>9. QED
    BY <1>8

\* Each card of such a paint has its slot, if it is as high as noted.
LEMMA ShownSlots ==
    ASSUME TypeOK, NEW c \in Columns, NEW from \in Nat, NEW size \in Nat, Shown(c, from, size),
           Fit(measured[c], Cards(c))
    PROVE  \A n \in 1..size :
              /\ from + n \in 1..Len(board[c])
              /\ painted[c].tops[n] \in Nat /\ height[painted[c].rows[n]] \in Nat \ {0}
              /\ painted[c].tops[n] + height[painted[c].rows[n]]
                 = Offsets(board[c], measured[c])[from + n + 1]
<1> DEFINE rows == board[c]
           sizes == measured[c]
<1>1. rows \in Seq(Ids) /\ sizes \in Sizes
    BY StateTyped
<1> SUFFICES ASSUME NEW n \in 1..size
             PROVE  /\ from + n \in 1..Len(rows)
                    /\ painted[c].tops[n] \in Nat /\ height[painted[c].rows[n]] \in Nat \ {0}
                    /\ painted[c].tops[n] + height[painted[c].rows[n]]
                       = Offsets(rows, sizes)[from + n + 1]
    OBVIOUS
<1>2. /\ from + size <= Len(rows) /\ n \in DOMAIN painted[c].rows
      /\ painted[c].rows[n] = rows[from + n]
      /\ painted[c].tops[n] = Offsets(rows, sizes)[from + n]
    BY DEF Shown
<1>3. from + n \in 1..Len(rows) /\ Len(rows) \in Nat /\ from + n \in 1..(Len(rows) + 1)
    BY <1>1, <1>2
<1>4. rows[from + n] \in Cards(c) /\ rows[from + n] \in Ids
    BY <1>1, <1>2, <1>3 DEF Cards
<1>5. SlotSize(sizes, rows[from + n]) = height[painted[c].rows[n]]
    BY <1>2, <1>4 DEF Fit
<1> HIDE DEF rows, sizes
<1>6. SlotSize(sizes, rows[from + n]) \in Nat \ {0}
    BY <1>1, <1>4, SlotTyped
<1>7. /\ Offsets(rows, sizes)[from + n] \in Nat
      /\ Offsets(rows, sizes)[from + n + 1]
         = Offsets(rows, sizes)[from + n] + SlotSize(sizes, rows[from + n])
    BY <1>1, <1>3, OffsetsTyped
<1>8. QED
    BY <1>2, <1>3, <1>5, <1>6, <1>7

LEMMA FilledAtRest ==
    ASSUME WindowInv
    PROVE  ViewportFilled
<1> SUFFICES ASSUME AtRest, NEW c \in Columns
             PROVE
        /\ \E from \in 0..Len(board[c]) :
              painted[c].rows = SubSeq(board[c], from + 1, from + Len(painted[c].rows))
        /\ \A line \in scroll[c]..(Min({scroll[c] + tall, painted[c].total}) - 1) :
              Cardinality(Covers(c, line)) = 1
        /\ board[c] # <<>> /\ Last(board[c]) \in Cards(c)
           => painted[c].total = Last(painted[c].tops) + height[Last(board[c])]
    BY DEF ViewportFilled
<1>1. TypeOK /\ Current(c) /\ Fit(measured[c], Cards(c)) /\ painted[c] = PaintOf(c)
    BY DEF WindowInv, HookSound, AtRest
<1>2. PICK from \in Nat, size \in Nat : Shown(c, from, size)
    BY <1>1, ShownRows
<1> DEFINE rows == board[c]
           sizes == measured[c]
<1>0. /\ rows \in Seq(Ids) /\ sizes \in Sizes /\ IsInjective(rows)
      /\ scroll[c] \in Nat /\ tall \in Nat \ {0}
    BY <1>1, StateTyped
<1>3. /\ rows \in Seq(Ids) /\ sizes \in Sizes /\ IsInjective(rows)
      /\ scroll[c] \in Nat /\ tall \in Nat \ {0}
      /\ Len(rows) \in Nat /\ DOMAIN rows = 1..Len(rows)
    <2> HIDE DEF rows, sizes
    <2>1. QED
        BY <1>0
<1>4. /\ from + size <= Len(rows) /\ Len(painted[c].rows) = size /\ Len(painted[c].tops) = size
      /\ DOMAIN painted[c].rows = 1..size
      /\ painted[c].rows = [n \in 1..size |-> rows[from + n]]
      /\ \A n \in 1..size : /\ painted[c].rows[n] = rows[from + n]
                            /\ painted[c].tops[n] = Offsets(rows, sizes)[from + n]
      /\ painted[c].total = TotalHeight(rows, sizes)
    BY <1>2 DEF Shown
<1>5. \A k \in 1..Len(rows), line \in Nat :
          Holds(rows, sizes, k, line) /\ scroll[c] <= line /\ line < scroll[c] + tall
          => k \in (from + 1)..(from + size)
    BY <1>1, <1>2 DEF Shown, Current
<1>6. \A n \in 1..size :
          /\ from + n \in 1..Len(rows)
          /\ painted[c].tops[n] \in Nat /\ height[painted[c].rows[n]] \in Nat \ {0}
          /\ painted[c].tops[n] + height[painted[c].rows[n]] = Offsets(rows, sizes)[from + n + 1]
    BY <1>1, <1>2, ShownSlots
<1> HIDE DEF rows, sizes
<1>7. TotalHeight(rows, sizes) = Offsets(rows, sizes)[Len(rows) + 1]
      /\ TotalHeight(rows, sizes) \in Nat
    <2>1. Len(rows) + 1 \in 1..(Len(rows) + 1)
        BY <1>3
    <2>2. Offsets(rows, sizes) \in [1..(Len(rows) + 1) -> Nat]
        BY <1>3, OffsetsTyped
    <2>3. QED
        BY <2>1, <2>2 DEF TotalHeight
<1>8. \E start \in 0..Len(rows) : painted[c].rows = SubSeq(rows, start + 1, start + Len(painted[c].rows))
    <2>1. from \in 0..Len(rows)
        BY <1>3, <1>4
    <2>2. SubSeq(rows, from + 1, from + size) = [n \in 1..size |-> rows[from + n]]
        <3>1. SubSeq(rows, from + 1, from + size)
              = [n \in 1..((from + size) - (from + 1) + 1) |-> rows[n + (from + 1) - 1]]
            BY <1>3
        <3>2. (from + size) - (from + 1) + 1 = size
            OBVIOUS
        <3>3. \A n \in 1..size : n + (from + 1) - 1 = from + n
            OBVIOUS
        <3>4. QED
            BY <3>1, <3>2, <3>3
    <2>3. QED
        BY <1>4, <2>1, <2>2
<1>9. ASSUME NEW line \in scroll[c]..(Min({scroll[c] + tall, painted[c].total}) - 1)
      PROVE  Cardinality(Covers(c, line)) = 1
    <2>1. line \in Nat /\ scroll[c] <= line /\ line < scroll[c] + tall
          /\ line < TotalHeight(rows, sizes)
        <3> DEFINE bottom == scroll[c] + tall
                   end == TotalHeight(rows, sizes)
        <3>1. bottom \in Int /\ end \in Int
            BY <1>3, <1>7
        <3>2. Min({bottom, end}) = IF bottom <= end THEN bottom ELSE end
            <4> HIDE DEF bottom, end
            <4>1. QED
                BY <3>1, OfTwo
        <3>3. line \in scroll[c]..(Min({bottom, end}) - 1)
            BY <1>4
        <3> HIDE DEF bottom, end
        <3>4. line \in Int /\ scroll[c] <= line /\ line < bottom /\ line < end
            BY <1>3, <3>1, <3>2, <3>3
        <3>5. QED
            BY <1>3, <3>4 DEF bottom, end
    <2>2. PICK k \in 1..Len(rows) : Holds(rows, sizes, k, line)
        BY <1>3, <2>1, OneSlot
    <2>3. k \in (from + 1)..(from + size)
        BY <1>5, <2>1, <2>2
    <2>4. ASSUME NEW n \in 1..size
          PROVE  n \in Covers(c, line) <=> Holds(rows, sizes, from + n, line)
        <3>1. n \in Covers(c, line) <=> /\ painted[c].tops[n] <= line
                                        /\ line < painted[c].tops[n] + height[painted[c].rows[n]]
            BY <1>4 DEF Covers
        <3>2. QED
            BY <1>4, <1>6, <3>1 DEF Holds
    <2>5. Covers(c, line) \subseteq 1..size
        BY <1>4 DEF Covers
    <2>6. k - from \in 1..size /\ from + (k - from) = k
        BY <2>3
    <2>7. k - from \in Covers(c, line)
        BY <2>2, <2>4, <2>6
    <2>8. ASSUME NEW n \in Covers(c, line) PROVE n = k - from
        <3>1. n \in 1..size /\ Holds(rows, sizes, from + n, line) /\ from + n \in 1..Len(rows)
            BY <1>6, <2>4, <2>5
        <3>2. from + n = k
            BY <1>3, <2>1, <2>2, <3>1, OneSlot
        <3>3. QED
            BY <2>6, <3>1, <3>2
    <2>9. Covers(c, line) = {k - from}
        BY <2>7, <2>8
    <2>10. QED
        BY <2>9, FS_Singleton
<1>10. ASSUME rows # <<>>, Last(rows) \in Cards(c)
       PROVE  painted[c].total = Last(painted[c].tops) + height[Last(rows)]
    <2>1. Last(rows) = rows[Len(rows)] /\ Last(painted[c].tops) = painted[c].tops[size]
        BY <1>4 DEF Last
    <2>2. Len(rows) \in 1..Len(rows)
        BY <1>3, <1>10
    <2>3. PICK n \in 1..size : rows[from + n] = rows[Len(rows)]
        BY <1>4, <1>10, <2>1 DEF Cards
    <2>4. from + n = Len(rows)
        BY <1>3, <1>6, <2>2, <2>3 DEF IsInjective
    <2>5. n = size /\ size \in 1..size /\ from + size + 1 = Len(rows) + 1
        <3>1. from + size <= Len(rows) /\ Len(rows) \in Nat
            BY <1>3, <1>4
        <3>2. QED
            BY <2>4, <3>1
    <2>6. painted[c].tops[size] + height[painted[c].rows[size]] = Offsets(rows, sizes)[Len(rows) + 1]
        BY <1>6, <2>5
    <2>7. painted[c].rows[size] = Last(rows)
        <3>1. painted[c].rows[size] = rows[from + size]
            BY <1>4, <2>5
        <3>2. from + size = Len(rows)
            BY <2>4, <2>5
        <3>3. QED
            BY <2>1, <3>1, <3>2
    <2>8. QED
        BY <1>4, <1>7, <2>1, <2>6, <2>7
<1>11. QED
    BY <1>8, <1>9, <1>10 DEF rows

\* Whatever the callbacks did and in whatever order, once none is due the viewport
\* of each column is filled: rows of the board in its order, every line under
\* exactly one card, and the end of the list at the foot of its last row.
THEOREM ViewportAlwaysFilled == Spec => []ViewportFilled
BY FilledAtRest, WindowInvariant, PTL

----------------------------------------------------------------------------
(* The reader who stays.                                                   *)

\* A row that grows moves what is below it by as much, and nothing above.
LEMMA Shifted ==
    ASSUME NEW rows \in Seq(Ids), IsInjective(rows), NEW sizes \in Sizes, NEW after \in Sizes,
           NEW j \in 1..Len(rows),
           \A id \in Ids : id # rows[j] => SlotSize(after, id) = SlotSize(sizes, id)
    PROVE  \A n \in 1..(Len(rows) + 1) :
              /\ n <= j => Offsets(rows, after)[n] = Offsets(rows, sizes)[n]
              /\ n > j => Offsets(rows, after)[n] = Offsets(rows, sizes)[n]
                              + (SlotSize(after, rows[j]) - SlotSize(sizes, rows[j]))
<1> DEFINE old == Offsets(rows, sizes)
           new == Offsets(rows, after)
           grown == SlotSize(after, rows[j]) - SlotSize(sizes, rows[j])
           moved(n) == IF n <= j THEN 0 ELSE grown
           right == {n \in Nat : n + 1 \in 1..(Len(rows) + 1) => new[n + 1] = old[n + 1] + moved(n + 1)}
<1>1. /\ old \in [1..(Len(rows) + 1) -> Nat] /\ new \in [1..(Len(rows) + 1) -> Nat]
      /\ old[1] = 0 /\ new[1] = 0
      /\ \A n \in 1..Len(rows) : /\ old[n + 1] = old[n] + SlotSize(sizes, rows[n])
                                 /\ new[n + 1] = new[n] + SlotSize(after, rows[n])
    BY OffsetsTyped
<1> HIDE DEF old, new
<1>2. \A n \in 1..Len(rows) : rows[n] \in Ids /\ (rows[n] = rows[j] => n = j)
    BY DEF IsInjective
<1>3. \A n \in 1..Len(rows) : SlotSize(sizes, rows[n]) \in Nat /\ SlotSize(after, rows[n]) \in Nat
    BY <1>2, SlotTyped
<1>4. grown \in Int
    BY <1>3
<1>5. 0 \in right
    <2>1. 0 + 1 <= j
        OBVIOUS
    <2>2. QED
        BY <1>1, <2>1
<1>6. \A n \in right : n + 1 \in right
    <2> DEFINE Right(n) ==
               n + 1 \in 1..(Len(rows) + 1) => new[n + 1] = old[n + 1] + moved(n + 1)
    <2> SUFFICES ASSUME NEW n \in Nat, n \in right, n + 1 + 1 \in 1..(Len(rows) + 1)
                 PROVE  new[n + 1 + 1] = old[n + 1 + 1] + moved(n + 1 + 1)
        <3>1. right = {n \in Nat : Right(n)}
            OBVIOUS
        <3>2. \A n \in Nat : n + 1 \in Nat
            OBVIOUS
        <3>3. \A n \in Nat : Right(n + 1) <=>
                  (n + 1 + 1 \in 1..(Len(rows) + 1)
                   => new[n + 1 + 1] = old[n + 1 + 1] + moved(n + 1 + 1))
            OBVIOUS
        <3> HIDE DEF right, Right, moved
        <3>4. QED
            BY <3>1, <3>2, <3>3
    <2> DEFINE m == n + 1
    <2>1. m \in 1..Len(rows) /\ m \in 1..(Len(rows) + 1) /\ m \in Nat
        OBVIOUS
    <2>2. new[m] = old[m] + moved(m)
        BY <2>1
    <2> HIDE DEF m, right
    <2>3. /\ old[m + 1] = old[m] + SlotSize(sizes, rows[m])
          /\ new[m + 1] = new[m] + SlotSize(after, rows[m])
          /\ old[m] \in Nat /\ new[m] \in Nat
        BY <1>1, <2>1
    <2>4. SlotSize(sizes, rows[m]) \in Nat /\ SlotSize(after, rows[m]) \in Nat
        BY <1>3, <2>1
    <2>5. CASE m = j
        <3>1. moved(m) = 0 /\ moved(m + 1) = SlotSize(after, rows[m]) - SlotSize(sizes, rows[m])
            BY <2>1, <2>5
        <3> HIDE DEF moved
        <3>2. QED
            BY <2>2, <2>3, <2>4, <3>1 DEF m
    <2>6. CASE m # j
        <3>1. SlotSize(after, rows[m]) = SlotSize(sizes, rows[m])
            BY <1>2, <2>1, <2>6
        <3>2. moved(m + 1) = moved(m) /\ moved(m) \in Int
            BY <1>4, <2>1, <2>6
        <3> HIDE DEF moved
        <3>3. QED
            BY <2>2, <2>3, <2>4, <3>1, <3>2 DEF m
    <2>7. QED
        BY <2>5, <2>6
<1>7. right = Nat
    <2>1. right \in SUBSET Nat
        OBVIOUS
    <2> HIDE DEF right
    <2>2. QED
        BY <1>5, <1>6, <2>1, Counting
<1>8. ASSUME NEW n \in 1..(Len(rows) + 1) PROVE new[n] = old[n] + moved(n)
    <2>1. n - 1 \in Nat /\ n - 1 + 1 = n
        OBVIOUS
    <2>2. n - 1 \in right
        <3> HIDE DEF right
        <3>1. QED
            BY <1>7, <2>1
    <2>3. QED
        BY <2>1, <2>2
<1>9. ASSUME NEW n \in 1..(Len(rows) + 1)
      PROVE  /\ n <= j => new[n] = old[n]
             /\ n > j => new[n] = old[n] + grown
    <2>1. new[n] = old[n] + moved(n) /\ old[n] \in Nat
        BY <1>1, <1>8
    <2> HIDE DEF grown
    <2>2. QED
        BY <2>1
<1>10. QED
    BY <1>9 DEF old, new

\* If the scroller follows the growth, the same rows are in range.
LEMMA SameRows ==
    ASSUME NEW rows \in Seq(Ids), IsInjective(rows), NEW sizes \in Sizes, NEW after \in Sizes,
           NEW j \in 1..Len(rows), NEW k \in 1..Len(rows), j < k,
           \A id \in Ids : id # rows[j] => SlotSize(after, id) = SlotSize(sizes, id),
           NEW at \in Views, NEW moved \in Views,
           moved.tall = at.tall,
           moved.top = at.top + (SlotSize(after, rows[j]) - SlotSize(sizes, rows[j])),
           Holds(rows, sizes, k, at.top)
    PROVE  /\ Holds(rows, after, k, moved.top)
           /\ Paint(rows, after, moved).rows = Paint(rows, sizes, at).rows
<1> DEFINE old == Offsets(rows, sizes)
           new == Offsets(rows, after)
           grown == SlotSize(after, rows[j]) - SlotSize(sizes, rows[j])
<1>1. grown \in Int
    <2>1. rows[j] \in Ids
        OBVIOUS
    <2>2. SlotSize(after, rows[j]) \in Nat /\ SlotSize(sizes, rows[j]) \in Nat
        BY <2>1, SlotTyped
    <2>3. QED
        BY <2>2
<1>2. old \in [1..(Len(rows) + 1) -> Nat] /\ new \in [1..(Len(rows) + 1) -> Nat]
    BY OffsetsTyped
<1>3. \A n \in 1..(Len(rows) + 1) : n > j => new[n] = old[n] + grown
    BY Shifted
<1>4. /\ at.top \in Nat /\ at.tall \in Nat /\ moved.top \in Nat /\ moved.tall = at.tall
      /\ moved.top = at.top + grown
    BY DEF Views
<1>5. old[k] <= at.top /\ at.top < old[k + 1]
    BY DEF Holds
<1> HIDE DEF old, new, grown
<1>6. ASSUME NEW n \in 1..(Len(rows) + 1), n >= k
      PROVE  new[n] = old[n] + grown /\ old[n] \in Nat /\ new[n] \in Nat
    BY <1>2, <1>3, <1>6
<1>7. new[k] <= moved.top /\ moved.top < new[k + 1]
    <2>1. k \in 1..(Len(rows) + 1) /\ k + 1 \in 1..(Len(rows) + 1) /\ k + 1 >= k
        OBVIOUS
    <2>2. QED
        BY <1>1, <1>4, <1>5, <1>6, <2>1
<1>8. Holds(rows, after, k, moved.top)
    BY <1>7 DEF Holds, new
<1>9. rows # <<>>
    OBVIOUS
<1>10. FirstIndexAfter(rows, sizes, at.top) = k /\ FirstIndexAfter(rows, after, moved.top) = k
    BY <1>4, <1>8, <1>9, FirstAfter
<1>11. {n \in k..Len(rows) : new[n] < moved.top + moved.tall}
       = {n \in k..Len(rows) : old[n] < at.top + at.tall}
    <2> SUFFICES ASSUME NEW n \in k..Len(rows)
                 PROVE  new[n] < moved.top + moved.tall <=> old[n] < at.top + at.tall
        OBVIOUS
    <2>1. n \in 1..(Len(rows) + 1) /\ n >= k
        OBVIOUS
    <2>2. QED
        BY <1>1, <1>4, <1>6, <2>1
<1>12. Window(rows, after, moved) = Window(rows, sizes, at)
    BY <1>9, <1>10, <1>11 DEF Window, old, new
<1>13. RangeFor(rows, after, moved) = RangeFor(rows, sizes, at)
    BY <1>12 DEF RangeFor
<1>14. QED
    BY <1>8, <1>13 DEF Paint

\* The row at the top of a column whose paint is up to date is the one whose slot
\* holds the top; what is mounted above it are rows before it.
LEMMA TopRowHolds ==
    ASSUME TypeOK, NEW c \in Columns, NEW from \in Nat, NEW size \in Nat, Shown(c, from, size),
           Current(c), NEW k \in 1..Len(board[c]), Holds(board[c], measured[c], k, scroll[c])
    PROVE  k - from \in 1..size /\ TopRow(c) = k - from
<1> DEFINE rows == board[c]
           sizes == measured[c]
           begun == {1} \cup {n \in 1..size : painted[c].tops[n] <= scroll[c]}
<1>1. /\ rows \in Seq(Ids) /\ sizes \in Sizes /\ scroll[c] \in Nat /\ tall \in Nat \ {0}
    BY StateTyped
<1>2. /\ from + size <= Len(rows) /\ DOMAIN painted[c].rows = 1..size
      /\ \A n \in 1..size : painted[c].tops[n] = Offsets(rows, sizes)[from + n]
      /\ \A m \in 1..Len(rows), line \in Nat :
            Holds(rows, sizes, m, line) /\ view[c].top <= line /\ line < view[c].top + view[c].tall
            => m \in (from + 1)..(from + size)
    BY DEF Shown
<1> HIDE DEF rows, sizes
<1>3. Len(rows) \in Nat /\ k \in 1..Len(rows) /\ Holds(rows, sizes, k, scroll[c])
    BY <1>1 DEF rows, sizes
<1>4. k \in (from + 1)..(from + size)
    <2>1. view[c].top = scroll[c] /\ view[c].tall = tall
        BY DEF Current
    <2>2. view[c].top <= scroll[c] /\ scroll[c] < view[c].top + view[c].tall
        BY <1>1, <2>1
    <2>3. QED
        BY <1>1, <1>2, <1>3, <2>2
<1>5. k - from \in 1..size /\ from + (k - from) = k /\ 1 \in 1..size
    BY <1>3, <1>4
<1>6. ASSUME NEW n \in begun PROVE n <= k - from /\ n \in 1..size
    <2>1. CASE n = 1
        BY <1>5, <2>1
    <2>2. CASE n # 1
        <3>1. n \in 1..size /\ Offsets(rows, sizes)[from + n] <= scroll[c]
            BY <1>2, <2>2
        <3> SUFFICES ASSUME n > k - from PROVE FALSE
            BY <1>5, <3>1
        <3>2. from + n \in 1..(Len(rows) + 1) /\ k + 1 \in 1..(Len(rows) + 1)
              /\ (k + 1 = from + n \/ k + 1 < from + n)
            BY <1>2, <1>3, <3>1
        <3> DEFINE m == from + n
        <3> HIDE DEF m
        <3>3. m \in 1..(Len(rows) + 1) /\ (k + 1 = m \/ k + 1 < m) /\ Offsets(rows, sizes)[m] <= scroll[c]
            BY <3>1, <3>2 DEF m
        <3>4. Offsets(rows, sizes)[m] \in Nat /\ Offsets(rows, sizes)[k + 1] \in Nat
            BY <1>1, <3>2, <3>3, OffsetsTyped
        <3>5. k + 1 < m => Offsets(rows, sizes)[k + 1] < Offsets(rows, sizes)[m]
            BY <1>1, <3>2, <3>3, OffsetsGrow
        <3>6. scroll[c] < Offsets(rows, sizes)[k + 1]
            BY <1>3 DEF Holds
        <3>7. QED
            BY <1>1, <3>3, <3>4, <3>5, <3>6
    <2>3. QED
        BY <2>1, <2>2
<1>7. k - from \in begun
    BY <1>2, <1>3, <1>5 DEF Holds
<1>8. begun \in SUBSET Int /\ IsFiniteSet(begun) /\ begun # {}
    <2>1. begun \subseteq 1..size
        BY <1>6
    <2>2. IsFiniteSet(1..size) /\ 1..size \in SUBSET Int
        BY FS_Interval
    <2> HIDE DEF begun
    <2>3. QED
        BY <1>7, <2>1, <2>2, FS_Subset
<1>9. Max(begun) \in begun /\ Max(begun) >= k - from
    <2> HIDE DEF begun
    <2>1. QED
        BY <1>7, <1>8, GreatestOf
<1>10. Max(begun) = k - from
    <2> DEFINE m == Max(begun)
    <2>1. m <= k - from /\ m \in 1..size /\ m >= k - from
        <3> HIDE DEF begun
        <3>1. QED
            BY <1>6, <1>9
    <2> HIDE DEF m
    <2>2. QED
        BY <1>5, <2>1 DEF m
<1>11. TopRow(c) = Max(begun)
    BY <1>2 DEF TopRow
<1>12. QED
    BY <1>5, <1>10, <1>11

\* A card that took another height is noted: only the observer is due, and it is
\* about that card, above the row that is at the top.
Noted(c) ==
    /\ due = {"observe"} /\ scrolled = {} /\ list = board
    /\ \A k \in Columns : Current(k) /\ painted[k] = PaintOf(k)
    /\ reading = AtTop(c)
    /\ scroll[c] + tall <= painted[c].total
    /\ \E id \in Above(c) :
          /\ \A k \in Columns : Fit(measured[k], Cards(k) \ {id})
          /\ scroll[c] + height[id] - SlotSize(measured[c], id)
             \in 0..(Reach(painted[c], height) - tall)

\* The scroller made up for it: the row is where it was by the heights noted, and
\* a render that is still due changes no card of the column.
MadeUp(c) ==
    /\ list = board /\ "rows" \notin due /\ Current(c)
    /\ \A k \in Columns : Fit(measured[k], Cards(k))
    /\ \E k \in 1..Len(board[c]) :
          /\ Holds(board[c], measured[c], k, scroll[c])
          /\ board[c][k] = reading.id
          /\ Offsets(board[c], measured[c])[k] - scroll[c] = reading.off
    /\ scroll[c] + tall <= TotalHeight(board[c], measured[c])
    /\ painted[c].rows = PaintOf(c).rows
    /\ "tick" \notin due => painted[c] = PaintOf(c)

ReadingSound ==
    reading # None =>
        /\ attached /\ reading.column \in Columns
        /\ Noted(reading.column) \/ MadeUp(reading.column)

\* At rest the content of a column ends where the list does.
LEMMA ReachAtRest ==
    ASSUME TypeOK, NEW c \in Columns, painted[c] = PaintOf(c), Fit(measured[c], Cards(c))
    PROVE  Reach(painted[c], height) = painted[c].total
<1> DEFINE rows == board[c]
           sizes == measured[c]
           reach == Reach(painted[c], height)
<1>1. PICK from \in Nat, size \in Nat : Shown(c, from, size)
    BY ShownRows
<1>2. \A n \in 1..size :
          /\ from + n \in 1..Len(rows)
          /\ painted[c].tops[n] + height[painted[c].rows[n]] = Offsets(rows, sizes)[from + n + 1]
    BY <1>1, ShownSlots
<1>3. painted[c].total = Offsets(rows, sizes)[Len(rows) + 1] /\ Len(painted[c].rows) = size
    BY <1>1 DEF Shown, TotalHeight
<1>4. rows \in Seq(Ids) /\ sizes \in Sizes
    BY StateTyped
<1>5. /\ painted[c].total <= reach /\ reach \in Nat
      /\ reach = painted[c].total
         \/ \E n \in 1..size : reach = painted[c].tops[n] + height[painted[c].rows[n]]
    <2>1. painted[c] \in Paints /\ Len(painted[c].tops) = Len(painted[c].rows) /\ height \in Sizes
        BY StateTyped
    <2>2. QED
        BY <1>3, <2>1, ReachTyped
<1> HIDE DEF rows, sizes, reach
<1>6. Len(rows) \in Nat
    BY <1>4
<1>7. ASSUME NEW n \in 1..size, reach = painted[c].tops[n] + height[painted[c].rows[n]]
      PROVE  reach <= painted[c].total
    <2> DEFINE m == from + n + 1
    <2>1. m \in 1..(Len(rows) + 1) /\ (m = Len(rows) + 1 \/ m < Len(rows) + 1)
          /\ Len(rows) + 1 \in 1..(Len(rows) + 1) /\ reach = Offsets(rows, sizes)[m]
        BY <1>2, <1>6, <1>7
    <2> HIDE DEF m
    <2>2. m < Len(rows) + 1 => Offsets(rows, sizes)[m] < Offsets(rows, sizes)[Len(rows) + 1]
        BY <1>4, <2>1, OffsetsGrow
    <2>3. Offsets(rows, sizes)[m] \in Nat /\ Offsets(rows, sizes)[Len(rows) + 1] \in Nat
        BY <1>4, <2>1, OffsetsTyped
    <2>4. QED
        BY <1>3, <2>1, <2>2, <2>3
<1>8. painted[c].total \in Nat
    BY StateTyped DEF Paints
<1>9. QED
    BY <1>5, <1>7, <1>8 DEF reach

\* Nor does a card that takes another height shrink it.
LEMMA RestStands ==
    ASSUME TypeOK, NEW c \in Columns, painted[c] = PaintOf(c), Fit(measured[c], Cards(c)),
           NEW heights \in Sizes
    PROVE  /\ scroll[c] = 0 \/ scroll[c] + tall <= painted[c].total
           /\ InDocument(scroll[c], painted[c], heights, tall) = scroll[c]
<1>1. /\ painted[c] \in Paints /\ Len(painted[c].tops) = Len(painted[c].rows)
      /\ height \in Sizes /\ tall \in Nat /\ scroll[c] \in Nat
    BY StateTyped
<1>2. Reach(painted[c], height) = painted[c].total
    BY ReachAtRest
<1>3. painted[c].total <= Reach(painted[c], heights) /\ Reach(painted[c], heights) \in Nat
      /\ painted[c].total \in Nat
    BY <1>1, ReachTyped DEF Paints
<1>4. scroll[c] = InDocument(scroll[c], painted[c], height, tall)
    BY DEF TypeOK
<1>5. scroll[c] = 0 \/ scroll[c] <= Reach(painted[c], height) - tall
    <2>1. scroll[c] \in Int
        BY <1>1
    <2> DEFINE kept == InDocument(scroll[c], painted[c], height, tall)
    <2>2. kept = 0 \/ kept <= Reach(painted[c], height) - tall
        BY <1>1, <2>1, InDocumentTyped
    <2> HIDE DEF kept
    <2>3. kept = scroll[c]
        BY <1>4 DEF kept
    <2>4. QED
        BY <2>2, <2>3
<1>6. scroll[c] = 0 \/ scroll[c] + tall <= painted[c].total
    BY <1>1, <1>2, <1>3, <1>5
<1>7. /\ 0 <= scroll[c] /\ scroll[c] <= Reach(painted[c], heights) - tall
         => InDocument(scroll[c], painted[c], heights, tall) = scroll[c]
      /\ scroll[c] = 0 => InDocument(scroll[c], painted[c], heights, tall) = 0
    <2>1. scroll[c] \in Int
        BY <1>1
    <2>2. QED
        BY <1>1, <2>1, InDocumentTyped
<1>8. scroll[c] = 0 \/ (0 <= scroll[c] /\ scroll[c] <= Reach(painted[c], heights) - tall)
    BY <1>1, <1>3, <1>6
<1>9. QED
    BY <1>6, <1>7, <1>8

\* Nothing is above the row at the top of a column that is not scrolled.
LEMMA NoneAbove ==
    ASSUME TypeOK, NEW c \in Columns, painted[c] = PaintOf(c), scroll[c] = 0
    PROVE  Above(c) = {}
<1> DEFINE rows == board[c]
           sizes == measured[c]
           begun == {1} \cup {n \in DOMAIN painted[c].rows : painted[c].tops[n] <= scroll[c]}
<1>1. PICK from \in Nat, size \in Nat : Shown(c, from, size)
    BY ShownRows
<1>2. /\ from + size <= Len(rows) /\ DOMAIN painted[c].rows = 1..size
      /\ \A n \in 1..size : painted[c].tops[n] = Offsets(rows, sizes)[from + n]
    BY <1>1 DEF Shown
<1>3. rows \in Seq(Ids) /\ sizes \in Sizes
    BY StateTyped
<1> HIDE DEF rows, sizes
<1>4. Len(rows) \in Nat
    BY <1>3
<1>5. ASSUME NEW n \in 1..size, painted[c].tops[n] <= scroll[c] PROVE n = 1
    <2> SUFFICES ASSUME n # 1 PROVE FALSE
        OBVIOUS
    <2> DEFINE m == from + n
    <2>1. m \in 1..(Len(rows) + 1) /\ 1 \in 1..(Len(rows) + 1) /\ 1 < m
        BY <1>2, <1>4
    <2> HIDE DEF m
    <2>2. Offsets(rows, sizes)[1] < Offsets(rows, sizes)[m]
        BY <1>3, <2>1, OffsetsGrow
    <2>3. Offsets(rows, sizes)[1] = 0 /\ Offsets(rows, sizes)[m] \in Nat
        BY <1>3, <2>1, OffsetsTyped
    <2>4. Offsets(rows, sizes)[m] <= 0
        BY <1>2, <1>5 DEF m
    <2>5. QED
        BY <2>2, <2>3, <2>4
<1>6. begun = {1}
    BY <1>2, <1>5
<1>7. Max({1}) = 1
    <2> DEFINE one == {1}
    <2>1. one \in SUBSET Int /\ one # {} /\ \A n \in one : n = 1
        OBVIOUS
    <2>4. IsFiniteSet(one)
        BY FS_Singleton
    <2> HIDE DEF one
    <2>2. Max(one) \in one
        BY <2>1, <2>4, GreatestOf
    <2>3. QED
        BY <2>1, <2>2 DEF one
<1>8. TopRow(c) = 1
    BY <1>6, <1>7 DEF TopRow
<1>9. QED
    BY <1>8 DEF Above

LEMMA ResizesNotes ==
    ASSUME WindowInv, NEW id \in Ids, NEW h \in Heights, Resizes(id, h)
    PROVE  ReadingSound'
<1> DEFINE above == {c \in Columns :
                        /\ id \in Above(c)
                        /\ scroll[c] + h - height[id] \in 0..(Reach(painted[c], height') - tall)}
<1>1. /\ attached
      /\ height' = [height EXCEPT ![id] = h]
      /\ Relayout(painted, height', tall)
      /\ due' = IF \E c \in Columns : id \in Cards(c) THEN due \cup {"observe"} ELSE due
      /\ reading' = IF AtRest /\ above # {} THEN AtTop(CHOOSE c \in above : TRUE) ELSE None
      /\ UNCHANGED <<board, tall, list, measured, view, painted, attached>>
    BY DEF Resizes, Event
<1> SUFFICES ASSUME reading' # None PROVE ReadingSound'
    BY DEF ReadingSound
<1>2. AtRest /\ above # {}
    BY <1>1
<1>3. PICK c \in above : reading' = AtTop(c)
    <2> HIDE DEF above
    <2>1. QED
        BY <1>1, <1>2
<1>4. /\ c \in Columns /\ id \in Above(c)
      /\ scroll[c] + h - height[id] \in 0..(Reach(painted[c], height') - tall)
    OBVIOUS
<1> HIDE DEF above
<1>5. /\ TypeOK /\ list = board /\ due = {} /\ scrolled = {}
      /\ \A k \in Columns : Current(k) /\ Fit(measured[k], Cards(k)) /\ painted[k] = PaintOf(k)
    BY <1>1, <1>2 DEF WindowInv, HookSound, AtRest
<1>6. height \in [Ids -> Heights] /\ height' \in Sizes
    <2>1. height' \in [Ids -> Heights] /\ Heights \subseteq Nat
        BY <1>1, <1>5, WindowAssumption DEF TypeOK
    <2>2. QED
        BY <1>5, <2>1 DEF Sizes, TypeOK
<1>7. scroll' = scroll /\ scrolled' = {}
    <2>1. \A k \in Columns : InDocument(scroll[k], painted[k], height', tall) = scroll[k]
        BY <1>5, <1>6, RestStands
    <2>2. scroll = [k \in Columns |-> scroll[k]]
        BY <1>5 DEF TypeOK
    <2>3. scroll' = [k \in Columns |-> InDocument(scroll[k], painted[k], height', tall)]
        BY <1>1 DEF Relayout
    <2>4. scroll' = scroll
        BY <2>1, <2>2, <2>3
    <2>5. scrolled' = scrolled \cup {k \in Columns : scroll'[k] # scroll[k]}
        BY <1>1 DEF Relayout
    <2>6. QED
        BY <1>5, <2>4, <2>5
<1>8. id \in Cards(c)
    BY <1>4 DEF Above, Cards
<1>9. due' = {"observe"}
    BY <1>1, <1>4, <1>5, <1>8
<1>10. \A k \in Columns : /\ Cards(k)' = Cards(k) /\ PaintOf(k)' = PaintOf(k)
                          /\ Current(k)' <=> Current(k)
    BY <1>1, <1>7 DEF Cards, PaintOf, Current
<1>11. /\ reading' = AtTop(c)' /\ Above(c)' = Above(c) /\ reading'.column = c
    <2>1. TopRow(c)' = TopRow(c)
        BY <1>1, <1>7 DEF TopRow
    <2>2. AtTop(c)' = AtTop(c)
        BY <1>1, <1>7, <2>1 DEF AtTop
    <2>3. Above(c)' = Above(c)
        BY <1>1, <2>1 DEF Above
    <2>4. AtTop(c).column = c
        BY DEF AtTop
    <2>5. QED
        BY <1>3, <2>2, <2>3, <2>4
<1>12. scroll[c] + tall <= painted[c].total
    BY <1>4, <1>5, <1>6, NoneAbove, RestStands
<1>13. \A k \in Columns : Fit(measured[k], Cards(k) \ {id})'
    <2> SUFFICES ASSUME NEW k \in Columns, NEW other \in Cards(k) \ {id}
                 PROVE  SlotSize(measured'[k], other) = height'[other]
        BY <1>10 DEF Fit
    <2>1. other \in Ids /\ SlotSize(measured[k], other) = height[other]
        BY <1>5, StateTyped DEF Fit
    <2>2. height'[other] = height[other] /\ measured' = measured
        BY <1>1, <1>6, <2>1
    <2>3. QED
        BY <2>1, <2>2 DEF SlotSize
<1>14. SlotSize(measured'[c], id) = height[id] /\ height'[id] = h
    BY <1>1, <1>4, <1>5, <1>6, <1>8 DEF Fit, SlotSize
<1>15. scroll'[c] + height'[id] - SlotSize(measured'[c], id)
       \in 0..(Reach(painted'[c], height') - tall')
    BY <1>1, <1>4, <1>7, <1>14
<1>16. Noted(c)'
    BY <1>1, <1>4, <1>5, <1>7, <1>9, <1>10, <1>11, <1>12, <1>13, <1>15 DEF Noted
<1>17. QED
    BY <1>1, <1>4, <1>11, <1>16 DEF ReadingSound

LEMMA NoDelta ==
    ASSUME TypeOK, NEW c \in Columns
    PROVE  Delta(c, measured[c]) = 0
<1> DEFINE anchor == AnchorIndexFor(list[c], measured[c], scroll[c])
           spot == Offsets(list[c], measured[c])[anchor]
<1>1. list[c] \in Seq(Ids) /\ measured[c] \in Sizes /\ scroll[c] \in Nat
    BY StateTyped
<1>2. anchor \in 1..(Len(list[c]) + 1)
    BY <1>1, AnchorTyped
<1> HIDE DEF anchor
<1>3. spot \in Nat
    BY <1>1, <1>2, OffsetsTyped
<1>4. Delta(c, measured[c]) = spot - spot
    BY DEF Delta, anchor
<1> HIDE DEF spot
<1>5. QED
    BY <1>3, <1>4

\* Where one card only is not as high as noted, and it is above the row that is
\* at the top of its column, the observer adds its growth, and no other, to the
\* scroller.
LEMMA ObserveMakesUp ==
    ASSUME WindowInv, NEW c \in Columns, Noted(c), Observe
    PROVE  MadeUp(c)'
<1> DEFINE rows == board[c]
           old == measured[c]
           new == measured'[c]
           at == [k \in Columns |-> [top |-> scroll[k], tall |-> tall]]
           asks == (due \ {"observe"}) \cup {"tick"}
           sizes == [k \in Columns |-> Measure(measured[k], Cards(k))]
           delta == [k \in Columns |-> Delta(k, sizes[k])]
           moved == Together(delta)
<1>1. /\ MeasureAll(at, asks)
      /\ UNCHANGED <<board, height, tall, list, painted, attached, reading, events>>
    BY DEF Observe
<1>2. /\ TypeOK /\ due = {"observe"} /\ list = board /\ reading = AtTop(c)
      /\ \A k \in Columns : Current(k) /\ painted[k] = PaintOf(k)
      /\ scroll[c] + tall <= painted[c].total
    BY DEF WindowInv, Noted
<1>3. PICK id \in Above(c) :
          /\ \A k \in Columns : Fit(measured[k], Cards(k) \ {id})
          /\ scroll[c] + height[id] - SlotSize(old, id) \in 0..(Reach(painted[c], height) - tall)
    BY DEF Noted
<1>4. /\ rows \in Seq(Ids) /\ IsInjective(rows) /\ old \in Known /\ old \in Sizes
      /\ scroll[c] \in Nat /\ tall \in Nat \ {0} /\ height \in Sizes /\ height \in [Ids -> Heights]
      /\ painted[c] \in Paints /\ Len(painted[c].tops) = Len(painted[c].rows)
      /\ view[c] \in Views
    BY <1>2, StateTyped DEF TypeOK
<1>5. /\ \A k \in Columns : /\ measured'[k] = Measure(measured[k], Cards(k))
                            /\ Fit(measured'[k], Cards(k))
      /\ measured' \in [Columns -> Known]
      /\ scroll' \in [Columns -> Nat]
      /\ due' = {"tick"}
    <2>1. at \in [Columns -> [top : Nat, tall : Viewports]] /\ asks = {"tick"}
        BY <1>2 DEF TypeOK
    <2> HIDE DEF at, asks
    <2>2. /\ \A k \in Columns : /\ measured'[k] = Measure(measured[k], Cards(k))
                                /\ Fit(measured'[k], Cards(k))
          /\ measured' \in [Columns -> Known]
          /\ scroll' \in [Columns -> Nat]
          /\ asks \subseteq due' /\ due' \subseteq asks \cup {"tick"}
        BY <1>1, <1>2, <2>1, MeasureAllStep
    <2>3. QED
        BY <2>1, <2>2
<1>6. /\ scroll'[c] = IF moved = 0 THEN scroll[c]
                      ELSE InDocument(scroll[c] + moved, painted[c], height, tall)
      /\ view' = IF moved = 0 THEN at
                 ELSE [k \in Columns |-> [top |-> scroll'[k], tall |-> tall]]
    BY <1>1 DEF MeasureAll
<1>7. id \in Cards(c) /\ id \in Ids /\ id \in ToSet(rows)
    BY <1>2, StateTyped DEF Above, Cards
<1>8. \A k \in Columns : k # c => delta[k] = 0
    <2> SUFFICES ASSUME NEW k \in Columns, k # c PROVE delta[k] = 0
        OBVIOUS
    <2>1. ToSet(board[k]) \cap ToSet(rows) = {}
        BY <1>2, WindowAssumption DEF TypeOK
    <2>2. Cards(k) \subseteq ToSet(board[k]) /\ Cards(k) \in SUBSET Ids /\ measured[k] \in Known
        BY <1>2, StateTyped
    <2>3. Fit(measured[k], Cards(k))
        BY <1>3, <1>7, <2>1, <2>2 DEF Fit
    <2>4. sizes[k] = measured[k]
        BY <1>4, <2>2, <2>3, MeasureTyped
    <2>5. delta[k] = Delta(k, sizes[k])
        OBVIOUS
    <2> HIDE DEF delta, sizes
    <2>6. QED
        BY <1>2, <2>4, <2>5, NoDelta
<1>9. /\ new = Measure(old, Cards(c)) /\ new \in Known /\ new \in Sizes
      /\ Fit(new, Cards(c)) /\ sizes[c] = new
    BY <1>5, KnownSizes
<1>10. delta \in [Columns -> Int]
    <2>1. ASSUME NEW k \in Columns PROVE delta[k] \in Int
        <3>1. sizes[k] \in Sizes
            BY <1>5, KnownSizes
        <3>2. delta[k] = Delta(k, sizes[k])
            OBVIOUS
        <3> HIDE DEF delta, sizes
        <3>3. QED
            BY <1>2, <3>1, <3>2, DeltaTyped
    <2>2. delta = [k \in Columns |-> delta[k]]
        OBVIOUS
    <2> HIDE DEF delta
    <2>3. QED
        BY <2>1, <2>2
<1>11. moved = delta[c] /\ delta[c] = Delta(c, new) /\ moved \in Int
    <2>1. delta[c] = Delta(c, new)
        BY <1>9
    <2> HIDE DEF delta
    <2>2. moved = delta[c]
        BY <1>8, <1>10, SumTyped
    <2>3. QED
        BY <1>10, <2>1, <2>2
<1>12. view'[c] = [top |-> scroll'[c], tall |-> tall] /\ scroll'[c] \in Nat
    BY <1>5, <1>6
<1> HIDE DEF moved, delta, sizes, at, asks
<1>13. PICK from \in Nat, size \in Nat : Shown(c, from, size)
    BY <1>2, ShownRows
<1>14. painted[c].total = TotalHeight(rows, old)
    BY <1>13 DEF Shown
<1>15. PICK k \in 1..Len(rows) : Holds(rows, old, k, scroll[c])
    <2> HIDE DEF rows, old
    <2>1. TotalHeight(rows, old) \in Nat
        BY <1>4, <1>14 DEF Paints
    <2>2. scroll[c] < TotalHeight(rows, old)
        BY <1>2, <1>4, <1>14, <2>1
    <2>3. QED
        BY <1>4, <2>2, OneSlot
<1>16. k - from \in 1..size /\ TopRow(c) = k - from
    BY <1>2, <1>13, <1>15, TopRowHolds
<1>17. /\ reading.id = rows[k] /\ reading.off = Offsets(rows, old)[k] - scroll[c]
       /\ \E j \in 1..Len(rows) : j < k /\ rows[j] = id
    <2>1. /\ from + size <= Len(rows) /\ DOMAIN painted[c].rows = 1..size
          /\ \A n \in 1..size : /\ painted[c].rows[n] = rows[from + n]
                                /\ painted[c].tops[n] = Offsets(rows, old)[from + n]
        BY <1>13 DEF Shown
    <2>2. from + (k - from) = k
        BY <1>16
    <2>3. /\ painted[c].rows[TopRow(c)] = rows[k]
          /\ painted[c].tops[TopRow(c)] = Offsets(rows, old)[k]
        BY <1>16, <2>1, <2>2
    <2>4. PICK n \in 1..size \cap 1..(TopRow(c) - 1) : painted[c].rows[n] = id
        BY <2>1 DEF Above
    <2> HIDE DEF rows, old
    <2>5. Len(rows) \in Nat
        BY <1>4
    <2>6. from + n \in 1..Len(rows) /\ from + n < k
        BY <1>16, <2>1, <2>4, <2>5
    <2>7. rows[from + n] = id
        BY <2>1, <2>4
    <2>8. QED
        BY <1>2, <2>3, <2>6, <2>7 DEF AtTop
<1>18. PICK j \in 1..Len(rows) : j < k /\ rows[j] = id
    BY <1>17
<1>19. \A other \in Ids : other # rows[j] => SlotSize(new, other) = SlotSize(old, other)
    <2> SUFFICES ASSUME NEW other \in Ids, other # id PROVE SlotSize(new, other) = SlotSize(old, other)
        BY <1>18
    <2>1. other \in Cards(c) => SlotSize(old, other) = height[other]
        BY <1>3 DEF Fit
    <2>2. other \in Cards(c) => SlotSize(new, other) = height[other]
        BY <1>9 DEF Fit
    <2>3. other \notin Cards(c) => new[other] = old[other]
        <3>1. Cards(c) \in SUBSET Ids
            BY <1>2, StateTyped
        <3> HIDE DEF old, new
        <3>2. \A card \in Ids \ Cards(c) : Measure(old, Cards(c))[card] = old[card]
            BY <1>4, <3>1, MeasureTyped
        <3>3. QED
            BY <1>9, <3>2
    <2>4. QED
        BY <2>1, <2>2, <2>3 DEF SlotSize
<1> DEFINE grown == SlotSize(new, rows[j]) - SlotSize(old, rows[j])
<1>20. grown = height[id] - SlotSize(old, id) /\ grown \in Int /\ SlotSize(old, id) \in Nat
       /\ height[id] \in Nat
    <2>1. SlotSize(new, id) = height[id]
        BY <1>7, <1>9 DEF Fit
    <2>2. SlotSize(old, id) \in Nat /\ SlotSize(new, id) \in Nat
        BY <1>4, <1>7, <1>9, SlotTyped
    <2>3. QED
        BY <1>18, <2>1, <2>2
<1> HIDE DEF rows, old, new
<1>21. \A n \in 1..(Len(rows) + 1) : n > j => Offsets(rows, new)[n] = Offsets(rows, old)[n] + grown
    BY <1>4, <1>9, <1>19, Shifted
<1>22. /\ Offsets(rows, old) \in [1..(Len(rows) + 1) -> Nat]
       /\ Offsets(rows, new) \in [1..(Len(rows) + 1) -> Nat]
    BY <1>4, <1>9, OffsetsTyped
<1> HIDE DEF grown
<1>23. moved = grown
    <2>1. AnchorIndexFor(list[c], measured[c], scroll[c]) = k
        BY <1>2, <1>4, <1>15, AnchorTyped DEF rows, old
    <2>2. Delta(c, new) = Offsets(rows, new)[k] - Offsets(rows, old)[k]
        BY <1>2, <2>1 DEF Delta, rows, old
    <2>3. k \in 1..(Len(rows) + 1) /\ k > j
        BY <1>18
    <2>4. Offsets(rows, new)[k] = Offsets(rows, old)[k] + grown /\ Offsets(rows, old)[k] \in Nat
        BY <1>21, <1>22, <2>3
    <2>5. QED
        BY <1>11, <1>20, <2>2, <2>4
<1>24. scroll'[c] = scroll[c] + grown
    <2>1. CASE moved = 0
        BY <1>4, <1>6, <1>23, <2>1
    <2>2. CASE moved # 0
        <3> DEFINE top == scroll[c] + moved
        <3>1. top = scroll[c] + height[id] - SlotSize(old, id)
            BY <1>4, <1>20, <1>23
        <3>2. Reach(painted[c], height) \in Nat
            BY <1>4, ReachTyped
        <3>3. top \in Int /\ 0 <= top /\ top <= Reach(painted[c], height) - tall
            BY <1>3, <1>4, <3>1, <3>2
        <3>4. scroll'[c] = InDocument(top, painted[c], height, tall)
            BY <1>6, <2>2
        <3> HIDE DEF top
        <3>5. InDocument(top, painted[c], height, tall) = top
            BY <1>4, <3>3, InDocumentTyped
        <3>6. QED
            BY <1>23, <3>4, <3>5 DEF top
    <2>3. QED
        BY <2>1, <2>2
<1> DEFINE after == [top |-> scroll'[c], tall |-> tall]
<1>25. /\ view[c] = [top |-> scroll[c], tall |-> tall]
       /\ after \in Views
    BY <1>2, <1>4, <1>12 DEF Current, Views
<1>26. /\ Holds(rows, new, k, scroll'[c])
       /\ Paint(rows, new, after).rows = Paint(rows, old, view[c]).rows
    <2>1. after.tall = view[c].tall /\ after.top = view[c].top + grown
          /\ after.top = scroll'[c] /\ view[c].top = scroll[c]
        BY <1>24, <1>25
    <2> HIDE DEF after
    <2>2. after.top = view[c].top + (SlotSize(new, rows[j]) - SlotSize(old, rows[j]))
        BY <2>1 DEF grown
    <2>3. Holds(rows, old, k, view[c].top)
        BY <1>15, <2>1
    <2>4. /\ Holds(rows, new, k, after.top)
          /\ Paint(rows, new, after).rows = Paint(rows, old, view[c]).rows
        BY <1>4, <1>9, <1>18, <1>19, <1>25, <2>1, <2>2, <2>3, SameRows
    <2>5. QED
        BY <2>1, <2>4
<1>27. Offsets(rows, new)[k] - scroll'[c] = reading.off
    <2>1. k \in 1..(Len(rows) + 1) /\ k > j
        BY <1>18
    <2>2. Offsets(rows, new)[k] = Offsets(rows, old)[k] + grown /\ Offsets(rows, old)[k] \in Nat
        BY <1>21, <1>22, <2>1
    <2>3. QED
        BY <1>4, <1>17, <1>20, <1>24, <2>2
<1>28. scroll'[c] + tall <= TotalHeight(rows, new)
    <2>1. Len(rows) + 1 \in 1..(Len(rows) + 1) /\ Len(rows) + 1 > j
        BY <1>4
    <2>2. TotalHeight(rows, new) = TotalHeight(rows, old) + grown /\ TotalHeight(rows, old) \in Nat
        BY <1>21, <1>22, <2>1 DEF TotalHeight
    <2>3. QED
        BY <1>2, <1>4, <1>14, <1>20, <1>24, <2>2
<1>29. /\ list' = board' /\ "rows" \notin due' /\ Current(c)' /\ "tick" \in due'
    BY <1>1, <1>2, <1>5, <1>12 DEF Current
<1>30. \A m \in Columns : Fit(measured[m], Cards(m))'
    <2>1. \A m \in Columns : Cards(m)' = Cards(m)
        BY <1>1 DEF Cards
    <2>2. \A m \in Columns : Fit(measured'[m], Cards(m))
        BY <1>5
    <2>3. height' = height
        BY <1>1
    <2>4. QED
        BY <2>1, <2>2, <2>3 DEF Fit, SlotSize
<1>31. painted'[c].rows = PaintOf(c)'.rows
    BY <1>1, <1>2, <1>12, <1>26 DEF PaintOf, rows, old, new
<1>32. /\ Holds(board'[c], measured'[c], k, scroll'[c]) /\ k \in 1..Len(board'[c])
       /\ board'[c][k] = reading'.id
       /\ Offsets(board'[c], measured'[c])[k] - scroll'[c] = reading'.off
       /\ scroll'[c] + tall' <= TotalHeight(board'[c], measured'[c])
    BY <1>1, <1>17, <1>26, <1>27, <1>28 DEF rows, new
<1>33. QED
    BY <1>29, <1>30, <1>31, <1>32 DEF MadeUp, Holds

\* The render that follows paints the rows of the column that are painted.
LEMMA RenderStays ==
    ASSUME WindowInv, attached, NEW c \in Columns, MadeUp(c), Render
    PROVE  MadeUp(c)'
<1> DEFINE kept == [k \in Columns |-> Kept(board[k], measured[k])]
           paint == [k \in Columns |-> Paint(board[k], kept[k], view[k])]
           mounts == [k \in Columns |-> ToSet(paint[k].rows) \ Cards(k)]
<1>1. /\ list' = board /\ painted' = paint
      /\ measured' = [k \in Columns |-> Measure(kept[k], mounts[k])]
      /\ Relayout(paint, height, tall)
      /\ view' = view
      /\ UNCHANGED <<board, height, tall, reading, events>>
    BY DEF Render
<1>2. "rows" \notin due' /\ "tick" \notin due'
    BY DEF Render
<1>3. /\ TypeOK /\ list = board /\ Current(c) /\ height \in [Ids -> Heights] /\ height \in Sizes
      /\ \A k \in Columns : Fit(measured[k], Cards(k))
      /\ scroll[c] + tall <= TotalHeight(board[c], measured[c])
      /\ painted[c].rows = PaintOf(c).rows
      /\ scroll \in [Columns -> Nat] /\ tall \in Nat
    BY StateTyped DEF WindowInv, MadeUp, TypeOK
<1>4. ASSUME NEW k \in Columns
      PROVE  /\ kept[k] = measured[k] /\ measured[k] \in Known /\ measured[k] \in Sizes
             /\ paint[k] = PaintOf(k) /\ paint[k] \in Paints
             /\ Len(paint[k].tops) = Len(paint[k].rows)
             /\ mounts[k] = ToSet(paint[k].rows) \ Cards(k) /\ mounts[k] \in SUBSET Ids
    <2>1. /\ measured[k] \in Known /\ measured[k] \in Sizes /\ Only(measured[k], board[k])
          /\ board[k] \in Seq(Ids) /\ view[k] \in Views
        BY <1>3, StateTyped
    <2>2. kept[k] = Kept(board[k], measured[k])
        OBVIOUS
    <2>3. kept[k] = measured[k]
        <3> HIDE DEF kept
        <3>1. QED
            BY <2>1, <2>2, KeptTyped
    <2>4. paint[k] = PaintOf(k) /\ mounts[k] = ToSet(paint[k].rows) \ Cards(k)
        BY <2>3 DEF PaintOf
    <2> HIDE DEF kept, paint, mounts
    <2>5. /\ PaintOf(k) \in Paints /\ Len(PaintOf(k).tops) = Len(PaintOf(k).rows)
          /\ ToSet(PaintOf(k).rows) \subseteq ToSet(board[k])
        BY <2>1, PaintTyped DEF PaintOf
    <2>6. ToSet(board[k]) \subseteq Ids
        BY <2>1 DEF ToSet
    <2>7. QED
        BY <2>1, <2>3, <2>4, <2>5, <2>6
<1>5. paint \in [Columns -> Paints]
    <2>1. paint = [k \in Columns |-> paint[k]]
        OBVIOUS
    <2> HIDE DEF paint, kept, mounts
    <2>2. QED
        BY <1>4, <2>1
<1> HIDE DEF paint, kept, mounts
<1>6. ASSUME NEW k \in Columns
      PROVE  /\ Fit(measured'[k], mounts[k])
             /\ \A id \in Ids \ mounts[k] : measured'[k][id] = measured[k][id]
             /\ mounts[k] = {} => measured'[k] = measured[k]
    <2>1. measured'[k] = Measure(measured[k], mounts[k])
        BY <1>1, <1>4
    <2>2. mounts[k] = {} => Fit(measured[k], mounts[k])
        BY DEF Fit
    <2>3. QED
        BY <1>3, <1>4, <2>1, <2>2, MeasureTyped
<1>7. \A k \in Columns : Cards(k)' = ToSet(paint[k].rows)
    BY <1>1 DEF Cards, ToSet
<1>8. ASSUME NEW k \in Columns PROVE Fit(measured[k], Cards(k))'
    <2> SUFFICES ASSUME NEW id \in Cards(k)' PROVE SlotSize(measured'[k], id) = height'[id]
        BY DEF Fit
    <2>1. height' = height
        BY <1>1
    <2>2. CASE id \in mounts[k]
        BY <1>6, <2>1, <2>2 DEF Fit
    <2>3. CASE id \notin mounts[k]
        <3>1. id \in Cards(k) /\ Cards(k) \subseteq Ids
            BY <1>3, <1>4, <1>7, <2>3, StateTyped
        <3>2. measured'[k][id] = measured[k][id] /\ SlotSize(measured[k], id) = height[id]
            BY <1>3, <1>6, <2>3, <3>1 DEF Fit
        <3>3. QED
            BY <2>1, <3>2 DEF SlotSize
    <2>4. QED
        BY <2>2, <2>3
<1>9. measured'[c] = measured[c]
    <2>1. mounts[c] = {}
        BY <1>3, <1>4 DEF Cards, ToSet
    <2>2. QED
        BY <1>6, <2>1
<1>10. scroll'[c] = scroll[c]
    <2>1. paint[c].total = TotalHeight(board[c], measured[c]) /\ paint[c].total \in Nat
        <3>1. paint[c].total = TotalHeight(board[c], measured[c])
            <4>1. board[c] \in Seq(Ids) /\ measured[c] \in Sizes /\ view[c] \in Views
                BY <1>3, StateTyped
            <4>2. PaintOf(c).total = TotalHeight(board[c], measured[c])
                BY <4>1, PaintShape DEF PaintOf
            <4>3. QED
                BY <1>4, <4>2
        <3>2. QED
            BY <1>4, <3>1 DEF Paints
    <2>2. paint[c].total <= Reach(paint[c], height) /\ Reach(paint[c], height) \in Nat
        BY <1>3, <1>4, ReachTyped
    <2>3. scroll[c] \in Int /\ 0 <= scroll[c] /\ scroll[c] <= Reach(paint[c], height) - tall
        BY <1>3, <2>1, <2>2
    <2>4. InDocument(scroll[c], paint[c], height, tall) = scroll[c]
        BY <1>3, <1>4, <2>3, InDocumentTyped
    <2>5. QED
        BY <1>1, <2>4 DEF Relayout
<1>11. PaintOf(c)' = PaintOf(c) /\ painted'[c] = PaintOf(c) /\ Current(c)'
    BY <1>1, <1>3, <1>4, <1>9, <1>10 DEF PaintOf, Current
<1>12. PICK n \in 1..Len(board[c]) :
           /\ Holds(board[c], measured[c], n, scroll[c])
           /\ board[c][n] = reading.id
           /\ Offsets(board[c], measured[c])[n] - scroll[c] = reading.off
    BY DEF MadeUp
<1>13. /\ n \in 1..Len(board'[c]) /\ Holds(board'[c], measured'[c], n, scroll'[c])
       /\ board'[c][n] = reading'.id
       /\ Offsets(board'[c], measured'[c])[n] - scroll'[c] = reading'.off
       /\ scroll'[c] + tall' <= TotalHeight(board'[c], measured'[c])
    BY <1>1, <1>3, <1>9, <1>10, <1>12
<1>14. list' = board'
    BY <1>1
<1>15. QED
    BY <1>2, <1>8, <1>11, <1>13, <1>14 DEF MadeUp, Holds

\* Where all cards are as high as noted, measuring moves nothing.
LEMMA MeasureStays ==
    ASSUME WindowInv, attached, NEW c \in Columns, MadeUp(c), Effect \/ Observe
    PROVE  MadeUp(c)'
<1>1. /\ TypeOK /\ Current(c) /\ list = board /\ "rows" \notin due
      /\ \A k \in Columns : Fit(measured[k], Cards(k))
    BY DEF WindowInv, MadeUp
<1>2. UNCHANGED <<board, height, tall, list, painted, attached, reading, events>>
    BY DEF Effect, Observe
<1>3. /\ measured' = measured /\ scroll' = scroll /\ view'[c] = view[c]
      /\ "rows" \notin due' /\ ("tick" \in due => "tick" \in due')
    <2>1. CASE Effect
        <3> DEFINE asks == due \ {"measure"}
        <3>1. MeasureAll(view, asks) /\ view \in [Columns -> [top : Nat, tall : Viewports]]
            BY <1>1, <2>1 DEF Effect, TypeOK
        <3> HIDE DEF asks
        <3>2. measured' = measured /\ scroll' = scroll /\ view' = view /\ due' = asks
            BY <1>1, <3>1, MeasureAllStep
        <3>3. QED
            BY <1>1, <3>2 DEF asks
    <2>2. CASE Observe
        <3> DEFINE asks == (due \ {"observe"}) \cup {"tick"}
                   at == [k \in Columns |-> [top |-> scroll[k], tall |-> tall]]
        <3>1. MeasureAll(at, asks) /\ at \in [Columns -> [top : Nat, tall : Viewports]]
              /\ at[c] = view[c]
            BY <1>1, <2>2 DEF Observe, TypeOK, Current
        <3> HIDE DEF asks, at
        <3>2. measured' = measured /\ scroll' = scroll /\ view' = at /\ due' = asks
            BY <1>1, <3>1, MeasureAllStep
        <3>3. QED
            BY <1>1, <3>1, <3>2 DEF asks
    <2>3. QED
        BY <2>1, <2>2
<1>4. /\ PaintOf(c)' = PaintOf(c) /\ Current(c)' /\ painted' = painted
      /\ \A k \in Columns : Fit(measured[k], Cards(k))'
    <2>1. PaintOf(c)' = PaintOf(c) /\ Current(c)'
        BY <1>1, <1>2, <1>3 DEF PaintOf, Current
    <2>2. \A k \in Columns : Cards(k)' = Cards(k)
        BY <1>2 DEF Cards
    <2>3. \A k \in Columns : Fit(measured[k], Cards(k))'
        BY <1>1, <1>2, <1>3, <2>2 DEF Fit, SlotSize
    <2>4. QED
        BY <1>2, <2>1, <2>3
<1>5. QED
    BY <1>1, <1>2, <1>3, <1>4 DEF MadeUp, Holds

\* A scroll event of the column finds its view as it is; of another, it may only
\* ask for a render.
LEMMA OnScrollStays ==
    ASSUME WindowInv, NEW c \in Columns, MadeUp(c), NEW k \in Columns, OnScroll(k)
    PROVE  MadeUp(c)'
<1>1. /\ view' = [view EXCEPT ![k] = [top |-> scroll[k], tall |-> tall]]
      /\ due \subseteq due' /\ due' \subseteq due \cup {"tick"}
      /\ UNCHANGED <<board, height, tall, scroll, list, measured, painted, attached, reading, events>>
    BY DEF OnScroll
<1>2. /\ TypeOK /\ Current(c) /\ list = board /\ "rows" \notin due
      /\ \A m \in Columns : Fit(measured[m], Cards(m))
      /\ view \in [Columns -> [top : Nat, tall : Viewports]]
    BY DEF WindowInv, MadeUp, TypeOK
<1>3. view'[c] = view[c]
    <2>1. CASE k = c
        BY <1>1, <1>2, <2>1 DEF Current
    <2>2. CASE k # c
        BY <1>1, <1>2, <2>2
    <2>3. QED
        BY <2>1, <2>2
<1>4. PaintOf(c)' = PaintOf(c) /\ Current(c)'
    BY <1>1, <1>2, <1>3 DEF PaintOf, Current
<1>5. \A m \in Columns : Fit(measured[m], Cards(m))'
    <2>1. \A m \in Columns : Cards(m)' = Cards(m)
        BY <1>1 DEF Cards
    <2>2. QED
        BY <1>1, <1>2, <2>1 DEF Fit, SlotSize
<1>6. QED
    BY <1>1, <1>2, <1>4, <1>5 DEF MadeUp, Holds

LEMMA StepStays ==
    ASSUME WindowInv, ReadingSound, [Next]_vars
    PROVE  ReadingSound'
<1>1. ASSUME NEW k \in Columns, NEW top \in 0..Reach(painted[k], height), Scrolls(k, top)
      PROVE  ReadingSound'
    BY <1>1 DEF Scrolls, Moves, ReadingSound
<1>2. ASSUME NEW viewport \in Viewports, Stretches(viewport) PROVE ReadingSound'
    BY <1>2 DEF Stretches, Moves, ReadingSound
<1>3. ASSUME NEW rows \in Boards, Shows(rows) PROVE ReadingSound'
    BY <1>3 DEF Shows, Moves, ReadingSound
<1>4. ASSUME NEW id \in Ids, NEW h \in Heights, Resizes(id, h) PROVE ReadingSound'
    BY <1>4, ResizesNotes
<1>5. ASSUME reading' = reading, attached => attached',
             \A c \in Columns : attached /\ (Noted(c) \/ MadeUp(c)) => Noted(c)' \/ MadeUp(c)'
      PROVE  ReadingSound'
    <2> SUFFICES ASSUME reading # None PROVE ReadingSound'
        BY <1>5 DEF ReadingSound
    <2>1. PICK c \in Columns : reading.column = c
        BY DEF ReadingSound
    <2>2. attached /\ (Noted(c) \/ MadeUp(c))
        BY <2>1 DEF ReadingSound
    <2>3. Noted(c)' \/ MadeUp(c)'
        BY <1>5, <2>2
    <2>4. reading'.column = c /\ attached'
        BY <1>5, <2>1, <2>2
    <2>5. QED
        BY <2>3, <2>4 DEF ReadingSound
<1>6. CASE Render
    <2>1. reading' = reading /\ attached' = TRUE
        BY <1>6 DEF Render
    <2>2. \A c \in Columns : ~Noted(c)
        BY <1>6 DEF Render, Noted
    <2>3. QED
        BY <1>5, <1>6, <2>1, <2>2, RenderStays
<1>7. CASE Effect
    <2>1. reading' = reading /\ attached' = attached
        BY <1>7 DEF Effect
    <2>2. \A c \in Columns : ~Noted(c)
        BY <1>7 DEF Effect, Noted
    <2>3. QED
        BY <1>5, <1>7, <2>1, <2>2, MeasureStays
<1>8. CASE Observe
    <2>1. reading' = reading /\ attached' = attached
        BY <1>8 DEF Observe
    <2>2. QED
        BY <1>5, <1>8, <2>1, MeasureStays, ObserveMakesUp
<1>9. ASSUME NEW k \in Columns, OnScroll(k) PROVE ReadingSound'
    <2>1. reading' = reading /\ attached' = attached
        BY <1>9 DEF OnScroll
    <2>2. \A c \in Columns : ~Noted(c)
        BY <1>9 DEF OnScroll, Noted
    <2>3. QED
        BY <1>5, <1>9, <2>1, <2>2, OnScrollStays
<1>10. CASE UNCHANGED vars
    <2>1. UNCHANGED <<board, height, tall, scroll, list, measured, view, painted, attached, due,
                      scrolled, reading>>
        BY <1>10 DEF vars
    <2>2. \A k \in Columns : /\ Cards(k)' = Cards(k) /\ PaintOf(k)' = PaintOf(k)
                             /\ Current(k)' <=> Current(k)
                             /\ TopRow(k)' = TopRow(k)
        BY <2>1 DEF Cards, PaintOf, Current, TopRow
    <2>3. \A k \in Columns : AtTop(k)' = AtTop(k) /\ Above(k)' = Above(k)
        BY <2>1, <2>2 DEF AtTop, Above
    <2>4. ASSUME NEW c \in Columns PROVE Noted(c) => Noted(c)'
        BY <2>1, <2>2, <2>3 DEF Noted, Fit, SlotSize
    <2>5. ASSUME NEW c \in Columns PROVE MadeUp(c) => MadeUp(c)'
        BY <2>1, <2>2 DEF MadeUp, Holds, Fit, SlotSize
    <2>6. QED
        BY <1>5, <2>1, <2>4, <2>5
<1>11. QED
    BY <1>1, <1>2, <1>3, <1>4, <1>6, <1>7, <1>8, <1>9, <1>10 DEF Next

LEMMA StaysAtRest ==
    ASSUME WindowInv, ReadingSound
    PROVE  ReaderStays
<1> DEFINE c == reading.column
<1> SUFFICES ASSUME AtRest, reading # None
             PROVE  \E n \in DOMAIN painted[c].rows :
                       /\ painted[c].rows[n] = reading.id
                       /\ painted[c].tops[n] - scroll[c] = reading.off
    BY DEF ReaderStays
<1>1. c \in Columns /\ MadeUp(c)
    BY DEF ReadingSound, Noted, AtRest
<1> HIDE DEF c
<1>2. TypeOK /\ Current(c) /\ painted[c] = PaintOf(c)
    BY <1>1 DEF WindowInv, MadeUp, AtRest
<1>3. PICK from \in Nat, size \in Nat : Shown(c, from, size)
    BY <1>1, <1>2, ShownRows
<1>4. PICK k \in 1..Len(board[c]) :
          /\ Holds(board[c], measured[c], k, scroll[c])
          /\ board[c][k] = reading.id
          /\ Offsets(board[c], measured[c])[k] - scroll[c] = reading.off
    BY <1>1 DEF MadeUp
<1>5. k - from \in 1..size
    BY <1>1, <1>2, <1>3, <1>4, TopRowHolds
<1>6. from + (k - from) = k
    BY <1>5
<1>7. /\ k - from \in DOMAIN painted[c].rows
      /\ painted[c].rows[k - from] = board[c][k]
      /\ painted[c].tops[k - from] = Offsets(board[c], measured[c])[k]
    BY <1>3, <1>5, <1>6 DEF Shown
<1>8. QED
    BY <1>4, <1>7

\* The reader who is at a row stays at it when a mounted card above it takes
\* another height while nothing is due (measureAll), as long as the document has
\* room for as much scrolling: whatever renders, measurings and scroll events
\* follow, and whatever the other columns do meanwhile.  A card measured as it is
\* mounted above the reader (the ref of the card) is another matter: that moves
\* the row, and the theorem does not speak of it.
THEOREM ReaderAlwaysStays == Spec => []ReaderStays
<1>1. Init => ReadingSound
    BY DEF Init, ReadingSound
<1>2. QED
    BY <1>1, WindowInvariant, StepStays, StaysAtRest, PTL DEF Spec

=============================================================================
