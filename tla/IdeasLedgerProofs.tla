------------------------- MODULE IdeasLedgerProofs -------------------------
(***************************************************************************)
(* What the verbs of the ledger keep, for every set of ids, every cap and  *)
(* every patch and import payload: the types, the liveness of relation     *)
(* targets, the acyclicity of `blocks` and the freshness of idea numbers,  *)
(* what a triage, a merge and an order do to the ranks, and where a card   *)
(* that is dragged lands (BoardOrder).                                     *)
(***************************************************************************)
EXTENDS BoardOrder, FiniteSetTheorems, SequenceTheorems, WellFoundedInduction, TLAPS

----------------------------------------------------------------------------
(* Numbers.                                                                *)

\* Some number of a set of them is the least.
LEMMA LeastNumber ==
    ASSUME NEW S \in SUBSET Nat, S # {}
    PROVE  \E m \in S : \A k \in S : m <= k
<1> DEFINE less == {pair \in Nat \X Nat : pair[1] < pair[2]}
<1>1. IsWellFoundedOn(less, Nat)
    BY NatLessThanWellFounded DEF OpToRel
<1>2. PICK m \in S : \A k \in S : ~(<<k, m>> \in less)
    <2> HIDE DEF less
    <2>1. S \subseteq Nat
        OBVIOUS
    <2>2. QED
        BY <1>1, <2>1, WFMin
<1>3. \A k \in S : m <= k
    <2> SUFFICES ASSUME NEW k \in S PROVE m <= k
        OBVIOUS
    <2>1. k \in Nat /\ m \in Nat
        OBVIOUS
    <2>2. ~(k < m)
        BY <1>2, <2>1
    <2>3. QED
        BY <2>1, <2>2
<1>4. QED
    BY <1>3

\* It is the one that Min picks.
LEMMA LeastOf ==
    ASSUME NEW S \in SUBSET Nat, S # {}
    PROVE  Min(S) \in S /\ \A k \in S : Min(S) <= k
BY LeastNumber DEF Min

\* A set of numbers that holds 0 and the next of each is that of all numbers.
LEMMA Counting ==
    ASSUME NEW S \in SUBSET Nat, 0 \in S, \A n \in S : n + 1 \in S
    PROVE  S = Nat
<1> DEFINE missing == Nat \ S
<1>1. SUFFICES ASSUME missing # {} PROVE FALSE
    OBVIOUS
<1>2. PICK m \in missing : \A k \in missing : m <= k
    <2>1. missing \in SUBSET Nat
        OBVIOUS
    <2> HIDE DEF missing
    <2>2. QED
        BY <1>1, <2>1, LeastNumber
<1>3. m \in Nat /\ m # 0
    OBVIOUS
<1>4. m - 1 \in Nat /\ ~(m <= m - 1)
    BY <1>3
<1>5. m - 1 \in S
    BY <1>2, <1>4
<1>6. m - 1 + 1 = m
    BY <1>3
<1>7. QED
    BY <1>5, <1>6

\* A set inside a larger one has fewer elements.
LEMMA FewerInside ==
    ASSUME NEW T, IsFiniteSet(T), NEW S \in SUBSET T, NEW x \in T \ S
    PROVE  /\ Cardinality(S) \in Nat /\ Cardinality(T) \in Nat
           /\ Cardinality(S) < Cardinality(T)
<1>1. IsFiniteSet(S) /\ Cardinality(S) <= Cardinality(T) /\ Cardinality(S) # Cardinality(T)
    BY FS_Subset
<1>2. Cardinality(S) \in Nat /\ Cardinality(T) \in Nat
    BY <1>1, FS_CardinalityType
<1>3. QED
    BY <1>1, <1>2

\* A one-to-one numbering of a set by as many numbers uses them all.
LEMMA NumberingIsOnto ==
    ASSUME NEW S, IsFiniteSet(S), NEW f, \A x \in S : f[x] \in 1..Cardinality(S),
           \A x, y \in S : f[x] = f[y] => x = y
    PROVE  {f[x] : x \in S} = 1..Cardinality(S)
<1> DEFINE g == [x \in S |-> f[x]]
           n == Cardinality(S)
<1>1. n \in Nat
    BY FS_CardinalityType
<1>2. g \in Injection(S, 1..n)
    BY DEF Injection, IsInjective
<1>3. IsFiniteSet(1..n) /\ Cardinality(1..n) = n
    BY <1>1, FS_Interval
<1>4. g \in Surjection(S, 1..n)
    <2> HIDE DEF g
    <2>1. QED
        BY <1>2, <1>3, FS_Injection
<1>5. \A t \in 1..n : \E x \in S : f[x] = t
    BY <1>4 DEF Surjection
<1>6. QED
    BY <1>5

----------------------------------------------------------------------------
(* Lists.                                                                  *)

\* A list of a set, each member once.
Listing(list, S) == list \in Seq(S) /\ IsInjective(list) /\ ToSet(list) = S

\* The list shows x before y.
Precedes(list, x, y) == \E m, n \in DOMAIN list : m < n /\ list[m] = x /\ list[n] = y

\* What a list of a set is, index by index.
LEMMA ListingMeans ==
    ASSUME NEW S, NEW list, Listing(list, S)
    PROVE  /\ Len(list) \in Nat /\ DOMAIN list = 1..Len(list)
           /\ \A n \in 1..Len(list) : list[n] \in S
           /\ \A m, n \in 1..Len(list) : list[m] = list[n] => m = n
           /\ \A x \in S : \E n \in 1..Len(list) : list[n] = x
<1>1. list \in Seq(S)
    BY DEF Listing
<1>2. Len(list) \in Nat /\ DOMAIN list = 1..Len(list) /\ \A n \in 1..Len(list) : list[n] \in S
    BY <1>1
<1>3. \A m, n \in 1..Len(list) : list[m] = list[n] => m = n
    BY <1>2 DEF Listing, IsInjective
<1>4. \A x \in S : \E n \in 1..Len(list) : list[n] = x
    BY <1>2 DEF Listing, ToSet
<1>5. QED
    BY <1>2, <1>3, <1>4

\* A list shown to be one of a set, index by index.
LEMMA IsListing ==
    ASSUME NEW S, NEW list, NEW n \in Nat, list \in [1..n -> S],
           \A j, k \in 1..n : list[j] = list[k] => j = k,
           \A x \in S : \E k \in 1..n : list[k] = x
    PROVE  Listing(list, S) /\ Len(list) = n
<1>1. list \in Seq(S) /\ DOMAIN list = 1..n /\ Len(list) = n
    OBVIOUS
<1>2. IsInjective(list)
    BY <1>1 DEF IsInjective
<1>3. ToSet(list) = S
    BY <1>1 DEF ToSet
<1>4. QED
    BY <1>1, <1>2, <1>3 DEF Listing

\* A set in a strict total order is listed in that order.
LEMMA SortedList ==
    ASSUME NEW S, IsFiniteSet(S), NEW before \in [S -> SUBSET S],
           \A x \in S : x \notin before[x],
           \A x, y \in S : x = y \/ x \in before[y] \/ y \in before[x],
           \A x, y \in S : x \in before[y] => before[x] \subseteq before[y]
    PROVE  /\ Listing(Sorted(before), S)
           /\ \A x, y \in S : x \in before[y] <=> Precedes(Sorted(before), x, y)
<1> DEFINE size == Cardinality(S)
           count == [x \in S |-> Cardinality(before[x])]
           list == Sorted(before)
<1>1. size \in Nat
    BY FS_CardinalityType
<1>2. \A x \in S : IsFiniteSet(before[x]) /\ count[x] \in 0..(size - 1)
    <2> SUFFICES ASSUME NEW x \in S PROVE IsFiniteSet(before[x]) /\ count[x] \in 0..(size - 1)
        OBVIOUS
    <2>1. before[x] \in SUBSET S /\ x \in S \ before[x]
        OBVIOUS
    <2>2. IsFiniteSet(before[x])
        BY <2>1, FS_Subset
    <2>3. Cardinality(before[x]) \in Nat /\ Cardinality(before[x]) < Cardinality(S)
        BY <2>1, FewerInside
    <2>4. QED
        BY <1>1, <2>2, <2>3
<1>3. \A x, y \in S : x \in before[y] => count[x] < count[y]
    <2> SUFFICES ASSUME NEW x \in S, NEW y \in S, x \in before[y] PROVE count[x] < count[y]
        OBVIOUS
    <2>1. before[x] \in SUBSET before[y] /\ x \in before[y] \ before[x] /\ IsFiniteSet(before[y])
        BY <1>2
    <2>2. Cardinality(before[x]) < Cardinality(before[y])
        BY <2>1, FewerInside
    <2>3. QED
        BY <2>2
<1>4. \A x, y \in S : count[x] = count[y] => x = y
    <2>1. \A x \in S : count[x] \in Int
        BY <1>1, <1>2
    <2> HIDE DEF count
    <2>2. QED
        BY <1>3, <2>1
<1> DEFINE f == [x \in S |-> count[x] + 1]
<1>5. {f[x] : x \in S} = 1..size
    <2>1. \A x \in S : f[x] \in 1..size
        <3> HIDE DEF count, size
        <3>1. QED
            BY <1>1, <1>2
    <2>2. \A x, y \in S : f[x] = f[y] => x = y
        <3>1. \A x \in S : count[x] \in Int
            BY <1>1, <1>2
        <3> HIDE DEF count
        <3>2. QED
            BY <1>4, <3>1
    <2> HIDE DEF f
    <2>3. QED
        BY <2>1, <2>2, NumberingIsOnto
<1>6. \A k \in 1..size : \E x \in S : count[x] = k - 1
    <2> SUFFICES ASSUME NEW k \in 1..size PROVE \E x \in S : count[x] = k - 1
        OBVIOUS
    <2>1. k \in {f[x] : x \in S}
        BY <1>5
    <2>2. PICK x \in S : f[x] = k
        BY <2>1
    <2>3. count[x] \in Int
        BY <1>1, <1>2
    <2> HIDE DEF count, size
    <2>4. QED
        BY <2>2, <2>3
<1>7. DOMAIN before = S
    OBVIOUS
<1>8. list = [n \in 1..size |-> CHOOSE x \in S : Cardinality(before[x]) = n - 1]
    BY <1>7 DEF Sorted
<1>9. \A n \in 1..size : list[n] \in S /\ count[list[n]] = n - 1
    <2> SUFFICES ASSUME NEW n \in 1..size PROVE list[n] \in S /\ count[list[n]] = n - 1
        OBVIOUS
    <2>1. \E x \in S : Cardinality(before[x]) = n - 1
        BY <1>6
    <2>2. list[n] = CHOOSE x \in S : Cardinality(before[x]) = n - 1
        BY <1>8
    <2> HIDE DEF list
    <2>3. list[n] \in S /\ Cardinality(before[list[n]]) = n - 1
        BY <2>1, <2>2
    <2>4. QED
        BY <2>3
<1>10. list \in [1..size -> S]
    <2>1. DOMAIN list = 1..size
        BY <1>8
    <2>2. list = [n \in 1..size |-> list[n]]
        BY <1>8
    <2> HIDE DEF list
    <2>3. QED
        BY <1>9, <2>2
<1> HIDE DEF list, count, size
<1>11. \A x \in S : count[x] + 1 \in 1..size /\ list[count[x] + 1] = x
    <2> SUFFICES ASSUME NEW x \in S PROVE count[x] + 1 \in 1..size /\ list[count[x] + 1] = x
        OBVIOUS
    <2>1. count[x] + 1 \in 1..size /\ count[x] \in Int
        BY <1>1, <1>2
    <2>2. list[count[x] + 1] \in S /\ count[list[count[x] + 1]] = count[x]
        BY <1>9, <2>1
    <2>3. QED
        BY <1>4, <2>1, <2>2
<1>12. \A m, n \in 1..size : list[m] = list[n] => m = n
    BY <1>1, <1>9
<1>13. Listing(list, S) /\ Len(list) = size
    BY <1>1, <1>10, <1>11, <1>12, IsListing
<1>14. ASSUME NEW x \in S, NEW y \in S, x \in before[y]
       PROVE  Precedes(list, x, y)
    <2>1. count[x] < count[y] /\ count[x] \in Int /\ count[y] \in Int
        BY <1>1, <1>2, <1>3, <1>14
    <2>2. DOMAIN list = 1..size
        BY <1>10
    <2>3. count[x] + 1 < count[y] + 1
        BY <2>1
    <2>4. QED
        BY <1>11, <2>2, <2>3 DEF Precedes
<1>15. ASSUME NEW x \in S, NEW y \in S, Precedes(list, x, y)
       PROVE  x \in before[y]
    <2>1. PICK m \in 1..size, n \in 1..size : m < n /\ list[m] = x /\ list[n] = y
        BY <1>10, <1>15 DEF Precedes
    <2>2. count[x] = m - 1 /\ count[y] = n - 1
        BY <1>9, <2>1
    <2>3. ~(count[y] <= count[x])
        BY <2>1, <2>2
    <2>4. x # y /\ y \notin before[x]
        BY <1>1, <1>2, <1>3, <2>3
    <2>5. QED
        BY <2>4
<1>16. QED
    BY <1>13, <1>14, <1>15 DEF list

\* A filter keeps a list in its order.
LEMMA WithinList ==
    ASSUME NEW T, NEW list, Listing(list, T), NEW S
    PROVE  /\ Listing(Within(list, S), T \cap S)
           /\ \A x, y \in T \cap S : Precedes(list, x, y) => Precedes(Within(list, S), x, y)
<1> DEFINE hits == {n \in DOMAIN list : list[n] \in S}
           before == [n \in hits |-> {m \in hits : m < n}]
           kept == Sorted(before)
           new == Within(list, S)
<1>1. /\ Len(list) \in Nat /\ DOMAIN list = 1..Len(list)
      /\ \A n \in 1..Len(list) : list[n] \in T
      /\ \A m, n \in 1..Len(list) : list[m] = list[n] => m = n
      /\ \A x \in T : \E n \in 1..Len(list) : list[n] = x
    BY ListingMeans
<1>2. /\ IsFiniteSet(hits)
      /\ \A n \in hits : n \in Int /\ n \in 1..Len(list)
    <2>1. hits \in SUBSET (1..Len(list)) /\ \A n \in hits : n \in 1..Len(list)
        BY <1>1
    <2>2. 0 \in Int /\ Len(list) \in Int
        BY <1>1
    <2>3. IsFiniteSet(1..Len(list))
        BY <2>2, FS_Interval
    <2> HIDE DEF hits
    <2>4. IsFiniteSet(hits)
        BY <2>1, <2>3, FS_Subset
    <2>5. QED
        BY <2>1, <2>4
<1>3. \A n \in hits : list[n] \in T \cap S
    BY <1>1
<1>4. \A x \in T \cap S : \E n \in hits : list[n] = x
    BY <1>1
<1>5. new = [n \in DOMAIN kept |-> list[kept[n]]]
    BY DEF Within
<1> HIDE DEF hits, new
<1>6. /\ before \in [hits -> SUBSET hits]
      /\ \A n \in hits : n \notin before[n]
      /\ \A m, n \in hits : m = n \/ m \in before[n] \/ n \in before[m]
      /\ \A m, n \in hits : m \in before[n] => before[m] \subseteq before[n]
    <2>1. before \in [hits -> SUBSET hits]
        OBVIOUS
    <2>2. \A m, n \in hits : m \in before[n] <=> m < n
        OBVIOUS
    <2> HIDE DEF before
    <2>3. \A n \in hits : n \notin before[n]
        BY <1>2, <2>2
    <2>4. \A m, n \in hits : m = n \/ m \in before[n] \/ n \in before[m]
        BY <1>2, <2>2
    <2>5. ASSUME NEW m \in hits, NEW n \in hits, m \in before[n]
          PROVE  before[m] \subseteq before[n]
        <3> SUFFICES ASSUME NEW k \in before[m] PROVE k \in before[n]
            OBVIOUS
        <3>1. k \in hits
            BY <2>1
        <3>2. k < m /\ m < n /\ k \in Int /\ m \in Int /\ n \in Int
            BY <1>2, <2>2, <2>5, <3>1
        <3>3. k < n
            BY <3>2
        <3>4. QED
            BY <2>2, <3>1, <3>3
    <2>6. QED
        BY <2>1, <2>3, <2>4, <2>5
<1>7. \A m, n \in hits : m < n => m \in before[n]
    OBVIOUS
<1> HIDE DEF before
<1>8. Listing(kept, hits) /\ \A m, n \in hits : m \in before[n] => Precedes(kept, m, n)
    BY <1>2, <1>6, SortedList
<1> DEFINE size == Len(kept)
<1> HIDE DEF kept
<1>9. /\ size \in Nat /\ DOMAIN kept = 1..size
      /\ \A n \in 1..size : kept[n] \in hits
      /\ \A m, n \in 1..size : kept[m] = kept[n] => m = n
      /\ \A x \in hits : \E n \in 1..size : kept[n] = x
    BY <1>8, ListingMeans
<1> HIDE DEF size
<1>10. new \in [1..size -> T \cap S] /\ \A n \in 1..size : new[n] = list[kept[n]]
    BY <1>3, <1>5, <1>9
<1>11. \A m, n \in 1..size : new[m] = new[n] => m = n
    <2> SUFFICES ASSUME NEW m \in 1..size, NEW n \in 1..size, new[m] = new[n] PROVE m = n
        OBVIOUS
    <2>1. list[kept[m]] = list[kept[n]] /\ kept[m] \in 1..Len(list) /\ kept[n] \in 1..Len(list)
        BY <1>2, <1>9, <1>10
    <2>2. kept[m] = kept[n]
        BY <1>1, <2>1
    <2>3. QED
        BY <1>9, <2>2
<1>12. \A x \in T \cap S : \E n \in 1..size : new[n] = x
    <2> SUFFICES ASSUME NEW x \in T \cap S PROVE \E n \in 1..size : new[n] = x
        OBVIOUS
    <2>1. PICK k \in hits : list[k] = x
        BY <1>4
    <2>2. PICK n \in 1..size : kept[n] = k
        BY <1>9
    <2>3. QED
        BY <1>10, <2>1, <2>2
<1>13. Listing(new, T \cap S)
    BY <1>9, <1>10, <1>11, <1>12, IsListing
<1>14. ASSUME NEW x \in T \cap S, NEW y \in T \cap S, Precedes(list, x, y)
       PROVE  Precedes(new, x, y)
    <2>1. PICK m \in DOMAIN list, n \in DOMAIN list : m < n /\ list[m] = x /\ list[n] = y
        BY <1>14 DEF Precedes
    <2>2. m \in hits /\ n \in hits
        BY <2>1 DEF hits
    <2>3. Precedes(kept, m, n)
        BY <1>7, <1>8, <2>1, <2>2
    <2>4. PICK j \in 1..size, k \in 1..size : j < k /\ kept[j] = m /\ kept[k] = n
        BY <1>9, <2>3 DEF Precedes
    <2>5. new[j] = x /\ new[k] = y /\ DOMAIN new = 1..size
        BY <1>10, <2>1, <2>4
    <2>6. QED
        BY <2>4, <2>5 DEF Precedes
<1>15. QED
    BY <1>13, <1>14 DEF new

\* Where a member of a list is.
LEMMA AtIndex ==
    ASSUME NEW S, NEW list, Listing(list, S), NEW n \in 1..Len(list)
    PROVE  At(list, list[n]) = n
<1> DEFINE hits == {k \in 1..Len(list) : list[k] = list[n]}
<1>1. Len(list) \in Nat /\ \A j, k \in 1..Len(list) : list[j] = list[k] => j = k
    BY ListingMeans
<1>2. hits = {n}
    BY <1>1
<1>3. Min({n}) = n
    <2>1. {n} \in SUBSET Nat /\ {n} # {}
        BY <1>1
    <2>2. QED
        BY <2>1, LeastOf
<1>4. At(list, list[n]) = IF hits # {} THEN Min(hits) ELSE 0
    BY DEF At, SelectInSeq
<1>5. QED
    BY <1>2, <1>3, <1>4

\* At finds the members of a list.
LEMMA AtOf ==
    ASSUME NEW S, NEW list, Listing(list, S), NEW x \in S
    PROVE  At(list, x) \in 1..Len(list) /\ list[At(list, x)] = x
<1>1. PICK n \in 1..Len(list) : list[n] = x
    BY ListingMeans
<1>2. At(list, x) = n
    BY <1>1, AtIndex
<1>3. QED
    BY <1>1, <1>2

\* At finds nothing else.
LEMMA AtNone ==
    ASSUME NEW S, NEW list, Listing(list, S), NEW x, x \notin S
    PROVE  At(list, x) = 0
<1>1. \A n \in 1..Len(list) : list[n] # x
    BY ListingMeans
<1>2. {k \in 1..Len(list) : list[k] = x} = {}
    BY <1>1
<1>3. QED
    BY <1>2 DEF At, SelectInSeq

\* The order of a list is that of the places of its members.
LEMMA PrecedesIsAt ==
    ASSUME NEW S, NEW list, Listing(list, S), NEW x \in S, NEW y \in S
    PROVE  Precedes(list, x, y) <=> At(list, x) < At(list, y)
<1>1. DOMAIN list = 1..Len(list)
    BY ListingMeans
<1>2. ASSUME Precedes(list, x, y)
      PROVE  At(list, x) < At(list, y)
    <2>1. PICK m \in 1..Len(list), n \in 1..Len(list) : m < n /\ list[m] = x /\ list[n] = y
        BY <1>1, <1>2 DEF Precedes
    <2>2. At(list, x) = m /\ At(list, y) = n
        BY <2>1, AtIndex
    <2>3. QED
        BY <2>1, <2>2
<1>3. ASSUME At(list, x) < At(list, y)
      PROVE  Precedes(list, x, y)
    <2>1. /\ At(list, x) \in 1..Len(list) /\ list[At(list, x)] = x
          /\ At(list, y) \in 1..Len(list) /\ list[At(list, y)] = y
        BY AtOf
    <2>2. QED
        BY <1>1, <1>3, <2>1 DEF Precedes
<1>4. QED
    BY <1>2, <1>3

\* Of two members of a list, one precedes the other.
LEMMA PrecedesIsTotal ==
    ASSUME NEW S, NEW list, Listing(list, S), NEW x \in S, NEW y \in S, x # y
    PROVE  \/ Precedes(list, x, y) /\ ~Precedes(list, y, x)
           \/ Precedes(list, y, x) /\ ~Precedes(list, x, y)
<1>1. /\ Len(list) \in Nat
      /\ At(list, x) \in 1..Len(list) /\ list[At(list, x)] = x
      /\ At(list, y) \in 1..Len(list) /\ list[At(list, y)] = y
    BY AtOf, ListingMeans
<1>2. At(list, x) # At(list, y)
    BY <1>1
<1>3. /\ Precedes(list, x, y) <=> At(list, x) < At(list, y)
      /\ Precedes(list, y, x) <=> At(list, y) < At(list, x)
    BY PrecedesIsAt
<1>4. QED
    BY <1>1, <1>2, <1>3

\* Two lists of nothing in common make a list of both.
LEMMA ConcatList ==
    ASSUME NEW S, NEW a, Listing(a, S), NEW T, NEW b, Listing(b, T), S \cap T = {}
    PROVE  /\ Listing(a \o b, S \cup T)
           /\ \A x, y : Precedes(a, x, y) => Precedes(a \o b, x, y)
           /\ \A x, y : Precedes(b, x, y) => Precedes(a \o b, x, y)
           /\ \A x \in S, y \in T : Precedes(a \o b, x, y)
<1> DEFINE U == S \cup T
           m == Len(a)
           n == Len(b)
           c == a \o b
<1>1. /\ m \in Nat /\ DOMAIN a = 1..m
      /\ \A k \in 1..m : a[k] \in S
      /\ \A j, k \in 1..m : a[j] = a[k] => j = k
      /\ \A x \in S : \E k \in 1..m : a[k] = x
    BY ListingMeans
<1>2. /\ n \in Nat /\ DOMAIN b = 1..n
      /\ \A k \in 1..n : b[k] \in T
      /\ \A j, k \in 1..n : b[j] = b[k] => j = k
      /\ \A x \in T : \E k \in 1..n : b[k] = x
    BY ListingMeans
<1>3. a \in Seq(U) /\ b \in Seq(U)
    BY <1>1, <1>2 DEF Listing
<1>4. /\ c \in Seq(U) /\ Len(c) = m + n
      /\ \A k \in 1..(m + n) : c[k] = IF k <= m THEN a[k] ELSE b[k - m]
    BY <1>3, ConcatProperties
<1>5. DOMAIN c = 1..(m + n) /\ c \in [1..(m + n) -> U]
    <2> HIDE DEF c
    <2>1. QED
        BY <1>1, <1>2, <1>4
<1> HIDE DEF m, n, c, U
<1>6. \A k \in 1..m : k \in 1..(m + n) /\ c[k] = a[k]
    BY <1>1, <1>2, <1>4
<1>7. \A k \in 1..n : k + m \in 1..(m + n) /\ c[k + m] = b[k]
    <2> SUFFICES ASSUME NEW k \in 1..n PROVE k + m \in 1..(m + n) /\ c[k + m] = b[k]
        OBVIOUS
    <2> DEFINE j == k + m
    <2>1. j \in 1..(m + n) /\ ~(j <= m) /\ j - m = k
        BY <1>1, <1>2
    <2> HIDE DEF j
    <2>2. c[j] = b[k]
        BY <1>4, <2>1
    <2>3. QED
        BY <2>1, <2>2 DEF j
<1>8. \A j, k \in 1..(m + n) : c[j] = c[k] => j = k
    <2> SUFFICES ASSUME NEW j \in 1..(m + n), NEW k \in 1..(m + n), c[j] = c[k] PROVE j = k
        OBVIOUS
    <2>1. \A i \in 1..(m + n) : i <= m => i \in 1..m
        BY <1>1, <1>2
    <2>2. \A i \in 1..(m + n) : ~(i <= m) => i - m \in 1..n
        BY <1>1, <1>2
    <2>3. CASE j <= m /\ k <= m
        BY <1>1, <1>4, <2>1, <2>3
    <2>4. CASE ~(j <= m) /\ ~(k <= m)
        <3>1. b[j - m] = b[k - m] /\ j - m \in 1..n /\ k - m \in 1..n
            BY <1>4, <2>2, <2>4
        <3>2. j - m = k - m
            BY <1>2, <3>1
        <3>3. QED
            BY <1>1, <1>2, <3>2
    <2>5. CASE j <= m /\ ~(k <= m)
        <3>1. c[j] \in S /\ c[k] \in T
            BY <1>1, <1>2, <1>4, <2>1, <2>2, <2>5
        <3>2. QED
            BY <3>1
    <2>6. CASE ~(j <= m) /\ k <= m
        <3>1. c[j] \in T /\ c[k] \in S
            BY <1>1, <1>2, <1>4, <2>1, <2>2, <2>6
        <3>2. QED
            BY <3>1
    <2>7. QED
        BY <2>3, <2>4, <2>5, <2>6
<1>9. \A x \in U : \E k \in 1..(m + n) : c[k] = x
    <2>1. ASSUME NEW x \in S PROVE \E k \in 1..(m + n) : c[k] = x
        BY <1>1, <1>6
    <2>2. ASSUME NEW x \in T PROVE \E k \in 1..(m + n) : c[k] = x
        <3>1. PICK k \in 1..n : b[k] = x
            BY <1>2
        <3>2. QED
            BY <1>7, <3>1
    <2>3. QED
        BY <2>1, <2>2 DEF U
<1>10. Listing(c, U)
    <2>1. m + n \in Nat
        BY <1>1, <1>2
    <2>2. QED
        BY <1>5, <1>8, <1>9, <2>1, IsListing
<1>11. ASSUME NEW x, NEW y, Precedes(a, x, y)
       PROVE  Precedes(c, x, y)
    <2>1. PICK j \in 1..m, k \in 1..m : j < k /\ a[j] = x /\ a[k] = y
        BY <1>1, <1>11 DEF Precedes
    <2>2. QED
        BY <1>5, <1>6, <2>1 DEF Precedes
<1>12. ASSUME NEW x, NEW y, Precedes(b, x, y)
       PROVE  Precedes(c, x, y)
    <2>1. PICK j \in 1..n, k \in 1..n : j < k /\ b[j] = x /\ b[k] = y
        BY <1>2, <1>12 DEF Precedes
    <2>2. j + m < k + m
        BY <1>1, <1>2, <2>1
    <2>3. QED
        BY <1>5, <1>7, <2>1, <2>2 DEF Precedes
<1>13. ASSUME NEW x \in S, NEW y \in T
       PROVE  Precedes(c, x, y)
    <2>1. PICK j \in 1..m : a[j] = x
        BY <1>1
    <2>2. PICK k \in 1..n : b[k] = y
        BY <1>2
    <2>3. j < k + m
        BY <1>1, <1>2
    <2>4. QED
        BY <1>5, <1>6, <1>7, <2>1, <2>2, <2>3 DEF Precedes
<1>14. QED
    BY <1>10, <1>11, <1>12, <1>13 DEF c, U

\* A list of one.
LEMMA OneList ==
    ASSUME NEW x
    PROVE  Listing(<<x>>, {x})
<1>1. <<x>> \in [1..1 -> {x}]
    OBVIOUS
<1>2. \A j, k \in 1..1 : j = k
    OBVIOUS
<1>3. 1 \in 1..1 /\ <<x>>[1] = x
    OBVIOUS
<1>4. QED
    BY <1>1, <1>2, <1>3, IsListing

\* The first rows of a list, and those that are left.
LEMMA CutList ==
    ASSUME NEW S, NEW list, Listing(list, S), NEW n \in 0..Len(list)
    PROVE  \E early, late :
               /\ early = {list[k] : k \in 1..n}
               /\ Listing(SubSeq(list, 1, n), early)
               /\ Listing(SubSeq(list, n + 1, Len(list)), late)
               /\ early \cap late = {} /\ early \cup late = S
               /\ \A x, y \in early : Precedes(list, x, y) => Precedes(SubSeq(list, 1, n), x, y)
               /\ \A x, y \in late : Precedes(list, x, y)
                     => Precedes(SubSeq(list, n + 1, Len(list)), x, y)
               /\ \A x \in late, y \in early : ~Precedes(list, x, y)
<1> DEFINE m == Len(list)
           early == {list[k] : k \in 1..n}
           late == {list[k] : k \in (n + 1)..m}
           front == SubSeq(list, 1, n)
           back == SubSeq(list, n + 1, m)
<1>0. early = {list[k] : k \in 1..n}
    OBVIOUS
<1>1. /\ m \in Nat /\ DOMAIN list = 1..m
      /\ \A k \in 1..m : list[k] \in S
      /\ \A j, k \in 1..m : list[j] = list[k] => j = k
      /\ \A x \in S : \E k \in 1..m : list[k] = x
    BY ListingMeans
<1>2. n \in Nat /\ n <= m
    BY <1>1
<1>3. 1..n \subseteq 1..m /\ (n + 1)..m \subseteq 1..m
    BY <1>1, <1>2
<1>4. front \in [1..n -> early] /\ \A k \in 1..n : front[k] = list[k]
    <2>1. /\ front \in Seq(early) /\ Len(front) = IF 1 <= n THEN n - 1 + 1 ELSE 0
          /\ \A k \in 1..(n - 1 + 1) : front[k] = list[1 + k - 1]
        BY <1>2, SubSeqProperties
    <2>2. Len(front) = n /\ n - 1 + 1 = n /\ \A k \in 1..n : 1 + k - 1 = k
        BY <1>2, <2>1
    <2> HIDE DEF front
    <2>3. \A k \in 1..n : front[k] = list[k]
        BY <2>1, <2>2
    <2> HIDE DEF early
    <2>4. QED
        BY <2>1, <2>2, <2>3
<1>5. /\ back \in [1..(m - n) -> late]
      /\ \A k \in 1..(m - n) : back[k] = list[k + n]
    <2>1. /\ back \in Seq(late)
          /\ Len(back) = IF n + 1 <= m THEN m - (n + 1) + 1 ELSE 0
          /\ \A k \in 1..(m - (n + 1) + 1) : back[k] = list[(n + 1) + k - 1]
        BY <1>1, <1>2, SubSeqProperties
    <2>2. /\ m - (n + 1) + 1 = m - n
          /\ \A k \in 1..(m - n) : (n + 1) + k - 1 = k + n
        BY <1>1, <1>2
    <2>4. Len(back) = m - n
        <3> HIDE DEF m, back
        <3>1. CASE n + 1 <= m
            BY <1>1, <1>2, <2>1, <2>2, <3>1
        <3>2. CASE ~(n + 1 <= m)
            <4>1. m = n
                BY <1>1, <1>2, <3>2
            <4>2. QED
                BY <1>1, <1>2, <2>1, <3>2, <4>1
        <3>3. QED
            BY <3>1, <3>2
    <2> HIDE DEF back
    <2>3. \A k \in 1..(m - n) : back[k] = list[k + n]
        BY <2>1, <2>2
    <2> HIDE DEF late, m
    <2>5. back \in [1..Len(back) -> late]
        BY <2>1
    <2>6. QED
        BY <2>3, <2>4, <2>5
<1> HIDE DEF front, back, m
<1>6. Listing(front, early)
    <2>1. \A j, k \in 1..n : front[j] = front[k] => j = k
        BY <1>1, <1>3, <1>4
    <2>2. \A x \in early : \E k \in 1..n : front[k] = x
        BY <1>4
    <2> HIDE DEF early
    <2>3. QED
        BY <1>2, <1>4, <2>1, <2>2, IsListing
<1>7. \A k \in 1..(m - n) : k + n \in (n + 1)..m /\ k + n \in 1..m
    BY <1>1, <1>2
<1>8. \A k \in (n + 1)..m : k - n \in 1..(m - n) /\ k - n + n = k
    BY <1>1, <1>2
<1>9. Listing(back, late)
    <2>1. \A j, k \in 1..(m - n) : back[j] = back[k] => j = k
        <3> SUFFICES ASSUME NEW j \in 1..(m - n), NEW k \in 1..(m - n), back[j] = back[k]
                     PROVE  j = k
            OBVIOUS
        <3>1. j + n = k + n
            BY <1>1, <1>5, <1>7
        <3>2. QED
            BY <1>1, <1>2, <3>1
    <2>2. \A x \in late : \E k \in 1..(m - n) : back[k] = x
        <3> SUFFICES ASSUME NEW i \in (n + 1)..m PROVE \E k \in 1..(m - n) : back[k] = list[i]
            OBVIOUS
        <3>1. i - n \in 1..(m - n) /\ back[i - n] = list[i]
            BY <1>5, <1>8
        <3>2. QED
            BY <3>1
    <2>3. m - n \in Nat
        BY <1>1, <1>2
    <2> HIDE DEF late
    <2>4. QED
        BY <1>5, <2>1, <2>2, <2>3, IsListing
<1>10. \A x \in early : \E k \in 1..n : list[k] = x
    OBVIOUS
<1>11. \A x \in late : \E k \in (n + 1)..m : list[k] = x
    OBVIOUS
<1>12. early \cap late = {} /\ early \cup late = S
    <2>1. \A j \in 1..n, k \in (n + 1)..m : list[j] # list[k]
        BY <1>1, <1>2, <1>3
    <2>2. early \cap late = {}
        BY <2>1
    <2>3. \A k \in 1..m : k \in 1..n \/ k \in (n + 1)..m
        BY <1>1, <1>2
    <2>4. QED
        BY <1>1, <1>3, <2>2, <2>3
<1> HIDE DEF early, late
<1>13. ASSUME NEW x \in early, NEW y \in early, Precedes(list, x, y)
       PROVE  Precedes(front, x, y)
    <2>1. PICK i \in 1..m, k \in 1..m : i < k /\ list[i] = x /\ list[k] = y
        BY <1>1, <1>13 DEF Precedes
    <2>2. i \in 1..n /\ k \in 1..n
        BY <1>1, <1>3, <1>10, <2>1
    <2>3. front[i] = x /\ front[k] = y /\ DOMAIN front = 1..n
        BY <1>4, <2>1, <2>2
    <2>4. QED
        BY <2>1, <2>2, <2>3 DEF Precedes
<1>14. ASSUME NEW x \in late, NEW y \in late, Precedes(list, x, y)
       PROVE  Precedes(back, x, y)
    <2>1. PICK i \in 1..m, k \in 1..m : i < k /\ list[i] = x /\ list[k] = y
        BY <1>1, <1>14 DEF Precedes
    <2>2. i \in (n + 1)..m /\ k \in (n + 1)..m
        BY <1>1, <1>3, <1>11, <2>1
    <2>3. i - n \in 1..(m - n) /\ k - n \in 1..(m - n) /\ i - n < k - n
        BY <1>2, <1>8, <2>1, <2>2
    <2>4. back[i - n] = x /\ back[k - n] = y /\ DOMAIN back = 1..(m - n)
        BY <1>5, <1>8, <2>1, <2>2, <2>3
    <2>5. QED
        BY <2>3, <2>4 DEF Precedes
<1>15. ASSUME NEW x \in late, NEW y \in early, Precedes(list, x, y)
       PROVE  FALSE
    <2>1. PICK i \in 1..m, k \in 1..m : i < k /\ list[i] = x /\ list[k] = y
        BY <1>1, <1>15 DEF Precedes
    <2>2. i \in (n + 1)..m /\ k \in 1..n
        BY <1>1, <1>3, <1>10, <1>11, <2>1
    <2>3. QED
        BY <1>1, <1>2, <2>1, <2>2
<1>16. QED
    BY <1>0, <1>6, <1>9, <1>12, <1>13, <1>14, <1>15 DEF front, back, m

\* A card put into a list leaves the others in their order.
LEMMA InsertedList ==
    ASSUME NEW S, NEW list, Listing(list, S), NEW x, x \notin S, NEW at \in 0..Len(list)
    PROVE  LET new == Inserted(list, at, x)
           IN  /\ Listing(new, S \cup {x})
               /\ \A y, z \in S : Precedes(list, y, z) => Precedes(new, y, z)
               /\ \A y \in S : at = 0 \/ At(list, y) < at => Precedes(new, y, x)
               /\ \A y \in S : at # 0 /\ ~(At(list, y) < at) => Precedes(new, x, y)
<1> DEFINE new == Inserted(list, at, x)
<1>1. /\ Len(list) \in Nat
      /\ \A k \in 1..Len(list) : list[k] \in S
      /\ \A j, k \in 1..Len(list) : list[j] = list[k] => j = k
    BY ListingMeans
<1>2. Listing(<<x>>, {x})
    BY OneList
<1>3. CASE at = 0
    <2>1. new = list \o <<x>>
        <3>1. list \in Seq(S \cup {x})
            BY <1>1 DEF Listing
        <3>2. Append(list, x) = list \o <<x>>
            BY <3>1, AppendIsConcat
        <3>3. QED
            BY <1>3, <3>2 DEF Inserted
    <2>2. /\ Listing(list \o <<x>>, S \cup {x})
          /\ \A y, z : Precedes(list, y, z) => Precedes(list \o <<x>>, y, z)
          /\ \A y \in S, z \in {x} : Precedes(list \o <<x>>, y, z)
        BY <1>2, ConcatList
    <2> HIDE DEF new
    <2>3. QED
        BY <1>3, <2>1, <2>2 DEF new
<1>4. CASE at # 0
    <2>0. PICK n \in 0..Len(list) : n + 1 = at
        <3>1. at - 1 \in 0..Len(list) /\ at - 1 + 1 = at
            BY <1>1, <1>4
        <3>2. QED
            BY <3>1
    <2> DEFINE front == SubSeq(list, 1, n)
               back == SubSeq(list, n + 1, Len(list))
               begun == front \o <<x>>
    <2>3. PICK early, late :
          /\ early = {list[k] : k \in 1..n}
          /\ Listing(front, early) /\ Listing(back, late)
          /\ early \cap late = {} /\ early \cup late = S
          /\ \A y, z \in early : Precedes(list, y, z) => Precedes(front, y, z)
          /\ \A y, z \in late : Precedes(list, y, z) => Precedes(back, y, z)
          /\ \A y \in late, z \in early : ~Precedes(list, y, z)
        BY CutList
    <2>1. n \in 0..Len(list) /\ n + 1 = at /\ at \in Int
        BY <1>1, <2>0
    <2>2. new = begun \o back
        <3>1. at - 1 = n
            BY <2>1
        <3>2. QED
            BY <1>4, <2>1, <3>1 DEF Inserted, InsertAt
    <2>4. \A y \in S : y \in early <=> At(list, y) < at
        <3> SUFFICES ASSUME NEW y \in S PROVE y \in early <=> At(list, y) < at
            OBVIOUS
        <3>1. At(list, y) \in 1..Len(list) /\ list[At(list, y)] = y
            BY AtOf
        <3> DEFINE p == At(list, y)
        <3> HIDE DEF p
        <3>2. p \in 1..Len(list) /\ list[p] = y
            BY <3>1 DEF p
        <3>3. ASSUME p < at PROVE y \in early
            <4>1. p \in 1..n
                BY <1>1, <2>1, <3>2, <3>3
            <4>2. QED
                BY <2>3, <3>2, <4>1
        <3>4. ASSUME y \in early PROVE p < at
            <4>1. PICK k \in 1..n : list[k] = y
                BY <2>3, <3>4
            <4>2. k \in 1..Len(list)
                BY <1>1, <2>1
            <4>3. p = k
                BY <1>1, <3>2, <4>1, <4>2
            <4>4. QED
                BY <1>1, <2>1, <4>1, <4>3
        <3>5. QED
            BY <3>3, <3>4 DEF p
    <2> HIDE DEF front, back
    <2>5. early \cap {x} = {} /\ (early \cup {x}) \cap late = {}
        BY <2>3
    <2>6. /\ Listing(begun, early \cup {x})
          /\ \A y, z : Precedes(front, y, z) => Precedes(begun, y, z)
          /\ \A y \in early, z \in {x} : Precedes(begun, y, z)
        BY <1>2, <2>3, <2>5, ConcatList
    <2> HIDE DEF begun
    <2>7. /\ Listing(begun \o back, (early \cup {x}) \cup late)
          /\ \A y, z : Precedes(begun, y, z) => Precedes(begun \o back, y, z)
          /\ \A y, z : Precedes(back, y, z) => Precedes(begun \o back, y, z)
          /\ \A y \in early \cup {x}, z \in late : Precedes(begun \o back, y, z)
        BY <2>3, <2>5, <2>6, ConcatList
    <2>8. (early \cup {x}) \cup late = S \cup {x}
        BY <2>3
    <2>9. /\ Listing(new, S \cup {x})
          /\ \A y \in early : Precedes(new, y, x)
          /\ \A y \in late : Precedes(new, x, y)
        BY <2>2, <2>6, <2>7, <2>8
    <2>10. \A y, z \in S : Precedes(list, y, z) => Precedes(new, y, z)
        <3> HIDE DEF new
        <3> SUFFICES ASSUME NEW y \in S, NEW z \in S, Precedes(list, y, z)
                     PROVE  Precedes(new, y, z)
            OBVIOUS
        <3>1. CASE y \in early /\ z \in early
            BY <2>2, <2>3, <2>6, <2>7, <3>1
        <3>2. CASE y \in late /\ z \in late
            BY <2>2, <2>3, <2>7, <3>2
        <3>3. CASE y \in early /\ z \in late
            BY <2>2, <2>7, <3>3
        <3>4. QED
            BY <2>3, <3>1, <3>2, <3>3
    <2> HIDE DEF new
    <2>11. QED
        BY <1>4, <2>3, <2>4, <2>9, <2>10 DEF new
<1>5. QED
    BY <1>3, <1>4

\* FlattenSeq, one list after another.
LEMMA FlatDefined ==
    ASSUME NEW T, NEW lists \in Seq(Seq(T)), Len(lists) # 0
    PROVE  \E flat : /\ DOMAIN flat = 1..Len(lists)
                     /\ \A n \in 1..Len(lists) :
                           flat[n] = IF n = 1 THEN lists[1] ELSE flat[n - 1] \o lists[n]
                     /\ FlattenSeq(lists) = flat[Len(lists)]
<1> DEFINE all == 1..Len(lists)
           Next1(g, n) == IF n = 1 THEN lists[n] ELSE g[n - 1] \o lists[n]
           Obeys(g, n) == \A k \in all : k <= n => g[k] = Next1(g, k)
           reached == {n \in Nat : \E g : Obeys(g, n)}
<1>0. Len(lists) \in Nat
    OBVIOUS
<1>1. 0 \in reached
    OBVIOUS
<1>2. \A n \in reached : n + 1 \in reached
    <2> SUFFICES ASSUME NEW n \in Nat, NEW g, Obeys(g, n) PROVE n + 1 \in reached
        OBVIOUS
    <2> DEFINE h == [k \in all |-> IF k <= n THEN g[k] ELSE Next1(g, k)]
    <2>1. ASSUME NEW k \in all, k <= n + 1 PROVE h[k] = Next1(h, k)
        <3>1. h[k] = Next1(g, k)
            OBVIOUS
        <3>2. CASE k = 1
            BY <3>1, <3>2
        <3>3. CASE k # 1
            <4>1. k - 1 \in all /\ k - 1 <= n
                BY <2>1, <3>3
            <4>2. h[k - 1] = g[k - 1]
                BY <4>1
            <4>3. QED
                BY <3>1, <3>3, <4>2
        <3>4. QED
            BY <3>2, <3>3
    <2>2. Obeys(h, n + 1)
        BY <2>1
    <2> HIDE DEF h, Obeys
    <2>3. QED
        BY <2>2
<1>3. reached = Nat
    <2>1. reached \in SUBSET Nat
        OBVIOUS
    <2> HIDE DEF reached
    <2>2. QED
        BY <1>1, <1>2, <2>1, Counting
<1>4. \E g : g = [n \in all |-> Next1(g, n)]
    <2>1. Len(lists) \in reached
        <3> HIDE DEF reached
        <3>1. QED
            BY <1>0, <1>3
    <2>2. PICK g : Obeys(g, Len(lists))
        BY <2>1
    <2> DEFINE h == [n \in all |-> g[n]]
    <2>3. \A n \in all : g[n] = Next1(g, n)
        BY <2>2
    <2>4. \A n \in all : n # 1 => n - 1 \in all
        OBVIOUS
    <2>5. \A n \in all : Next1(h, n) = Next1(g, n)
        BY <2>4
    <2>6. h = [n \in all |-> Next1(h, n)]
        BY <2>3, <2>5
    <2> HIDE DEF h
    <2>7. QED
        BY <2>6
<1> DEFINE found == CHOOSE g : g = [n \in all |-> Next1(g, n)]
<1>5. found = [n \in all |-> Next1(found, n)]
    <2> HIDE DEF Next1
    <2>1. QED
        BY <1>4
<1>6. FlattenSeq(lists) = found[Len(lists)]
    BY DEF FlattenSeq
<1> HIDE DEF found
<1>7. DOMAIN found = 1..Len(lists)
    BY <1>5
<1>8. \A n \in all : found[n] = Next1(found, n)
    <2> HIDE DEF Next1, all
    <2>1. QED
        BY <1>5
<1>9. QED
    BY <1>6, <1>7, <1>8

\* Lists of nothing in common, one after another, list all there is, each part
\* in its order.
LEMMA FlatList ==
    ASSUME NEW size \in Nat \ {0}, NEW lists, lists = [n \in 1..size |-> lists[n]],
           NEW sets, \A n \in 1..size : Listing(lists[n], sets[n]),
           \A m, n \in 1..size : m # n => sets[m] \cap sets[n] = {}
    PROVE  /\ Listing(FlattenSeq(lists), UNION {sets[n] : n \in 1..size})
           /\ \A n \in 1..size : \A x, y :
                 Precedes(lists[n], x, y) => Precedes(FlattenSeq(lists), x, y)
<1> DEFINE T == UNION {sets[n] : n \in 1..size}
           UpTo(n) == UNION {sets[k] : k \in {j \in 1..size : j <= n}}
<1>1. lists \in Seq(Seq(T)) /\ Len(lists) = size
    <2>1. ASSUME NEW n \in 1..size PROVE lists[n] \in Seq(T)
        <3>1. lists[n] \in Seq(sets[n]) /\ sets[n] \subseteq T
            BY DEF Listing
        <3> HIDE DEF T
        <3>2. QED
            BY <3>1
    <2> HIDE DEF T
    <2>2. lists \in [1..size -> Seq(T)]
        BY <2>1
    <2>3. QED
        BY <2>2
<1>2. PICK flat : /\ DOMAIN flat = 1..size
                  /\ \A n \in 1..size :
                        flat[n] = IF n = 1 THEN lists[1] ELSE flat[n - 1] \o lists[n]
                  /\ FlattenSeq(lists) = flat[size]
    <2> HIDE DEF T
    <2>1. QED
        BY <1>1, FlatDefined
<1> DEFINE Good(n) == /\ Listing(flat[n], UpTo(n))
                      /\ \A k \in 1..size : \A x, y :
                            k <= n /\ Precedes(lists[k], x, y) => Precedes(flat[n], x, y)
           good == {n \in Nat : n \in 1..size => Good(n)}
<1>3. 0 \in good
    OBVIOUS
<1>4. \A n \in good : n + 1 \in good
    <2> HIDE DEF Good
    <2> SUFFICES ASSUME NEW n \in Nat, n \in 1..size => Good(n), n + 1 \in 1..size
                 PROVE  Good(n + 1)
        OBVIOUS
    <2> DEFINE m == n + 1
    <2>1. m \in 1..size /\ m - 1 = n
        OBVIOUS
    <2> HIDE DEF m
    <2>2. CASE n = 0
        <3>1. m = 1
            BY <2>2 DEF m
        <3>2. flat[m] = lists[m]
            BY <1>2, <2>1, <3>1
        <3>3. {j \in 1..size : j <= m} = {m}
            BY <2>1, <3>1
        <3>4. UpTo(m) = sets[m]
            BY <3>3
        <3>5. \A k \in 1..size : k <= m => k = m
            BY <2>1, <3>1
        <3>6. QED
            BY <2>1, <3>2, <3>4, <3>5 DEF Good, m
    <2>3. CASE n # 0
        <3>1. n \in 1..size /\ m # 1
            BY <2>3 DEF m
        <3>2. Good(n)
            BY <3>1
        <3>3. flat[m] = flat[n] \o lists[m]
            BY <1>2, <2>1, <3>1
        <3>4. Listing(flat[n], UpTo(n)) /\ Listing(lists[m], sets[m])
            BY <2>1, <3>2 DEF Good
        <3>5. \A k \in 1..size : k <= m <=> k <= n \/ k = m
            BY <2>1 DEF m
        <3>6. UpTo(m) = UpTo(n) \cup sets[m]
            BY <2>1, <3>5
        <3>7. \A k \in 1..size : k <= n => k # m
            BY DEF m
        <3>8. UpTo(n) \cap sets[m] = {}
            BY <2>1, <3>7
        <3> HIDE DEF UpTo
        <3> DEFINE early == flat[n]
                   late == lists[m]
        <3> HIDE DEF early, late
        <3>12. /\ Listing(early \o late, UpTo(n) \cup sets[m])
               /\ \A x, y : Precedes(early, x, y) => Precedes(early \o late, x, y)
               /\ \A x, y : Precedes(late, x, y) => Precedes(early \o late, x, y)
            <4>1. Listing(early, UpTo(n)) /\ Listing(late, sets[m])
                BY <3>4 DEF early, late
            <4>2. QED
                BY <3>8, <4>1, ConcatList
        <3>9. /\ Listing(flat[m], UpTo(m))
              /\ \A x, y : Precedes(flat[n], x, y) => Precedes(flat[m], x, y)
              /\ \A x, y : Precedes(lists[m], x, y) => Precedes(flat[m], x, y)
            BY <3>3, <3>6, <3>12 DEF early, late
        <3>10. \A k \in 1..size : \A x, y :
                  k <= m /\ Precedes(lists[k], x, y) => Precedes(flat[m], x, y)
            BY <3>2, <3>5, <3>9 DEF Good
        <3>11. QED
            BY <3>9, <3>10 DEF Good, m
    <2>4. QED
        BY <2>2, <2>3
<1>5. size \in good
    <2>1. good \in SUBSET Nat
        OBVIOUS
    <2> HIDE DEF good
    <2>2. QED
        BY <1>3, <1>4, <2>1, Counting
<1>6. Good(size)
    BY <1>5
<1>7. {j \in 1..size : j <= size} = 1..size
    OBVIOUS
<1>8. UpTo(size) = T
    BY <1>7
<1>9. \A k \in 1..size : k <= size
    OBVIOUS
<1> HIDE DEF UpTo, T
<1>10. Listing(FlattenSeq(lists), T)
    BY <1>2, <1>6, <1>8
<1>11. \A n \in 1..size : \A x, y :
           Precedes(lists[n], x, y) => Precedes(FlattenSeq(lists), x, y)
    BY <1>2, <1>6, <1>9
<1>12. QED
    BY <1>10, <1>11 DEF T

\* Lists of nothing in common, one after another, list all there is.
LEMMA FlatLists ==
    ASSUME NEW size \in Nat \ {0}, NEW T, NEW lists \in [1..size -> Seq(T)],
           NEW sets, \A n \in 1..size : Listing(lists[n], sets[n]),
           \A m, n \in 1..size : m # n => sets[m] \cap sets[n] = {},
           NEW all, \A x : x \in all <=> \E n \in 1..size : x \in sets[n]
    PROVE  Listing(FlattenSeq(lists), all)
<1>1. lists = [n \in 1..size |-> lists[n]]
    OBVIOUS
<1>2. all = UNION {sets[n] : n \in 1..size}
    OBVIOUS
<1>3. /\ Listing(FlattenSeq(lists), UNION {sets[n] : n \in 1..size})
      /\ \A n \in 1..size : \A x, y :
            Precedes(lists[n], x, y) => Precedes(FlattenSeq(lists), x, y)
    BY <1>1, FlatList
<1>4. QED
    BY <1>2, <1>3

\* Each of them stays in its order.
LEMMA FlatOrder ==
    ASSUME NEW size \in Nat \ {0}, NEW T, NEW lists \in [1..size -> Seq(T)],
           NEW sets, \A n \in 1..size : Listing(lists[n], sets[n]),
           \A m, n \in 1..size : m # n => sets[m] \cap sets[n] = {}
    PROVE  \A n \in 1..size : \A x, y :
              Precedes(lists[n], x, y) => Precedes(FlattenSeq(lists), x, y)
<1>1. lists = [n \in 1..size |-> lists[n]]
    OBVIOUS
<1>2. QED
    BY <1>1, FlatList

----------------------------------------------------------------------------
(* What the relation operators preserve, for every set of ids and every    *)
(* cap.  The acyclicity arguments are about closed sets: b is out of reach *)
(* of a when some set closed under the edges holds a and not b.            *)

\* Every set closed in the larger graph is closed in the smaller one, so a
\* graph with fewer edges reaches no more: dropping edges closes no cycle.
LEMMA FewerEdgesAcyclic ==
    ASSUME NEW graph \in Graphs, NEW fewer \in Graphs,
           \A a \in Ids : fewer[a] \subseteq graph[a],
           Acyclic(graph)
    PROVE  Acyclic(fewer)
<1>1. SUFFICES ASSUME NEW a \in Ids, NEW b \in fewer[a]
               PROVE  ~Reaches(fewer, b, a)
    BY DEF Acyclic, ClosesCycle
<1>2. b \in graph[a]
    OBVIOUS
<1>3. PICK S \in SUBSET Ids : b \in S /\ Closed(graph, S) /\ a \notin S
    BY <1>2 DEF Acyclic, ClosesCycle, Reaches
<1>4. Closed(fewer, S)
    BY <1>3 DEF Closed
<1>5. QED
    BY <1>3, <1>4 DEF Reaches

\* reconcileRelations leaves no cycle, whatever document it is given and
\* whatever the order of its rows.
LEMMA PruningAcyclic ==
    ASSUME NEW graph \in Graphs, NEW kept \in Graphs, NEW order,
           IsPruning(graph, kept, order)
    PROVE  Acyclic(kept)
<1>1. SUFFICES ASSUME NEW a \in Ids, NEW b \in kept[a]
               PROVE  ~Reaches(kept, b, a)
    BY DEF Acyclic, ClosesCycle
<1> DEFINE current == [c \in Ids |-> IF order[c] < order[a] THEN kept[c]
                                                            ELSE graph[c]]
<1>2. \A c \in Ids : kept[c] \subseteq graph[c]
    BY DEF IsPruning
<1>3. ~Reaches(current, b, a)
    BY DEF IsPruning, ClosesCycle
<1>4. PICK S \in SUBSET Ids : b \in S /\ Closed(current, S) /\ a \notin S
    BY <1>3 DEF Reaches
<1>5. Closed(kept, S)
    <2>1. \A c \in S : kept[c] \subseteq current[c]
        BY <1>2
    <2>2. QED
        BY <1>4, <2>1 DEF Closed
<1>6. QED
    BY <1>4, <1>5 DEF Reaches

\* The write check of an update is enough: the edited row's new list closes
\* no cycle when each new edge closes none without the row's own list.
LEMMA AcceptedWriteAcyclic ==
    ASSUME NEW graph \in Graphs, NEW i \in Ids, NEW targets \in SUBSET Ids,
           Acyclic(graph),
           BlocksAccepted(graph, i, targets)
    PROVE  Acyclic([graph EXCEPT ![i] = targets])
<1> DEFINE without == [graph EXCEPT ![i] = {}]
           after   == [graph EXCEPT ![i] = targets]
           W == {x \in Ids : Reaches(without, x, i)}   \* what leads to i
           V == Ids \ W
<1>0. /\ \A x \in Ids : without[x] = IF x = i THEN {} ELSE graph[x]
      /\ \A x \in Ids : after[x] = IF x = i THEN targets ELSE graph[x]
      /\ \A x \in Ids : graph[x] \in SUBSET Ids
    BY DEF Graphs
<1>1. \A t \in targets : t \in V
    BY DEF BlocksAccepted, ClosesCycle
<1>2. i \in W
    BY DEF Reaches
<1>3. \A x \in V : without[x] \subseteq V
    <2>1. SUFFICES ASSUME NEW x \in V, NEW y \in without[x]
                   PROVE  y \in V
        OBVIOUS
    <2>2. y \in Ids
        BY <1>0
    <2>3. PICK S \in SUBSET Ids : x \in S /\ Closed(without, S) /\ i \notin S
        BY DEF Reaches
    <2>4. y \in S
        BY <2>3 DEF Closed
    <2>5. QED
        BY <2>2, <2>3, <2>4 DEF Reaches
<1>4. \A x \in V : after[x] \subseteq V
    BY <1>0, <1>2, <1>3
<1>5. SUFFICES ASSUME NEW a \in Ids, NEW b \in after[a]
               PROVE  ~Reaches(after, b, a)
    BY DEF Acyclic, ClosesCycle
<1>6. b \in Ids
    BY <1>0
<1>7. CASE a = i
    <2>1. b \in V /\ a \notin V /\ Closed(after, V)
        BY <1>0, <1>1, <1>2, <1>4, <1>7 DEF Closed
    <2>2. QED
        BY <2>1 DEF Reaches
<1>8. CASE a # i
    <2>1. b \in graph[a]
        BY <1>0, <1>8
    <2>2. PICK S \in SUBSET Ids : b \in S /\ Closed(graph, S) /\ a \notin S
        BY <2>1 DEF Acyclic, ClosesCycle, Reaches
    <2>3. CASE a \in V
        <3>1. b \in V
            BY <1>4, <2>3
        <3>2. Closed(after, S \cap V)
            BY <1>0, <1>2, <1>4, <2>2 DEF Closed
        <3>3. QED
            BY <2>2, <3>1, <3>2 DEF Reaches
    <2>4. CASE a \in W
        <3>1. Closed(after, S \cup V)
            BY <1>0, <1>1, <1>4, <2>2 DEF Closed
        <3>2. a \notin S \cup V
            BY <2>2, <2>4
        <3>3. QED
            BY <2>2, <3>1, <3>2 DEF Reaches
    <2>5. QED
        BY <2>3, <2>4
<1>9. QED
    BY <1>7, <1>8

----------------------------------------------------------------------------
(* Lists that name only live rows, and never their own.                    *)

\* The first repair pass leaves edges between rows of the document only.
LEMMA CleanedProper ==
    ASSUME NEW graph \in Graphs, NEW live \in SUBSET Ids
    PROVE  Cleaned(graph, live) \in Graphs /\ Proper(Cleaned(graph, live), live)
BY DEF Cleaned, Graphs, Proper

\* The mirror of a proper edge is proper.
LEMMA SymmetrizedProper ==
    ASSUME NEW graph \in Graphs, NEW live \in SUBSET Ids, NEW order,
           Proper(graph, live)
    PROVE  /\ Symmetrized(graph, order) \in Graphs
           /\ Proper(Symmetrized(graph, order), live)
<1>1. ASSUME NEW j \in Ids, NEW a \in Symmetrized(graph, order)[j]
      PROVE  a \in graph[j] \/ (a \in Ids /\ j \in graph[a])
    BY <1>1 DEF Symmetrized
<1>2. Symmetrized(graph, order) = [j \in Ids |-> Symmetrized(graph, order)[j]]
    BY DEF Symmetrized
<1>3. \A j \in Ids : Symmetrized(graph, order)[j] \subseteq
                        IF j \in live THEN live \ {j} ELSE {}
    BY <1>1 DEF Proper, Graphs
<1>4. QED
    BY <1>2, <1>3 DEF Proper, Graphs

\* Dropping edges leaves a proper graph proper.
LEMMA SubgraphProper ==
    ASSUME NEW graph \in Graphs, NEW live \in SUBSET Ids,
           Proper(graph, live), NEW kept \in Subgraphs(graph)
    PROVE  kept \in Graphs /\ Proper(kept, live)
<1>1. PICK K \in SUBSET EdgesOf(graph) :
          kept = [a \in Ids |-> {b \in graph[a] : <<a, b>> \in K}]
    BY DEF Subgraphs
<1>2. \A a \in Ids : graph[a] \subseteq Ids
    BY DEF Graphs
<1>3. \A a \in Ids : kept[a] \subseteq graph[a]
    BY <1>1
<1>4. QED
    BY <1>1, <1>2, <1>3 DEF Graphs, Proper

\* A relatesTo write leaves a graph on the same ids.
LEMMA WriteTyped ==
    ASSUME NEW graph \in Graphs, NEW i \in Ids, NEW targets \in SUBSET Ids
    PROVE  /\ WithRelatesTo(graph, i, targets) \in Graphs
           /\ [graph EXCEPT ![i] = targets] \in Graphs
<1>1. WithRelatesTo(graph, i, targets) \in Graphs
    BY DEF WithRelatesTo, Graphs
<1>2. QED
    BY <1>1 DEF Graphs

\* A relatesTo write whose targets are legal leaves every edge between rows.
LEMMA WriteProper ==
    ASSUME NEW graph \in Graphs, NEW live \in SUBSET Ids, Proper(graph, live),
           NEW i \in live, NEW targets \in SUBSET Ids,
           LegalTargets(live, i, targets)
    PROVE  /\ WithRelatesTo(graph, i, targets) \in Graphs
           /\ Proper(WithRelatesTo(graph, i, targets), live)
           /\ [graph EXCEPT ![i] = targets] \in Graphs
           /\ Proper([graph EXCEPT ![i] = targets], live)
<1>1. WithRelatesTo(graph, i, targets) \in Graphs
    BY DEF WithRelatesTo, Graphs
<1>2. ASSUME NEW j \in Ids
      PROVE  WithRelatesTo(graph, i, targets)[j] \subseteq
                 IF j \in live THEN live \ {j} ELSE {}
    BY DEF WithRelatesTo, LegalTargets, Proper, Graphs
<1>3. QED
    BY <1>1, <1>2 DEF LegalTargets, Proper, Graphs

\* The delete sweep leaves no edge to the row that goes, and none from it.
LEMMA DeleteProper ==
    ASSUME NEW graph \in Graphs, NEW live \in SUBSET Ids, NEW i \in Ids,
           Proper(graph, live)
    PROVE  /\ WithoutIdea(graph, i) \in Graphs
           /\ Proper(WithoutIdea(graph, i), live \ {i})
BY DEF WithoutIdea, Graphs, Proper

----------------------------------------------------------------------------
(* The document.                                                           *)

USE IdsAssumption, RelationLimitAssumption, NoneAssumption, InputsAssumption

----------------------------------------------------------------------------
(* Counting, ranks and imported rows.                                      *)

\* Every set of ids has a size.
LEMMA CountInNat ==
    ASSUME NEW S \in SUBSET Ids
    PROVE  Cardinality(S) \in Nat
BY FS_Subset, FS_CardinalityType

\* An insertion into a rank group leaves every rank a natural number.
LEMMA RerankedType ==
    ASSUME TypeOK, NEW moved \in Ids, NEW peers \in SUBSET Ids, NEW k \in Int
    PROVE  Reranked(moved, peers, k) \in [Ids -> Nat]
<1> DEFINE at == Clamped(k, 1, Cardinality(peers) + 1)
           ahead(j) == Cardinality({p \in peers : RankedBefore(p, j)})
<1>1. Cardinality(peers) \in Nat
    BY CountInNat
<1>2. at \in Nat
    BY <1>1 DEF Clamped
<1>3. \A j \in Ids : ahead(j) \in Nat
    BY CountInNat
<1>4. \A j \in Ids : rank[j] \in Nat
    BY DEF TypeOK
<1> HIDE DEF at, ahead
<1>5. \A j \in Ids :
        (IF j = moved THEN at
         ELSE IF j \notin peers THEN rank[j]
         ELSE IF ahead(j) + 1 < at THEN ahead(j) + 1 ELSE ahead(j) + 2) \in Nat
    BY <1>2, <1>3, <1>4
<1>6. QED
    BY <1>5 DEF Reranked, at, ahead

\* Some index of a set of them is the largest.
LEMMA LastIndex ==
    ASSUME NEW n \in Nat, NEW S \in SUBSET (1..n), S # {}
    PROVE  \E m \in S : \A k \in S : k <= m
<1> DEFINE above(m) == {k \in S : k > m}
           tails == {above(m) : m \in S}
<1>1. tails \subseteq FiniteSubsetsOf(S) /\ tails # {}
    <2>1. IsFiniteSet(S)
        <3>1. IsFiniteSet(1..n)
            BY FS_Interval
        <3>2. QED
            BY <3>1, FS_Subset
    <2>2. \A m \in S : above(m) \in SUBSET S /\ IsFiniteSet(above(m))
        BY <2>1, FS_Subset
    <2> HIDE DEF above
    <2>3. \A m \in S : above(m) \in FiniteSubsetsOf(S)
        BY <2>2 DEF FiniteSubsetsOf
    <2>4. QED
        BY <2>3
<1>2. PICK tail \in tails : \A other \in tails : ~(<<other, tail>> \in StrictSubsetOrdering(S))
    <2> HIDE DEF tails
    <2>1. QED
        BY <1>1, FS_StrictSubsetOrderingWellFounded, WFMin
<1>3. PICK m \in S : tail = above(m)
    BY <1>2
<1>4. ASSUME NEW k \in S, k > m
      PROVE  FALSE
    <2>1. above(k) \subseteq above(m) /\ k \in above(m) /\ k \notin above(k)
        <3> HIDE DEF tails
        <3>1. k \in Int /\ m \in Int /\ \A j \in S : j \in Int
            OBVIOUS
        <3>2. \A j \in S : j > k => j > m
            BY <1>4, <3>1
        <3>3. ~(k > k)
            BY <3>1
        <3>4. QED
            BY <1>4, <3>2, <3>3
    <2>2. above(k) \in SUBSET S /\ above(m) \in SUBSET S /\ above(k) \in tails
        OBVIOUS
    <2> HIDE DEF above, tails
    <2>3. <<above(k), above(m)>> \in StrictSubsetOrdering(S)
        BY <2>1, <2>2 DEF StrictSubsetOrdering
    <2>4. QED
        BY <1>2, <1>3, <2>2, <2>3
<1>5. QED
    BY <1>4

\* An imported field is the stored one, or the one a row of its id carries.
LEMMA OverlaidValue ==
    ASSUME NEW s \in Sources, NEW stored, NEW field, NEW absent, NEW i \in Ids
    PROVE  \/ Overlaid(ImportOf[s], stored, field, absent)[i] = stored[i]
           \/ \E n \in DOMAIN ImportOf[s] :
                 /\ ImportOf[s][n] \in ImportRow /\ ImportOf[s][n].id = i
                 /\ ImportOf[s][n][field] # absent
                 /\ Overlaid(ImportOf[s], stored, field, absent)[i] = ImportOf[s][n][field]
<1> DEFINE rows == ImportOf[s]
           stating == Stating(rows, i, field, absent)
           last == CHOOSE n \in stating : \A m \in stating : m <= n
<1>1. rows \in Seq(ImportRow) /\ DOMAIN rows = 1..Len(rows) /\ Len(rows) \in Nat
    OBVIOUS
<1>2. Overlaid(rows, stored, field, absent)[i] =
         IF stating = {} THEN stored[i] ELSE rows[last][field]
    BY DEF Overlaid
<1>3. ASSUME stating # {}
      PROVE  last \in stating
    <2>1. stating \in SUBSET (1..Len(rows))
        BY <1>1 DEF Stating
    <2> HIDE DEF stating, rows
    <2>2. \E n \in stating : \A m \in stating : m <= n
        BY <1>1, <1>3, <2>1, LastIndex
    <2>3. QED
        BY <2>2
<1>4. \A n \in stating : n \in DOMAIN rows /\ rows[n].id = i /\ rows[n] \in ImportRow
                         /\ rows[n][field] # absent
    BY <1>1 DEF Stating
<1> HIDE DEF stating, last
<1>5. QED
    BY <1>2, <1>3, <1>4

\* An imported field keeps its type.
LEMMA OverlaidType ==
    ASSUME NEW s \in Sources, NEW T, NEW stored \in [Ids -> T], NEW field, NEW absent,
           \A row \in ImportRow : row[field] \in T \cup {absent}
    PROVE  Overlaid(ImportOf[s], stored, field, absent) \in [Ids -> T]
<1> DEFINE overlaid == Overlaid(ImportOf[s], stored, field, absent)
<1>1. \A i \in Ids : overlaid[i] \in T
    BY OverlaidValue
<1>2. overlaid = [i \in Ids |-> overlaid[i]]
    BY DEF Overlaid
<1>3. QED
    BY <1>1, <1>2

\* An import carries rows of known ids only.
LEMMA ImportedIds ==
    ASSUME NEW s \in Sources
    PROVE  IdsOf(ImportOf[s]) \subseteq Ids
<1>1. \A n \in DOMAIN ImportOf[s] : ImportOf[s][n] \in ImportRow
    OBVIOUS
<1>2. QED
    BY <1>1 DEF IdsOf, ImportRow

\* An import gives every row of the payload a place, and moves no other.
LEMMA ImportPlaces ==
    ASSUME TypeOK, NEW s \in Sources
    PROVE  /\ PlaceAfterImport(ImportOf[s]) \in [Ids -> Nat]
           /\ \A i \in Live \cup IdsOf(ImportOf[s]) :
                 PlaceAfterImport(ImportOf[s])[i] # 0
<1> DEFINE rows == ImportOf[s]
           upTo(i) == {n \in Arrivals(rows) : \A m \in DOMAIN rows : rows[m].id = i => n <= m}
           P == PlaceAfterImport(rows)
<1>1. rows \in Seq(ImportRow) /\ DOMAIN rows = 1..Len(rows) /\ Len(rows) \in Nat
    OBVIOUS
<1>2. Cardinality(Live) \in Nat
    BY CountInNat DEF Live
<1>3. IsFiniteSet(DOMAIN rows)
    BY <1>1, FS_Interval
<1>4. \A i \in Ids : IsFiniteSet(upTo(i)) /\ Cardinality(upTo(i)) \in Nat
    BY <1>3, FS_Subset, FS_CardinalityType DEF Arrivals
<1>5. P = [i \in Ids |-> IF i \in IdsOf(rows) \ Live
                         THEN Cardinality(Live) + Cardinality(upTo(i))
                         ELSE place[i]]
    BY DEF PlaceAfterImport
<1>6. place \in [Ids -> Nat]
    BY DEF TypeOK
<1> HIDE DEF rows, P, upTo
<1>7. P \in [Ids -> Nat]
    BY <1>2, <1>4, <1>5, <1>6
<1>8. ASSUME NEW i \in Ids, i \in IdsOf(rows) \ Live
      PROVE  P[i] # 0
    <2>1. CASE Live = {}
        <3>1. PICK m \in DOMAIN rows : rows[m].id = i
            BY <1>8 DEF IdsOf
        <3>2. 1 \in upTo(i)
            BY <1>1, <2>1, <3>1 DEF upTo, Arrivals
        <3>3. Cardinality(upTo(i)) # 0
            BY <1>4, <3>2, FS_EmptySet
        <3>4. QED
            BY <1>2, <1>4, <1>5, <1>8, <3>3
    <2>2. CASE Live # {}
        <3>1. Cardinality(Live) # 0
            BY <2>2, FS_EmptySet, FS_Subset DEF Live
        <3>2. QED
            BY <1>2, <1>4, <1>5, <1>8, <3>1
    <2>3. QED
        BY <2>1, <2>2
<1>9. ASSUME NEW i \in Live
      PROVE  P[i] # 0
    BY <1>5 DEF Live
<1>10. IdsOf(rows) \subseteq Ids
    BY ImportedIds DEF rows
<1>11. QED
    BY <1>7, <1>8, <1>9, <1>10 DEF P, rows

----------------------------------------------------------------------------
(* What a merge and an import leave of the two graphs.                     *)

\* Re-pointing the loser's edges leaves a graph on the same ids.
LEMMA MergedGraphsType ==
    ASSUME NEW graph \in Graphs, NEW loser \in Ids, NEW survivor \in Ids,
           NEW merged \in MergedGraphs(graph, loser, survivor)
    PROVE  merged \in Graphs
<1> DEFINE moved == [i \in Ids |-> Repointed(graph[i], i, loser, survivor)]
<1>1. \A i \in Ids : Repointed(graph[i], i, loser, survivor) \in SUBSET Ids
    BY DEF Repointed, Graphs
<1>2. moved \in Graphs
    BY <1>1 DEF Graphs
<1>3. PICK list \in CappedUnion(moved[survivor], moved[loser]) :
          merged = [moved EXCEPT ![survivor] = list \ {survivor}]
    BY DEF MergedGraphs
<1> HIDE DEF moved
<1>4. moved[survivor] \in SUBSET Ids /\ moved[loser] \in SUBSET Ids
    BY <1>2 DEF Graphs
<1>5. list \in SUBSET Ids
    BY <1>3, <1>4 DEF CappedUnion
<1>6. QED
    BY <1>2, <1>3, <1>5 DEF Graphs

\* The repair of a document: typed, proper and free of loops.
LEMMA RepairedGraphs ==
    ASSUME NEW graph \in Graphs, NEW live \in SUBSET Ids, NEW index
    PROVE  /\ Symmetrized(Cleaned(graph, live), index) \in Graphs
           /\ Proper(Symmetrized(Cleaned(graph, live), index), live)
           /\ \A kept \in Subgraphs(Cleaned(graph, live)) :
                 /\ kept \in Graphs
                 /\ Proper(kept, live)
                 /\ IsPruning(Cleaned(graph, live), kept, index) => Acyclic(kept)
<1>1. Cleaned(graph, live) \in Graphs /\ Proper(Cleaned(graph, live), live)
    BY CleanedProper
<1>2. QED
    BY <1>1, SymmetrizedProper, SubgraphProper, PruningAcyclic

\* A merge leaves both graphs typed and proper, and blocks free of loops.
LEMMA MergeRelations ==
    ASSUME TypeOK, NEW loser \in Ids, NEW survivor \in Ids, NEW mode,
           Merge(loser, survivor, mode)
    PROVE  /\ relatesTo' \in Graphs /\ Proper(relatesTo', Live)
           /\ blocks' \in Graphs /\ Proper(blocks', Live)
           /\ Acyclic(blocks')
<1>0. relatesTo \in Graphs /\ blocks \in Graphs /\ Live \in SUBSET Ids
    BY DEF TypeOK, Live
<1>1. PICK merged \in MergedGraphs(relatesTo, loser, survivor) :
          relatesTo' = Symmetrized(Cleaned(merged, Live), place)
    BY DEF Merge
<1>2. merged \in Graphs
    BY <1>0, MergedGraphsType
<1>3. PICK waits \in MergedGraphs(blocks, loser, survivor) :
          \E kept \in Subgraphs(Cleaned(waits, Live)) :
             blocks' = kept /\ IsPruning(Cleaned(waits, Live), kept, place)
    BY DEF Merge
<1>4. waits \in Graphs
    BY <1>0, MergedGraphsType
<1>5. PICK kept \in Subgraphs(Cleaned(waits, Live)) :
          blocks' = kept /\ IsPruning(Cleaned(waits, Live), kept, place)
    BY <1>3
<1>6. QED
    BY <1>0, <1>1, <1>2, <1>4, <1>5, RepairedGraphs

\* Imported lists over stored ones make a graph on the same ids.
LEMMA OverlaidGraph ==
    ASSUME NEW s \in Sources, NEW stored \in Graphs,
           NEW field \in {"relatesTo", "blocks"}
    PROVE  Overlaid(ImportOf[s], stored, field, {}) \in Graphs
<1>1. \A row \in ImportRow : row[field] \in (SUBSET Ids) \cup {{}}
    BY DEF ImportRow
<1>2. stored \in [Ids -> SUBSET Ids]
    BY DEF Graphs
<1>3. Overlaid(ImportOf[s], stored, field, {}) \in [Ids -> SUBSET Ids]
    BY <1>1, <1>2, OverlaidType
<1>4. QED
    BY <1>3 DEF Graphs

\* An import leaves both graphs typed and proper, and blocks free of loops.
LEMMA ImportRelations ==
    ASSUME TypeOK, NEW s \in Sources, Import(s)
    PROVE  LET known == Live \cup IdsOf(ImportOf[s])
           IN  /\ relatesTo' \in Graphs /\ Proper(relatesTo', known)
               /\ blocks' \in Graphs /\ Proper(blocks', known)
               /\ Acyclic(blocks')
<1> DEFINE known == Live \cup IdsOf(ImportOf[s])
           related == Overlaid(ImportOf[s], relatesTo, "relatesTo", {})
           waits == Overlaid(ImportOf[s], blocks, "blocks", {})
<1>1. known \in SUBSET Ids
    BY ImportedIds DEF Live
<1>2. related \in Graphs /\ waits \in Graphs
    BY OverlaidGraph DEF TypeOK
<1>3. relatesTo' = Symmetrized(Cleaned(related, known), place')
    BY DEF Import
<1>4. PICK kept \in Subgraphs(Cleaned(waits, known)) :
          blocks' = kept /\ IsPruning(Cleaned(waits, known), kept, place')
    BY DEF Import
<1> HIDE DEF known, related, waits
<1>5. /\ relatesTo' \in Graphs /\ Proper(relatesTo', known)
      /\ blocks' \in Graphs /\ Proper(blocks', known)
      /\ Acyclic(blocks')
    BY <1>1, <1>2, <1>3, <1>4, RepairedGraphs
<1>6. QED
    BY <1>5 DEF known

----------------------------------------------------------------------------
\* Every verb keeps the types.
LEMMA StepTyped ==
    ASSUME TypeOK, [Next]_vars
    PROVE  TypeOK'
<1>0. Cardinality(Live) + 1 \in Nat
    BY CountInNat DEF Live
<1>1. ASSUME NEW i \in Ids, NEW w \in Workspaces, NEW r \in Ranks \cup {0},
             Create(i, w, r)
      PROVE  TypeOK'
    BY <1>0, <1>1 DEF TypeOK, Create, NextNumber, Append1, relationVars
<1>2. ASSUME NEW i \in Ids, NEW patch \in Patches, Update(i, patch)
      PROVE  TypeOK'
    <2>1. patch \in PatchType
        OBVIOUS
    <2>2. relatesTo' \in Graphs /\ blocks' \in Graphs
        <3>1. relatesTo \in Graphs /\ blocks \in Graphs
            BY DEF TypeOK
        <3>2. /\ patch.relatesTo \in (SUBSET Ids) \cup {None}
              /\ patch.blocks \in (SUBSET Ids) \cup {None}
            BY <2>1 DEF PatchType
        <3>3. \/ relatesTo' = relatesTo
              \/ /\ patch.relatesTo # None
                 /\ relatesTo' = WithRelatesTo(relatesTo, i, patch.relatesTo)
            BY <1>2 DEF Update
        <3>4. \/ blocks' = blocks
              \/ /\ patch.blocks # None
                 /\ blocks' = [blocks EXCEPT ![i] = patch.blocks]
            BY <1>2 DEF Update
        <3>5. relatesTo' \in Graphs
            BY <3>1, <3>2, <3>3, WriteTyped
        <3>6. blocks' \in Graphs
            BY <3>1, <3>2, <3>4 DEF Graphs
        <3>7. QED
            BY <3>5, <3>6
    <2>3. workspace' \in [Ids -> Workspaces]
        BY <1>2, <2>1 DEF Update, TypeOK, PatchType
    <2>4. rank' \in [Ids -> Nat]
        BY <1>2, <2>1 DEF Update, TypeOK, PatchType
    <2>5. QED
        BY <1>2, <2>2, <2>3, <2>4 DEF Update, TypeOK, counterVars
<1>3. ASSUME NEW i \in Ids, NEW to \in Statuses \ {"declined"}, Move(i, to)
      PROVE  TypeOK'
    BY <1>3 DEF TypeOK, Move, relationVars, counterVars
<1>4. ASSUME NEW i \in Ids, Decline(i)
      PROVE  TypeOK'
    BY <1>4 DEF TypeOK, Decline, Statuses, relationVars, counterVars
<1>5. ASSUME NEW i \in Ids, Deliver(i)
      PROVE  TypeOK'
    BY <1>5 DEF TypeOK, Deliver, Statuses, relationVars, counterVars
<1>6. ASSUME NEW i \in Ids, NEW k \in TriageRanks, Triage(i, k)
      PROVE  TypeOK'
    <2>1. OpenPeers(i) \in SUBSET Ids
        BY DEF OpenPeers, Live
    <2>2. rank' \in [Ids -> Nat]
        BY <1>6, <2>1, RerankedType DEF Triage
    <2>3. QED
        BY <1>6, <2>2 DEF TypeOK, Triage, relationVars, counterVars
<1>7. ASSUME NEW i \in Ids, NEW child \in Ids, FollowUp(i, child)
      PROVE  TypeOK'
    BY <1>0, <1>7 DEF TypeOK, FollowUp, NextNumber, Append1, Statuses, relationVars
<1>8. ASSUME NEW loser \in Ids, NEW survivor \in Ids, NEW mode \in MergeModes,
             Merge(loser, survivor, mode)
      PROVE  TypeOK'
    <2>1. parent' \in [Ids -> Ids \cup {None}]
        BY <1>8 DEF TypeOK, Merge, MergedParents, InheritedParent
    <2>2. rank' \in [Ids -> Nat]
        <3>1. OpenPeers(survivor) \ {loser} \in SUBSET Ids
            BY DEF OpenPeers, Live
        <3>2. rank[loser] \in Int
            BY DEF TypeOK
        <3>3. QED
            BY <1>8, <3>1, <3>2, RerankedType DEF Merge, MergedRanks, TypeOK
    <2>3. relatesTo' \in Graphs
        BY <1>8, MergeRelations
    <2>4. blocks' \in Graphs
        BY <1>8, MergeRelations
    <2>5. QED
        BY <1>8, <2>1, <2>2, <2>3, <2>4
           DEF TypeOK, Merge, Statuses, counterVars
<1>9. ASSUME NEW i \in Ids, Restore(i)
      PROVE  TypeOK'
    BY <1>9 DEF TypeOK, Restore, Statuses, relationVars, counterVars
<1>10. ASSUME NEW i \in Ids, Delete(i)
       PROVE  TypeOK'
    <2>1. AnyWorkspace \in Workspaces
        BY DEF AnyWorkspace
    <2>2. place' \in [Ids -> Nat]
        BY <1>10 DEF TypeOK, Delete
    <2>3. relatesTo' \in Graphs /\ blocks' \in Graphs
        BY <1>10 DEF TypeOK, Delete, WithoutIdea, Graphs
    <2>4. QED
        BY <1>10, <2>1, <2>2, <2>3 DEF TypeOK, Delete, Statuses, counterVars
<1>11. ASSUME NEW order \in Orderings, Reorder(order)
       PROVE  TypeOK'
    <2>1. ASSUME NEW i \in Ids
          PROVE  Cardinality({j \in DOMAIN order :
                     SameGroup(i, j) /\ order[j] <= order[i]}) \in Nat
        BY <1>11, CountInNat DEF Reorder, Live
    <2>2. rank' \in [Ids -> Nat]
        BY <1>11, <2>1 DEF Reorder, ReorderedRanks, PositionIn, TypeOK
    <2>3. QED
        BY <1>11, <2>2 DEF TypeOK, Reorder, relationVars, counterVars
<1>12. ASSUME NEW s \in Sources, Import(s)
       PROVE  TypeOK'
    <2> DEFINE rows == ImportOf[s]
    <2>1. place' \in [Ids -> Nat]
        BY <1>12, ImportPlaces DEF Import
    <2>2. /\ status' \in [Ids -> Statuses] /\ workspace' \in [Ids -> Workspaces]
          /\ rank' \in [Ids -> Nat] /\ number' \in [Ids -> Nat]
          /\ parent' \in [Ids -> Ids \cup {None}]
        <3>1. Overlaid(rows, status, "status", None) \in [Ids -> Statuses]
            BY OverlaidType DEF TypeOK, ImportRow
        <3>2. Overlaid(rows, workspace, "workspace", None) \in [Ids -> Workspaces]
            BY OverlaidType DEF TypeOK, ImportRow
        <3>3. Overlaid(rows, rank, "rank", 0) \in [Ids -> Nat]
            BY OverlaidType DEF TypeOK, ImportRow
        <3>4. Overlaid(rows, number, "number", 0) \in [Ids -> Nat]
            BY OverlaidType DEF TypeOK, ImportRow
        <3>5. Overlaid(rows, parent, "parent", None) \in [Ids -> Ids \cup {None}]
            BY OverlaidType DEF TypeOK, ImportRow
        <3>6. QED
            BY <1>12, <3>1, <3>2, <3>3, <3>4, <3>5 DEF Import
    <2>3. relatesTo' \in Graphs
        BY <1>12, ImportRelations
    <2>4. blocks' \in Graphs
        BY <1>12, ImportRelations
    <2>5. ideaSequence' \in Nat
        <3>1. \A n \in DOMAIN rows : rows[n].number \in Nat
            <4>1. \A n \in DOMAIN rows : rows[n] \in ImportRow
                OBVIOUS
            <4>2. QED
                BY <4>1 DEF ImportRow
        <3>2. QED
            BY <1>12, <3>1 DEF Import, SequenceAfterImport, TypeOK
    <2>6. minted' \subseteq Ids
        BY <1>12, ImportedIds DEF Import, TypeOK
    <2>7. QED
        BY <1>12, <2>1, <2>2, <2>3, <2>4, <2>5, <2>6 DEF TypeOK, Import
<1>13. CASE UNCHANGED vars
    BY <1>13 DEF TypeOK, vars
<1>14. QED
    BY <1>1, <1>2, <1>3, <1>4, <1>5, <1>6, <1>7, <1>8, <1>9, <1>10, <1>11,
       <1>12, <1>13 DEF Next

\* The document keeps its types through every verb: a place, a rank and a
\* number for each id, a known column, and graphs on the known ids.
THEOREM TypeCorrect == Spec => []TypeOK
<1>1. Init => TypeOK
    <2>1. AnyWorkspace \in Workspaces
        BY DEF AnyWorkspace
    <2>2. QED
        BY <2>1 DEF Init, TypeOK, Statuses, Graphs
<1>2. TypeOK /\ [Next]_vars => TypeOK'
    BY StepTyped
<1>3. QED
    BY <1>1, <1>2, PTL DEF Spec

----------------------------------------------------------------------------
(* How each verb changes the set of rows.                                  *)

\* Which rows each verb leaves on the board.
LEMMA RowsAfterStep ==
    ASSUME TypeOK
    PROVE  /\ \A i \in Ids, w \in Workspaces, r \in Ranks \cup {0} :
                 Create(i, w, r) => Live' = Live \cup {i}
           /\ \A i, child \in Ids : FollowUp(i, child) => Live' = Live \cup {child}
           /\ \A i \in Ids : Delete(i) => Live' = Live \ {i}
           /\ \A s \in Sources : Import(s) =>
                 Live \cup IdsOf(ImportOf[s]) \subseteq Live'
           /\ place' = place => Live' = Live
<1>0. place \in [Ids -> Nat] /\ Cardinality(Live) \in Nat
    BY CountInNat DEF TypeOK, Live
<1>1. ASSUME NEW i \in Ids, Append1(i)
      PROVE  Live' = Live \cup {i}
    <2>1. \A j \in Ids : place'[j] = IF j = i THEN Cardinality(Live) + 1 ELSE place[j]
        BY <1>0, <1>1 DEF Append1
    <2>2. Cardinality(Live) + 1 # 0
        BY <1>0
    <2>3. QED
        BY <2>1, <2>2 DEF Live
<1>2. ASSUME NEW i \in Ids, Delete(i)
      PROVE  Live' = Live \ {i}
    <2>1. place[i] # 0
        BY <1>2 DEF Delete, Live
    <2>2. \A j \in Ids : place'[j] = IF j = i THEN 0
                                     ELSE IF place[j] > place[i] THEN place[j] - 1
                                     ELSE place[j]
        BY <1>2 DEF Delete
    <2>3. \A j \in Ids : place'[j] # 0 <=> j # i /\ place[j] # 0
        BY <1>0, <2>1, <2>2
    <2>4. QED
        BY <2>3 DEF Live
<1>3. ASSUME NEW s \in Sources, Import(s)
      PROVE  Live \cup IdsOf(ImportOf[s]) \subseteq Live'
    <2>1. place' = PlaceAfterImport(ImportOf[s])
        BY <1>3 DEF Import
    <2>2. \A i \in Live \cup IdsOf(ImportOf[s]) : place'[i] # 0
        BY <2>1, ImportPlaces
    <2>3. Live \cup IdsOf(ImportOf[s]) \subseteq Ids
        BY ImportedIds DEF Live
    <2>4. QED
        BY <2>2, <2>3 DEF Live
<1>4. QED
    BY <1>1, <1>2, <1>3 DEF Create, FollowUp, Live

\* A proper graph stays proper when rows are added.
LEMMA ProperGrows ==
    ASSUME NEW graph, NEW few, NEW many, few \subseteq many, Proper(graph, few)
    PROVE  Proper(graph, many)
BY DEF Proper

----------------------------------------------------------------------------
\* No write leaves a relation that names its own row or a row that is gone.
THEOREM RelationsStayLive == Spec => []RelationsLive
<1>1. Init => RelationsLive
    BY DEF Init, RelationsLive, Proper
<1>2. TypeOK /\ RelationsLive /\ [Next]_vars => RelationsLive'
    <2> SUFFICES ASSUME TypeOK, RelationsLive, [Next]_vars PROVE RelationsLive'
        OBVIOUS
    <2>0. /\ relatesTo \in Graphs /\ Proper(relatesTo, Live)
          /\ blocks \in Graphs /\ Proper(blocks, Live)
          /\ Live \in SUBSET Ids
        BY DEF TypeOK, RelationsLive, Live
    <2>a. ASSUME relatesTo' = relatesTo, blocks' = blocks, Live \subseteq Live'
          PROVE  RelationsLive'
        BY <2>0, <2>a, ProperGrows DEF RelationsLive
    <2>1. ASSUME NEW i \in Ids, NEW w \in Workspaces, NEW r \in Ranks \cup {0},
                 Create(i, w, r)
          PROVE  RelationsLive'
        BY <2>a, <2>1, RowsAfterStep DEF Create, relationVars
    <2>2. ASSUME NEW i \in Ids, NEW patch \in Patches, Update(i, patch)
          PROVE  RelationsLive'
        <3>1. i \in Live /\ Live' = Live
            BY <2>2, RowsAfterStep DEF Update
        <3>2. patch \in PatchType
            OBVIOUS
        <3>3. Proper(relatesTo', Live)
            <4>1. CASE patch.relatesTo = None
                BY <2>0, <2>2, <4>1 DEF Update
            <4>2. CASE patch.relatesTo # None
                <5>1. /\ LegalTargets(Live, i, patch.relatesTo)
                      /\ relatesTo' = WithRelatesTo(relatesTo, i, patch.relatesTo)
                    BY <2>2, <4>2 DEF Update
                <5>2. patch.relatesTo \in SUBSET Ids
                    BY <3>2, <4>2 DEF PatchType
                <5>3. QED
                    BY <2>0, <3>1, <5>1, <5>2, WriteProper
            <4>3. QED
                BY <4>1, <4>2
        <3>4. Proper(blocks', Live)
            <4>1. CASE patch.blocks = None
                BY <2>0, <2>2, <4>1 DEF Update
            <4>2. CASE patch.blocks # None
                <5>1. /\ LegalTargets(Live, i, patch.blocks)
                      /\ blocks' = [blocks EXCEPT ![i] = patch.blocks]
                    BY <2>2, <4>2 DEF Update
                <5>2. patch.blocks \in SUBSET Ids
                    BY <3>2, <4>2 DEF PatchType
                <5>3. QED
                    BY <2>0, <3>1, <5>1, <5>2, WriteProper
            <4>3. QED
                BY <4>1, <4>2
        <3>5. QED
            BY <3>1, <3>3, <3>4 DEF RelationsLive
    <2>3. ASSUME NEW i \in Ids,
                 \/ \E to \in Statuses \ {"declined"} : Move(i, to)
                 \/ Decline(i) \/ Deliver(i) \/ Restore(i)
                 \/ \E k \in TriageRanks : Triage(i, k)
          PROVE  RelationsLive'
        BY <2>a, <2>3, RowsAfterStep
           DEF Move, Decline, Deliver, Restore, Triage, relationVars
    <2>4. ASSUME NEW i \in Ids, NEW child \in Ids, FollowUp(i, child)
          PROVE  RelationsLive'
        BY <2>a, <2>4, RowsAfterStep DEF FollowUp, relationVars
    <2>5. ASSUME NEW loser \in Ids, NEW survivor \in Ids, NEW mode \in MergeModes,
                 Merge(loser, survivor, mode)
          PROVE  RelationsLive'
        <3>1. Live' = Live
            BY <2>5, RowsAfterStep DEF Merge
        <3>2. QED
            BY <2>5, <3>1, MergeRelations DEF RelationsLive
    <2>6. ASSUME NEW i \in Ids, Delete(i)
          PROVE  RelationsLive'
        <3>1. /\ Live' = Live \ {i}
              /\ relatesTo' = WithoutIdea(relatesTo, i)
              /\ blocks' = WithoutIdea(blocks, i)
            BY <2>6, RowsAfterStep DEF Delete
        <3>2. QED
            BY <2>0, <3>1, DeleteProper DEF RelationsLive
    <2>7. ASSUME NEW order \in Orderings, Reorder(order)
          PROVE  RelationsLive'
        BY <2>a, <2>7, RowsAfterStep DEF Reorder, relationVars
    <2>8. ASSUME NEW s \in Sources, Import(s)
          PROVE  RelationsLive'
        <3> DEFINE known == Live \cup IdsOf(ImportOf[s])
        <3>1. Proper(relatesTo', known) /\ Proper(blocks', known)
            BY <2>8, ImportRelations
        <3>2. known \subseteq Live'
            BY <2>8, RowsAfterStep
        <3>3. QED
            BY <3>1, <3>2, ProperGrows DEF RelationsLive
    <2>9. CASE UNCHANGED vars
        BY <2>a, <2>9, RowsAfterStep DEF vars
    <2>10. QED
        BY <2>1, <2>2, <2>3, <2>4, <2>5, <2>6, <2>7, <2>8, <2>9 DEF Next
<1>3. QED
    BY <1>1, <1>2, TypeCorrect, PTL DEF Spec

----------------------------------------------------------------------------
\* Nothing ever waits for itself: an update is refused if it would, a merge
\* and an import drop the edges that would, a delete only removes edges.
THEOREM NothingWaitsForItself == Spec => []BlocksAcyclic
<1>1. Init => BlocksAcyclic
    BY DEF Init, BlocksAcyclic, Acyclic
<1>2. TypeOK /\ BlocksAcyclic /\ [Next]_vars => BlocksAcyclic'
    <2> SUFFICES ASSUME TypeOK, BlocksAcyclic, [Next]_vars PROVE BlocksAcyclic'
        OBVIOUS
    <2>0. blocks \in Graphs /\ Acyclic(blocks)
        BY DEF TypeOK, BlocksAcyclic
    <2>1. ASSUME NEW i \in Ids, NEW patch \in Patches, Update(i, patch)
          PROVE  BlocksAcyclic'
        <3>1. CASE patch.blocks = None
            BY <2>0, <2>1, <3>1 DEF Update, BlocksAcyclic
        <3>2. CASE patch.blocks # None
            <4>1. /\ BlocksAccepted(blocks, i, patch.blocks)
                  /\ blocks' = [blocks EXCEPT ![i] = patch.blocks]
                BY <2>1, <3>2 DEF Update
            <4>2. patch.blocks \in SUBSET Ids
                BY <3>2 DEF PatchType
            <4>3. QED
                BY <2>0, <4>1, <4>2, AcceptedWriteAcyclic DEF BlocksAcyclic
        <3>3. QED
            BY <3>1, <3>2
    <2>2. ASSUME NEW loser \in Ids, NEW survivor \in Ids, NEW mode \in MergeModes,
                 Merge(loser, survivor, mode)
          PROVE  BlocksAcyclic'
        BY <2>2, MergeRelations DEF BlocksAcyclic
    <2>3. ASSUME NEW i \in Ids, Delete(i)
          PROVE  BlocksAcyclic'
        <3>1. blocks' = WithoutIdea(blocks, i)
            BY <2>3 DEF Delete
        <3>2. WithoutIdea(blocks, i) \in Graphs
            BY <2>0 DEF WithoutIdea, Graphs
        <3>3. \A j \in Ids : WithoutIdea(blocks, i)[j] \subseteq blocks[j]
            BY DEF WithoutIdea
        <3>4. QED
            BY <2>0, <3>1, <3>2, <3>3, FewerEdgesAcyclic DEF BlocksAcyclic
    <2>4. ASSUME NEW s \in Sources, Import(s)
          PROVE  BlocksAcyclic'
        BY <2>4, ImportRelations DEF BlocksAcyclic
    <2>5. ASSUME blocks' = blocks
          PROVE  BlocksAcyclic'
        BY <2>0, <2>5 DEF BlocksAcyclic
    <2>6. QED
        BY <2>1, <2>2, <2>3, <2>4, <2>5
           DEF Next, vars, relationVars, Create, Move, Decline, Deliver, Triage,
               FollowUp, Restore, Reorder
<1>3. QED
    BY <1>1, <1>2, TypeCorrect, PTL DEF Spec

----------------------------------------------------------------------------
(* The numbers.  A deleted row's number is forgotten and never reissued:   *)
(* the sequence alone grows, so the bound holds of every id at once.       *)

NumbersBounded == \A i \in Ids : number[i] <= ideaSequence

\* No number, of a row or of a deleted one, is past the sequence.
LEMMA NumbersInvariant == Spec => []NumbersBounded
<1>1. Init => NumbersBounded
    BY DEF Init, NumbersBounded
<1>2. TypeOK /\ NumbersBounded /\ [Next]_vars => NumbersBounded'
    <2> SUFFICES ASSUME TypeOK, NumbersBounded, [Next]_vars PROVE NumbersBounded'
        OBVIOUS
    <2>0. /\ number \in [Ids -> Nat] /\ ideaSequence \in Nat
          /\ \A i \in Ids : number[i] <= ideaSequence
        BY DEF TypeOK, NumbersBounded
    <2>1. ASSUME NEW i \in Ids, number' = [number EXCEPT ![i] = ideaSequence'],
                 ideaSequence' = ideaSequence + 1
          PROVE  NumbersBounded'
        BY <2>0, <2>1 DEF NumbersBounded
    <2>2. ASSUME NEW i \in Ids, Delete(i)
          PROVE  NumbersBounded'
        BY <2>0, <2>2 DEF Delete, NumbersBounded, counterVars
    <2>3. ASSUME NEW s \in Sources, Import(s)
          PROVE  NumbersBounded'
        <3> DEFINE rows == ImportOf[s]
                   numbers == {ideaSequence} \cup {rows[n].number : n \in DOMAIN rows}
        <3>1. /\ number' = Overlaid(rows, number, "number", 0)
              /\ ideaSequence' \in {n \in numbers : \A m \in numbers : m <= n}
            BY <2>3 DEF Import, SequenceAfterImport
        <3>3. \A i \in Ids : number'[i] \in numbers \/ number'[i] = number[i]
            BY <3>1, OverlaidValue
        <3>4. \A n \in DOMAIN rows : rows[n].number \in Nat
            <4>1. \A n \in DOMAIN rows : rows[n] \in ImportRow
                OBVIOUS
            <4>2. QED
                BY <4>1 DEF ImportRow
        <3>5. ideaSequence' \in Nat /\ \A m \in numbers : m <= ideaSequence'
            BY <2>0, <3>1, <3>4
        <3>6. ideaSequence <= ideaSequence'
            BY <3>5
        <3> HIDE DEF numbers
        <3>7. \A i \in Ids : number'[i] <= ideaSequence'
            BY <2>0, <3>3, <3>5, <3>6
        <3>8. QED
            BY <3>7 DEF NumbersBounded
    <2>4. ASSUME number' = number, ideaSequence' = ideaSequence
          PROVE  NumbersBounded'
        BY <2>0, <2>4 DEF NumbersBounded
    <2>5. ASSUME NEW i \in Ids, NEW w \in Workspaces, NEW r \in Ranks \cup {0},
                 Create(i, w, r)
          PROVE  NumbersBounded'
        BY <2>1, <2>5 DEF Create, NextNumber
    <2>6. ASSUME NEW i \in Ids, NEW child \in Ids, FollowUp(i, child)
          PROVE  NumbersBounded'
        BY <2>1, <2>6 DEF FollowUp, NextNumber
    <2>7. QED
        BY <2>2, <2>3, <2>4, <2>5, <2>6
           DEF Next, vars, counterVars, Update, Move, Decline, Deliver, Triage,
               Merge, Restore, Reorder
<1>3. QED
    BY <1>1, <1>2, TypeCorrect, PTL DEF Spec

\* Every number on the board was issued by the sequence, imports included.
THEOREM NumbersWereIssued == Spec => []NumbersIssued
<1>1. NumbersBounded => NumbersIssued
    BY DEF NumbersBounded, NumbersIssued, Live
<1>2. QED
    BY <1>1, NumbersInvariant, PTL

\* A capture or a follow-up gets a number no row of the board carries, even
\* after deletes and after imports that brought their own numbers.
THEOREM NewNumbersAreFresh == Spec => NewNumberFresh
<1> DEFINE Fresh == \/ \A i \in Live' \ Live, j \in Live : number'[i] # number[j]
                    \/ \E s \in Sources : Import(s)
<1>1. TypeOK /\ NumbersBounded /\ [Next]_vars => [Fresh]_vars
    <2> SUFFICES ASSUME TypeOK, NumbersBounded, [Next]_vars,
                        \A s \in Sources : ~Import(s),
                        NEW i \in Live' \ Live, NEW j \in Live
                 PROVE  number'[i] # number[j]
        OBVIOUS
    <2>0. /\ number \in [Ids -> Nat] /\ ideaSequence \in Nat
          /\ i \in Ids /\ j \in Ids /\ number[j] <= ideaSequence
        BY DEF TypeOK, NumbersBounded, Live
    <2>1. ASSUME NEW k \in Ids, Live' = Live \cup {k},
                 number' = [number EXCEPT ![k] = ideaSequence'],
                 ideaSequence' = ideaSequence + 1
          PROVE  number'[i] # number[j]
        <3>1. i = k
            BY <2>1
        <3>2. QED
            BY <2>0, <2>1, <3>1
    <2>2. ASSUME NEW k \in Ids, NEW w \in Workspaces, NEW r \in Ranks \cup {0},
                 Create(k, w, r)
          PROVE  number'[i] # number[j]
        BY <2>1, <2>2, RowsAfterStep DEF Create, NextNumber
    <2>3. ASSUME NEW k \in Ids, NEW child \in Ids, FollowUp(k, child)
          PROVE  number'[i] # number[j]
        BY <2>1, <2>3, RowsAfterStep DEF FollowUp, NextNumber
    <2>4. ASSUME NEW k \in Ids, Delete(k)
          PROVE  FALSE
        BY <2>4, RowsAfterStep
    <2>5. ASSUME place' = place
          PROVE  FALSE
        BY <2>5, RowsAfterStep
    <2>6. QED
        BY <2>2, <2>3, <2>4, <2>5
           DEF Next, vars, Update, Move, Decline, Deliver, Triage, Merge,
               Restore, Reorder
<1>2. NewNumberFresh <=> [][Fresh]_vars
    BY DEF NewNumberFresh
<1>3. QED
    BY <1>1, <1>2, TypeCorrect, NumbersInvariant, PTL DEF Spec

----------------------------------------------------------------------------
(* Both endpoints of relatesTo.  Where the cap is wide enough for every    *)
(* other row it never cuts a mirror edge; where it is not, it does.        *)

\* A set of ids that misses one is smaller than the set of all ids.
LEMMA FewerThanAll ==
    ASSUME NEW S \in SUBSET Ids, NEW a \in Ids \ S
    PROVE  Cardinality(S) < Cardinality(Ids)
<1>1. Cardinality(Ids \ {a}) = Cardinality(Ids) - 1
    BY FS_RemoveElement
<1>2. Cardinality(S) <= Cardinality(Ids \ {a})
    BY FS_RemoveElement, FS_Subset
<1>3. Cardinality(S) \in Nat /\ Cardinality(Ids) \in Nat
    BY CountInNat
<1>4. QED
    BY <1>1, <1>2, <1>3

\* The second repair pass mirrors every edge when no list can be full.
LEMMA WideCapMirrors ==
    ASSUME NEW graph \in Graphs, NEW index \in [Ids -> Nat],
           RelationLimit >= Cardinality(Ids)
    PROVE  Symmetric(Symmetrized(graph, index))
<1> DEFINE gain(j) == {a \in Ids : j \in graph[a]} \ graph[j]
           before(j, a) == {b \in gain(j) : index[b] < index[a]}
<1>1. ASSUME NEW j \in Ids, NEW a \in gain(j)
      PROVE  Cardinality(before(j, a)) < RelationLimit - Cardinality(graph[j])
    <2>1. before(j, a) \in SUBSET Ids /\ graph[j] \in SUBSET Ids
        BY DEF Graphs
    <2>2. /\ a \in Ids /\ a \notin before(j, a) \cup graph[j]
          /\ before(j, a) \cap graph[j] = {}
        OBVIOUS
    <2> HIDE DEF before, gain
    <2>3. Cardinality(before(j, a) \cup graph[j]) < Cardinality(Ids)
        BY <2>1, <2>2, FewerThanAll
    <2>4. IsFiniteSet(before(j, a)) /\ IsFiniteSet(graph[j])
        BY <2>1, FS_Subset
    <2>5. Cardinality(before(j, a) \cup graph[j])
              = Cardinality(before(j, a)) + Cardinality(graph[j])
                    - Cardinality(before(j, a) \cap graph[j])
        BY <2>4, FS_Union
    <2>6. Cardinality(before(j, a) \cap graph[j]) = 0
        BY <2>2, FS_EmptySet
    <2>7. /\ Cardinality(before(j, a)) \in Nat /\ Cardinality(graph[j]) \in Nat
          /\ Cardinality(Ids) \in Nat
        BY <2>1, CountInNat
    <2>8. QED
        BY <2>3, <2>5, <2>6, <2>7
<1>2. \A j \in Ids : Symmetrized(graph, index)[j] = graph[j] \cup gain(j)
    BY <1>1 DEF Symmetrized
<1>3. \A j \in Ids : graph[j] \cup gain(j) = {a \in Ids : a \in graph[j] \/ j \in graph[a]}
    BY DEF Graphs
<1> HIDE DEF gain
<1>4. QED
    BY <1>2, <1>3 DEF Symmetric

\* Each relatesTo edge appears on both endpoints, provided the cap is at
\* least the number of ids; under a smaller cap a mirror edge may not fit.
THEOREM RelatesStaySymmetric ==
    ASSUME RelationLimit >= Cardinality(Ids)
    PROVE  Spec => []RelatesSymmetric
<1>1. Init => RelatesSymmetric
    BY DEF Init, RelatesSymmetric, Symmetric
<1>2. TypeOK /\ TypeOK' /\ RelatesSymmetric /\ [Next]_vars => RelatesSymmetric'
    <2> SUFFICES ASSUME TypeOK, TypeOK', RelatesSymmetric, [Next]_vars
                 PROVE  RelatesSymmetric'
        OBVIOUS
    <2>0. /\ relatesTo \in Graphs /\ Live \in SUBSET Ids /\ Symmetric(relatesTo)
          /\ place \in [Ids -> Nat] /\ place' \in [Ids -> Nat]
        BY DEF TypeOK, RelatesSymmetric, Live
    <2>1. ASSUME NEW i \in Ids, NEW patch \in Patches, Update(i, patch)
          PROVE  RelatesSymmetric'
        <3>1. CASE patch.relatesTo = None
            BY <2>0, <2>1, <3>1 DEF Update, RelatesSymmetric
        <3>2. CASE patch.relatesTo # None
            <4> DEFINE T == patch.relatesTo
            <4>1. relatesTo' = WithRelatesTo(relatesTo, i, T) /\ i \notin T
                BY <2>1, <3>2 DEF Update, LegalTargets
            <4>2. T \in SUBSET Ids
                BY <3>2 DEF PatchType
            <4> HIDE DEF T
            <4>3. ASSUME NEW j \in Ids \ {i}
                  PROVE  Cardinality(relatesTo[j] \ {i}) < RelationLimit
                <5>1. relatesTo[j] \ {i} \in SUBSET Ids
                    BY <2>0 DEF Graphs
                <5>2. Cardinality(relatesTo[j] \ {i}) < Cardinality(Ids)
                    BY <5>1, FewerThanAll
                <5>3. Cardinality(relatesTo[j] \ {i}) \in Nat /\ Cardinality(Ids) \in Nat
                    BY <5>1, CountInNat
                <5>4. QED
                    BY <5>2, <5>3
            <4>4. \A j \in Ids : relatesTo'[j] =
                     IF j = i THEN T
                     ELSE IF j \in T THEN (relatesTo[j] \ {i}) \cup {i}
                     ELSE relatesTo[j] \ {i}
                <5>1. ASSUME NEW j \in Ids
                      PROVE  relatesTo'[j] =
                                 IF j = i THEN T
                                 ELSE IF j \in T THEN (relatesTo[j] \ {i}) \cup {i}
                                 ELSE relatesTo[j] \ {i}
                    <6>1. CASE j = i
                        BY <4>1, <6>1 DEF WithRelatesTo
                    <6>2. CASE j # i
                        <7>1. Cardinality(relatesTo[j] \ {i}) < RelationLimit
                            BY <4>3, <6>2
                        <7>2. QED
                            BY <4>1, <6>2, <7>1 DEF WithRelatesTo
                    <6>3. QED
                        BY <6>1, <6>2
                <5>2. QED
                    BY <5>1
            <4>5. ASSUME NEW x \in Ids, NEW y \in Ids, y \in relatesTo'[x]
                  PROVE  x \in relatesTo'[y]
                <5>1. y \in relatesTo[x] => x \in relatesTo[y]
                    BY <2>0 DEF Symmetric
                <5>2. CASE x = i
                    BY <4>1, <4>4, <4>5, <5>2
                <5>3. CASE x # i
                    BY <4>1, <4>4, <4>5, <5>1, <5>3
                <5>4. QED
                    BY <5>2, <5>3
            <4>6. QED
                BY <4>5 DEF RelatesSymmetric, Symmetric
        <3>3. QED
            BY <3>1, <3>2
    <2>2. ASSUME NEW loser \in Ids, NEW survivor \in Ids, NEW mode \in MergeModes,
                 Merge(loser, survivor, mode)
          PROVE  RelatesSymmetric'
        <3>1. PICK merged \in MergedGraphs(relatesTo, loser, survivor) :
                  relatesTo' = Symmetrized(Cleaned(merged, Live), place)
            BY <2>2 DEF Merge
        <3>2. Cleaned(merged, Live) \in Graphs
            BY <2>0, MergedGraphsType, CleanedProper
        <3>3. QED
            BY <2>0, <3>1, <3>2, WideCapMirrors DEF RelatesSymmetric
    <2>3. ASSUME NEW i \in Ids, Delete(i)
          PROVE  RelatesSymmetric'
        BY <2>0, <2>3 DEF Delete, WithoutIdea, RelatesSymmetric, Symmetric
    <2>4. ASSUME NEW s \in Sources, Import(s)
          PROVE  RelatesSymmetric'
        <3> DEFINE known == Live \cup IdsOf(ImportOf[s])
                   related == Overlaid(ImportOf[s], relatesTo, "relatesTo", {})
        <3>1. relatesTo' = Symmetrized(Cleaned(related, known), place')
            BY <2>4 DEF Import
        <3>2. known \in SUBSET Ids /\ related \in Graphs
            BY <2>0, ImportedIds, OverlaidGraph
        <3> HIDE DEF known, related
        <3>3. Cleaned(related, known) \in Graphs
            BY <3>2, CleanedProper
        <3>4. QED
            BY <2>0, <3>1, <3>3, WideCapMirrors DEF RelatesSymmetric
    <2>5. ASSUME relatesTo' = relatesTo
          PROVE  RelatesSymmetric'
        BY <2>0, <2>5 DEF RelatesSymmetric
    <2>6. QED
        BY <2>1, <2>2, <2>3, <2>4, <2>5
           DEF Next, vars, relationVars, Create, Move, Decline, Deliver, Triage,
               FollowUp, Restore, Reorder
<1>3. QED
    BY <1>1, <1>2, TypeCorrect, PTL DEF Spec

----------------------------------------------------------------------------
\* A row of the board had its id minted: a capture never takes a live id.
LiveMinted == Live \subseteq minted

\* Every verb gives new rows ids that were not there.
LEMMA StepMints ==
    ASSUME TypeOK, LiveMinted, [Next]_vars
    PROVE  LiveMinted'
<1>1. ASSUME Live' \subseteq Live, minted' = minted
      PROVE  LiveMinted'
    BY <1>1 DEF LiveMinted
<1>2. ASSUME NEW i \in Ids, NEW w \in Workspaces, NEW r \in Ranks \cup {0},
             Create(i, w, r)
      PROVE  LiveMinted'
    BY <1>2, RowsAfterStep DEF Create, LiveMinted
<1>3. ASSUME NEW i \in Ids, NEW child \in Ids, FollowUp(i, child)
      PROVE  LiveMinted'
    BY <1>3, RowsAfterStep DEF FollowUp, LiveMinted
<1>4. ASSUME NEW i \in Ids, Delete(i)
      PROVE  LiveMinted'
    BY <1>1, <1>4, RowsAfterStep DEF Delete, counterVars
<1>5. ASSUME NEW s \in Sources, Import(s)
      PROVE  LiveMinted'
    <2>1. \A i \in Ids \ (Live \cup IdsOf(ImportOf[s])) : place'[i] = place[i]
        BY <1>5 DEF Import, PlaceAfterImport
    <2>2. Live' \subseteq Live \cup IdsOf(ImportOf[s])
        BY <2>1 DEF Live
    <2>3. QED
        BY <1>5, <2>2 DEF Import, LiveMinted
<1>6. ASSUME place' = place, minted' = minted
      PROVE  LiveMinted'
    BY <1>1, <1>6, RowsAfterStep
<1>7. QED
    BY <1>2, <1>3, <1>4, <1>5, <1>6
       DEF Next, vars, counterVars, Update, Move, Decline, Deliver, Triage,
           Merge, Restore, Reorder

\* Every row of the board has an id that was minted.
LEMMA MintedInvariant == Spec => []LiveMinted
<1>1. Init => LiveMinted
    BY DEF Init, LiveMinted, Live
<1>2. TypeOK /\ LiveMinted /\ [Next]_vars => LiveMinted'
    BY StepMints
<1>3. QED
    BY <1>1, <1>2, TypeCorrect, PTL DEF Spec

\* No merge or follow-up makes an idea its own parent, when no imported row
\* comes as its own parent.
THEOREM NobodyIsItsOwnParent ==
    ASSUME \A s \in Sources : \A n \in DOMAIN ImportOf[s] :
              ImportOf[s][n].parent # ImportOf[s][n].id
    PROVE  Spec => []NoSelfParent
<1>1. Init => NoSelfParent
    BY DEF Init, NoSelfParent
<1>2. TypeOK /\ LiveMinted /\ NoSelfParent /\ [Next]_vars => NoSelfParent'
    <2> SUFFICES ASSUME TypeOK, LiveMinted, NoSelfParent, [Next]_vars PROVE NoSelfParent'
        OBVIOUS
    <2>0. parent \in [Ids -> Ids \cup {None}] /\ \A i \in Ids : parent[i] # i
        BY DEF TypeOK, NoSelfParent
    <2>1. ASSUME NEW i \in Ids, NEW child \in Ids, FollowUp(i, child)
          PROVE  NoSelfParent'
        <3>1. parent' = [parent EXCEPT ![child] = i]
            BY <2>1 DEF FollowUp
        <3>2. i # child
            BY <2>1 DEF FollowUp, LiveMinted
        <3>3. QED
            BY <2>0, <3>1, <3>2 DEF NoSelfParent
    <2>2. ASSUME NEW loser \in Ids, NEW survivor \in Ids, NEW mode \in MergeModes,
                 Merge(loser, survivor, mode)
          PROVE  NoSelfParent'
        BY <2>0, <2>2 DEF Merge, MergedParents, InheritedParent, NoSelfParent
    <2>3. ASSUME NEW i \in Ids, Delete(i)
          PROVE  NoSelfParent'
        BY <2>0, <2>3 DEF Delete, NoSelfParent
    <2>4. ASSUME NEW s \in Sources, Import(s)
          PROVE  NoSelfParent'
        <3>1. parent' = Overlaid(ImportOf[s], parent, "parent", None)
            BY <2>4 DEF Import
        <3>2. \A i \in Ids : parent'[i] # i
            BY <2>0, <3>1, OverlaidValue
        <3>3. QED
            BY <3>2 DEF NoSelfParent
    <2>5. ASSUME parent' = parent
          PROVE  NoSelfParent'
        BY <2>0, <2>5 DEF NoSelfParent
    <2>6. QED
        BY <2>1, <2>2, <2>3, <2>4, <2>5
           DEF Next, vars, Create, Update, Move, Decline, Deliver, Triage,
               Restore, Reorder
<1>3. QED
    BY <1>1, <1>2, TypeCorrect, MintedInvariant, PTL DEF Spec

----------------------------------------------------------------------------
(* The order of the document.  The rows are numbered from 1 without a gap  *)
(* in the code, where a row's index is its number; here no two rows share  *)
(* a place and none is past the end, so that ties of rank are broken.      *)

PlacesDistinct ==
    \A i \in Live :
        /\ place[i] <= Cardinality(Live)
        /\ \A j \in Live : place[i] = place[j] => i = j

\* Some index of a set of them is the smallest.
LEMMA FirstIndex ==
    ASSUME NEW n \in Nat, NEW S \in SUBSET (1..n), S # {}
    PROVE  \E m \in S : \A k \in S : m <= k
<1>1. S \in SUBSET Nat
    OBVIOUS
<1>2. QED
    BY <1>1, LeastNumber

\* What comes up to an index grows with it.
LEMMA FewerUpTo ==
    ASSUME NEW S, IsFiniteSet(S), S \subseteq Int, NEW n \in S, NEW o \in S, n < o
    PROVE  Cardinality({m \in S : m <= n}) < Cardinality({m \in S : m <= o})
<1> DEFINE upTo(k) == {m \in S : m <= k}
<1>1. \A m \in S : m \in Int
    OBVIOUS
<1>2. \A m \in S : m <= n => m <= o
    BY <1>1
<1>3. o <= o /\ ~(o <= n)
    BY <1>1
<1>4. upTo(n) \in SUBSET upTo(o) /\ o \in upTo(o) \ upTo(n) /\ IsFiniteSet(upTo(o))
    BY <1>2, <1>3, FS_Subset
<1> HIDE DEF upTo
<1>5. Cardinality(upTo(n)) < Cardinality(upTo(o))
    BY <1>4, FewerInside
<1>6. QED
    BY <1>5 DEF upTo

\* An import puts the new rows after the others, each in a place of its own.
LEMMA ImportKeepsPlaces ==
    ASSUME TypeOK, PlacesDistinct, NEW s \in Sources, Import(s)
    PROVE  PlacesDistinct'
<1> DEFINE rows == ImportOf[s]
           new == IdsOf(rows) \ Live
           upTo(i) == {n \in Arrivals(rows) : \A m \in DOMAIN rows : rows[m].id = i => n <= m}
<1>1. /\ rows \in Seq(ImportRow) /\ DOMAIN rows = 1..Len(rows) /\ Len(rows) \in Nat
      /\ \A n \in DOMAIN rows : rows[n].id \in Ids
    <2>1. rows \in Seq(ImportRow)
        OBVIOUS
    <2> HIDE DEF rows
    <2>2. /\ DOMAIN rows = 1..Len(rows) /\ Len(rows) \in Nat
          /\ \A n \in DOMAIN rows : rows[n] \in ImportRow
        BY <2>1
    <2>3. \A row \in ImportRow : row.id \in Ids
        BY DEF ImportRow
    <2>4. QED
        BY <2>1, <2>2, <2>3
<1>2. /\ Live \in SUBSET Ids /\ new \in SUBSET Ids
      /\ IsFiniteSet(Live) /\ IsFiniteSet(new)
      /\ Cardinality(Live) \in Nat /\ Cardinality(new) \in Nat
    <2>1. Live \in SUBSET Ids /\ new \in SUBSET Ids
        BY ImportedIds DEF Live
    <2>2. QED
        BY <2>1, FS_Subset, CountInNat
<1>3. \A i \in Ids : place'[i] =
         IF i \in new THEN Cardinality(Live) + Cardinality(upTo(i)) ELSE place[i]
    BY DEF Import, PlaceAfterImport
<1>4. Arrivals(rows) \in SUBSET DOMAIN rows /\ IsFiniteSet(Arrivals(rows))
    <2>0. \A n \in Nat : IsFiniteSet(1..n)
        BY FS_Interval
    <2>1. IsFiniteSet(1..Len(rows))
        <3> HIDE DEF rows
        <3>1. QED
            BY <1>1, <2>0
    <2>2. QED
        BY <1>1, <2>1, FS_Subset DEF Arrivals
<1>5. Cardinality(Arrivals(rows)) <= Cardinality(new)
    <2> DEFINE idOf == [n \in Arrivals(rows) |-> rows[n].id]
    <2>1. \A n, m \in Arrivals(rows) : rows[n].id = rows[m].id => n = m
        <3>1. \A n, m \in Arrivals(rows) : n < m => rows[n].id # rows[m].id
            BY <1>4 DEF Arrivals
        <3>2. \A n, m \in Arrivals(rows) : n \in Int /\ m \in Int
            BY <1>1, <1>4
        <3>3. QED
            BY <3>1, <3>2
    <2>2. \A n \in Arrivals(rows) : rows[n].id \in new
        BY DEF Arrivals, IdsOf
    <2> HIDE DEF rows, new
    <2>3. idOf \in Injection(Arrivals(rows), new)
        BY <2>1, <2>2 DEF Injection, IsInjective
    <2>4. QED
        BY <1>2, <2>3, FS_Injection
<1>6. ASSUME NEW i \in new
      PROVE  \E n \in Arrivals(rows) : rows[n].id = i /\ upTo(i) = {m \in Arrivals(rows) : m <= n}
    <2> DEFINE ofI == {n \in DOMAIN rows : rows[n].id = i}
    <2>1. ofI \in SUBSET (1..Len(rows)) /\ ofI # {}
        BY <1>1, <1>6 DEF IdsOf
    <2>2. PICK n \in ofI : \A m \in ofI : n <= m
        <3> HIDE DEF ofI
        <3>1. QED
            BY <1>1, <2>1, FirstIndex
    <2>3. n \in Arrivals(rows)
        <3>1. n \in DOMAIN rows /\ rows[n].id = i
            BY <2>2
        <3>2. \A m \in DOMAIN rows : m < n => rows[m].id # i
            BY <1>1, <2>2
        <3>3. QED
            BY <1>6, <3>1, <3>2 DEF Arrivals
    <2>4. ASSUME NEW m \in Arrivals(rows)
          PROVE  m <= n <=> \A k \in DOMAIN rows : rows[k].id = i => m <= k
        <3>1. m \in Int /\ n \in Int /\ n \in DOMAIN rows /\ rows[n].id = i
              /\ \A k \in DOMAIN rows : k \in Int
            BY <1>1, <1>4, <2>2
        <3>2. \A k \in DOMAIN rows : rows[k].id = i => n <= k
            BY <2>2
        <3>3. QED
            BY <3>1, <3>2
    <2>5. QED
        BY <2>2, <2>3, <2>4
<1>7. \A i \in new : IsFiniteSet(upTo(i)) /\ upTo(i) \in SUBSET Arrivals(rows)
    BY <1>4, FS_Subset
<1>8. \A i \in new : Cardinality(upTo(i)) \in 1..Cardinality(new)
    <2> SUFFICES ASSUME NEW i \in new PROVE Cardinality(upTo(i)) \in 1..Cardinality(new)
        OBVIOUS
    <2>1. PICK n \in Arrivals(rows) : upTo(i) = {m \in Arrivals(rows) : m <= n}
        BY <1>6
    <2>2. n \in upTo(i)
        <3>1. n \in Int
            BY <1>1, <1>4
        <3>2. QED
            BY <2>1, <3>1
    <2> HIDE DEF upTo
    <2>3. Cardinality(upTo(i)) # 0 /\ Cardinality(upTo(i)) \in Nat
        BY <1>7, <2>2, FS_EmptySet, FS_CardinalityType
    <2>4. Cardinality(upTo(i)) <= Cardinality(Arrivals(rows)) /\ Cardinality(Arrivals(rows)) \in Nat
        BY <1>4, <1>7, FS_Subset, FS_CardinalityType
    <2>5. QED
        BY <1>2, <1>5, <2>3, <2>4
<1>9. ASSUME NEW i \in new, NEW j \in new, i # j
      PROVE  Cardinality(upTo(i)) # Cardinality(upTo(j))
    <2>1. PICK n \in Arrivals(rows) : rows[n].id = i /\ upTo(i) = {m \in Arrivals(rows) : m <= n}
        BY <1>6
    <2>2. PICK o \in Arrivals(rows) : rows[o].id = j /\ upTo(j) = {m \in Arrivals(rows) : m <= o}
        BY <1>6
    <2>3. n # o /\ n \in Int /\ o \in Int /\ \A m \in Arrivals(rows) : m \in Int
        BY <1>1, <1>4, <1>9, <2>1, <2>2
    <2>4. Arrivals(rows) \subseteq Int
        BY <2>3
    <2> HIDE DEF upTo, rows
    <2>5. CASE n < o
        <3>1. Cardinality(upTo(i)) < Cardinality(upTo(j))
            BY <1>4, <2>1, <2>2, <2>4, <2>5, FewerUpTo
        <3>2. QED
            BY <1>7, <3>1, FS_CardinalityType
    <2>6. CASE o < n
        <3>1. Cardinality(upTo(j)) < Cardinality(upTo(i))
            BY <1>4, <2>1, <2>2, <2>4, <2>6, FewerUpTo
        <3>2. QED
            BY <1>7, <3>1, FS_CardinalityType
    <2>7. QED
        BY <2>3, <2>5, <2>6
<1>10. Live' = Live \cup new /\ Cardinality(Live \cup new) = Cardinality(Live) + Cardinality(new)
    <2>1. Live' \subseteq Live \cup new
        BY <1>3 DEF Live
    <2>2. Live \cup new \subseteq Live'
        BY RowsAfterStep
    <2>3. Live \cap new = {}
        OBVIOUS
    <2> HIDE DEF new
    <2>4. Cardinality(Live \cup new) = Cardinality(Live) + Cardinality(new) - Cardinality(Live \cap new)
        BY <1>2, FS_Union
    <2>5. Cardinality(Live \cap new) = 0
        BY <2>3, FS_EmptySet
    <2>6. QED
        BY <1>2, <2>1, <2>2, <2>4, <2>5
<1>11. /\ place \in [Ids -> Nat]
       /\ \A i \in Live : place[i] <= Cardinality(Live) /\ i \notin new
       /\ \A i, j \in Live : place[i] = place[j] => i = j
    BY DEF TypeOK, PlacesDistinct
<1> HIDE DEF new, upTo
<1>12. ASSUME NEW i \in Live \cup new
       PROVE  place'[i] <= Cardinality(Live) + Cardinality(new)
    BY <1>2, <1>3, <1>8, <1>11
<1>13. ASSUME NEW i \in Live \cup new, NEW j \in Live \cup new, place'[i] = place'[j]
       PROVE  i = j
    <2>1. \A k \in Live : place'[k] = place[k] /\ place'[k] <= Cardinality(Live)
        BY <1>2, <1>3, <1>11
    <2>2. \A k \in new : /\ place'[k] = Cardinality(Live) + Cardinality(upTo(k))
                         /\ Cardinality(upTo(k)) \in Nat /\ place'[k] > Cardinality(Live)
        BY <1>2, <1>3, <1>8
    <2>3. CASE i \in Live /\ j \in Live
        BY <1>11, <1>13, <2>1, <2>3
    <2>4. CASE i \in new /\ j \in new
        BY <1>2, <1>9, <1>13, <2>2, <2>4
    <2>5. ~(i \in Live /\ j \in new) /\ ~(i \in new /\ j \in Live)
        BY <1>2, <1>11, <1>13, <2>1, <2>2
    <2>6. QED
        BY <2>3, <2>4, <2>5
<1>14. QED
    BY <1>10, <1>12, <1>13 DEF PlacesDistinct

\* Every verb leaves each row a place of its own.
LEMMA StepPlaces ==
    ASSUME TypeOK, LiveMinted, PlacesDistinct, [Next]_vars
    PROVE  PlacesDistinct'
<1>0. /\ place \in [Ids -> Nat] /\ Live \in SUBSET Ids
      /\ IsFiniteSet(Live) /\ Cardinality(Live) \in Nat
      /\ \A i \in Live : place[i] <= Cardinality(Live) /\ place[i] # 0
      /\ \A i, j \in Live : place[i] = place[j] => i = j
    <2>1. place \in [Ids -> Nat] /\ Live \in SUBSET Ids
        BY DEF TypeOK, Live
    <2>2. QED
        BY <2>1, FS_Subset, CountInNat DEF PlacesDistinct, Live
<1>1. ASSUME NEW i \in Ids, i \notin minted, Append1(i), Live' = Live \cup {i}
      PROVE  PlacesDistinct'
    <2>1. i \notin Live
        BY <1>1 DEF LiveMinted
    <2>2. Cardinality(Live') = Cardinality(Live) + 1
        BY <1>0, <1>1, <2>1, FS_AddElement
    <2>3. \A j \in Live : place'[j] = place[j] /\ place'[j] < place'[i] /\ j # i
        BY <1>0, <1>1, <2>1 DEF Append1
    <2>4. place'[i] = Cardinality(Live) + 1
        BY <1>0, <1>1 DEF Append1
    <2>5. QED
        BY <1>0, <1>1, <2>2, <2>3, <2>4 DEF PlacesDistinct
<1>2. ASSUME NEW i \in Ids, Delete(i)
      PROVE  PlacesDistinct'
    <2>1. Live' = Live \ {i} /\ i \in Live
        BY <1>2, RowsAfterStep DEF Delete
    <2>2. Cardinality(Live') = Cardinality(Live) - 1
        BY <1>0, <2>1, FS_RemoveElement
    <2>3. \A j \in Live \ {i} :
             place'[j] = IF place[j] > place[i] THEN place[j] - 1 ELSE place[j]
        BY <1>0, <1>2 DEF Delete
    <2>4. \A j \in Live \ {i} : place[j] # place[i]
        BY <1>0, <2>1
    <2>5. \A j \in Live \ {i} : place'[j] <= Cardinality(Live) - 1
        BY <1>0, <2>1, <2>3, <2>4
    <2>6. \A j, k \in Live \ {i} : place'[j] = place'[k] => place[j] = place[k]
        BY <1>0, <2>1, <2>3, <2>4
    <2>7. QED
        BY <1>0, <2>1, <2>2, <2>5, <2>6 DEF PlacesDistinct
<1>3. ASSUME place' = place
      PROVE  PlacesDistinct'
    BY <1>3, RowsAfterStep DEF PlacesDistinct
<1>4. ASSUME NEW i \in Ids, NEW w \in Workspaces, NEW r \in Ranks \cup {0},
             Create(i, w, r)
      PROVE  PlacesDistinct'
    BY <1>1, <1>4, RowsAfterStep DEF Create
<1>5. ASSUME NEW i \in Ids, NEW child \in Ids, FollowUp(i, child)
      PROVE  PlacesDistinct'
    BY <1>1, <1>5, RowsAfterStep DEF FollowUp
<1>6. QED
    BY <1>2, <1>3, <1>4, <1>5, ImportKeepsPlaces
       DEF Next, vars, Update, Move, Decline, Deliver, Triage, Merge,
           Restore, Reorder

\* No two rows of the document share a place.
LEMMA PlacesInvariant == Spec => []PlacesDistinct
<1>1. Init => PlacesDistinct
    BY DEF Init, PlacesDistinct, Live
<1>2. TypeOK /\ LiveMinted /\ PlacesDistinct /\ [Next]_vars => PlacesDistinct'
    BY StepPlaces
<1>3. QED
    BY <1>1, <1>2, TypeCorrect, MintedInvariant, PTL DEF Spec

----------------------------------------------------------------------------
(* The order of a group, and what an insertion makes of it.                *)

AheadOf(peers, j) == Cardinality({p \in peers : RankedBefore(p, j)})

\* The rows of the board are in a strict total order of ranks and places.
LEMMA RankedOrder ==
    ASSUME TypeOK, PlacesDistinct
    PROVE  /\ \A i, j, k \in Ids : RankedBefore(i, j) /\ RankedBefore(j, k) => RankedBefore(i, k)
           /\ \A i \in Ids : ~RankedBefore(i, i)
           /\ \A i, j \in Live : i = j \/ RankedBefore(i, j) \/ RankedBefore(j, i)
<1>1. rank \in [Ids -> Nat] /\ place \in [Ids -> Nat] /\ Live \subseteq Ids
    BY DEF TypeOK, Live
<1>2. \A i, j \in Live : place[i] = place[j] => i = j
    BY DEF PlacesDistinct
<1>3. QED
    BY <1>1, <1>2 DEF RankedBefore

\* The rows ahead of each of a set of rows, counted: from none to all others.
LEMMA AheadCounts ==
    ASSUME TypeOK, PlacesDistinct, NEW peers \in SUBSET Live
    PROVE  /\ Cardinality(peers) \in Nat
           /\ \A j \in peers : AheadOf(peers, j) \in 0..(Cardinality(peers) - 1)
           /\ \A i, j \in peers : RankedBefore(i, j) => AheadOf(peers, i) < AheadOf(peers, j)
<1> DEFINE ahead(j) == {p \in peers : RankedBefore(p, j)}
<1>1. peers \in SUBSET Ids /\ IsFiniteSet(peers)
    <2>1. peers \in SUBSET Ids
        BY DEF Live
    <2>2. QED
        BY <2>1, FS_Subset
<1>2. \A j \in peers : ahead(j) \in SUBSET peers /\ IsFiniteSet(ahead(j))
    BY <1>1, FS_Subset
<1>3. \A j \in peers : j \notin ahead(j)
    BY <1>1, RankedOrder
<1>4. \A i, j \in peers : RankedBefore(i, j) => ahead(i) \in SUBSET ahead(j) /\ i \in ahead(j) \ ahead(i)
    BY <1>1, <1>3, RankedOrder
<1>5. \A j : AheadOf(peers, j) = Cardinality(ahead(j))
    BY DEF AheadOf
<1> HIDE DEF ahead
<1>6. \A j \in peers : Cardinality(ahead(j)) \in Nat /\ Cardinality(ahead(j)) < Cardinality(peers)
    BY <1>1, <1>2, <1>3, FewerInside
<1>7. \A i, j \in peers : RankedBefore(i, j) => Cardinality(ahead(i)) < Cardinality(ahead(j))
    BY <1>2, <1>4, FewerInside
<1>8. Cardinality(peers) \in Nat
    BY <1>1, FS_CardinalityType
<1>9. QED
    BY <1>5, <1>6, <1>7, <1>8

\* The moved row lands at its position, the others keep their order around it,
\* and no other row is touched.
LEMMA RerankedOrder ==
    ASSUME TypeOK, PlacesDistinct, NEW moved \in Ids,
           NEW peers \in SUBSET (Live \ {moved}), NEW k \in Int
    PROVE  LET size == Cardinality(peers) + 1
               at == Clamped(k, 1, size)
               new == Reranked(moved, peers, k)
           IN  /\ size \in Nat /\ at \in 1..size /\ new[moved] = at
               /\ \A j \in peers : new[j] \in 1..size /\ new[j] # at
               /\ \A i, j \in peers : RankedBefore(i, j) => new[i] < new[j]
               /\ \A j \in Ids \ (peers \cup {moved}) : new[j] = rank[j]
<1> DEFINE size == Cardinality(peers) + 1
           at == Clamped(k, 1, size)
           new == Reranked(moved, peers, k)
<1>1. /\ Cardinality(peers) \in Nat
      /\ \A j \in peers : AheadOf(peers, j) \in 0..(Cardinality(peers) - 1)
      /\ \A i, j \in peers : RankedBefore(i, j) => AheadOf(peers, i) < AheadOf(peers, j)
    BY AheadCounts
<1>2. at \in 1..size
    BY <1>1 DEF Clamped
<1>3. \A j \in Ids : new[j] =
         IF j = moved THEN at
         ELSE IF j \notin peers THEN rank[j]
         ELSE IF AheadOf(peers, j) + 1 < at THEN AheadOf(peers, j) + 1 ELSE AheadOf(peers, j) + 2
    BY DEF Reranked, AheadOf
<1>4. \A j \in peers : j \in Ids /\ j # moved
    BY DEF Live
<1>s. size \in Nat /\ size = Cardinality(peers) + 1
    BY <1>1
<1> HIDE DEF size, at, new
<1>5. \A j \in peers : new[j] \in 1..size /\ new[j] # at
    BY <1>s, <1>1, <1>2, <1>3, <1>4
<1>6. \A i, j \in peers : RankedBefore(i, j) => new[i] < new[j]
    BY <1>1, <1>2, <1>3, <1>4
<1>7. \A j \in Ids \ (peers \cup {moved}) : new[j] = rank[j]
    BY <1>3
<1>8. size \in Nat /\ new[moved] = at
    BY <1>s, <1>3
<1>9. QED
    BY <1>2, <1>5, <1>6, <1>7, <1>8 DEF size, at, new

\* A triage puts the idea where it was asked to among the open ideas of its
\* group, or as near as the group allows, and numbers the group from 1 without
\* a gap, whatever ranks it had: none, shared, or out of range.
THEOREM TriageLandsWhereAsked == Spec => TriageLands
<1> DEFINE Lands == \A i \in Ids, k \in TriageRanks : Triage(i, k) =>
                       LET group == OpenPeers(i) \cup {i}
                       IN  /\ rank'[i] = Clamped(k, 1, Cardinality(group))
                           /\ {rank'[j] : j \in group} = 1..Cardinality(group)
<1>1. TypeOK /\ PlacesDistinct /\ [Next]_vars => [Lands]_vars
    <2> SUFFICES ASSUME TypeOK, PlacesDistinct, NEW i \in Ids, NEW k \in TriageRanks, Triage(i, k)
                 PROVE  LET group == OpenPeers(i) \cup {i}
                        IN  /\ rank'[i] = Clamped(k, 1, Cardinality(group))
                            /\ {rank'[j] : j \in group} = 1..Cardinality(group)
        OBVIOUS
    <2> DEFINE peers == OpenPeers(i)
               group == peers \cup {i}
               size == Cardinality(peers) + 1
               at == Clamped(k, 1, size)
    <2>1. peers \in SUBSET (Live \ {i}) /\ k \in Int
        BY DEF OpenPeers
    <2>2. rank' = Reranked(i, peers, k)
        BY DEF Triage
    <2>3. /\ size \in Nat /\ at \in 1..size /\ rank'[i] = at
          /\ \A j \in peers : rank'[j] \in 1..size /\ rank'[j] # at
          /\ \A p, q \in peers : RankedBefore(p, q) => rank'[p] < rank'[q]
        <3> DEFINE new == Reranked(i, peers, k)
        <3> HIDE DEF peers
        <3>1. /\ size \in Nat /\ at \in 1..size /\ new[i] = at
              /\ \A j \in peers : new[j] \in 1..size /\ new[j] # at
            BY <2>1, RerankedOrder
        <3>2. \A p, q \in peers : RankedBefore(p, q) => new[p] < new[q]
            BY <2>1, RerankedOrder
        <3>3. rank' = new
            BY <2>2
        <3> HIDE DEF new, size, at
        <3>4. QED
            BY <3>1, <3>2, <3>3
    <2>4. IsFiniteSet(group) /\ Cardinality(group) = size
        <3>1. IsFiniteSet(peers)
            <4>1. peers \in SUBSET Ids
                BY <2>1 DEF Live
            <4>2. QED
                BY <4>1, FS_Subset
        <3>2. i \notin peers
            BY <2>1
        <3> HIDE DEF peers
        <3>3. QED
            BY <3>1, <3>2, FS_AddElement
    <2> HIDE DEF peers, at
    <2>5. \A p, q \in peers : rank'[p] = rank'[q] => p = q
        <3> SUFFICES ASSUME NEW p \in peers, NEW q \in peers, rank'[p] = rank'[q] PROVE p = q
            OBVIOUS
        <3>1. p = q \/ RankedBefore(p, q) \/ RankedBefore(q, p)
            BY <2>1, RankedOrder
        <3>2. rank'[p] \in Int /\ rank'[q] \in Int
            BY <2>3
        <3>3. QED
            BY <2>3, <3>1, <3>2
    <2>6. /\ \A p \in group : rank'[p] \in 1..size
          /\ \A p, q \in group : rank'[p] = rank'[q] => p = q
        BY <2>3, <2>5
    <2>7. {rank'[j] : j \in group} = 1..size
        <3> HIDE DEF group, size
        <3>1. QED
            BY <2>4, <2>6, NumberingIsOnto
    <2>8. QED
        BY <2>3, <2>4, <2>7 DEF at, peers
<1>2. TriageLands <=> [][Lands]_vars
    BY DEF TriageLands
<1>3. QED
    BY <1>1, <1>2, TypeCorrect, PlacesInvariant, PTL DEF Spec

\* Two rows of a group that an insertion leaves in one group stay in order.
LEMMA OthersKeepOrder ==
    ASSUME TypeOK, PlacesDistinct, NEW moved \in Ids,
           NEW peers \in SUBSET (Live \ {moved}), NEW k \in Int,
           rank' = Reranked(moved, peers, k), place' = place,
           NEW x \in Live \ {moved}, NEW y \in Live \ {moved}, x \in peers <=> y \in peers,
           RankedBefore(x, y)
    PROVE  RankedBefore(x, y)'
<1> DEFINE size == Cardinality(peers) + 1
<1>1. /\ size \in Nat
      /\ \A j \in peers : rank'[j] \in 1..size
      /\ \A i, j \in peers : RankedBefore(i, j) => rank'[i] < rank'[j]
      /\ \A j \in Ids \ (peers \cup {moved}) : rank'[j] = rank[j]
    BY RerankedOrder
<1>2. CASE x \in peers
    <2>1. y \in peers
        BY <1>2
    <2>2. rank'[x] < rank'[y] /\ rank'[x] \in 1..size
        BY <1>1, <1>2, <2>1
    <2>3. rank'[x] # 0
        BY <1>1, <2>2
    <2>4. QED
        BY <2>2, <2>3 DEF RankedBefore
<1>3. CASE x \notin peers
    <2>1. rank'[x] = rank[x] /\ rank'[y] = rank[y]
        BY <1>1, <1>3 DEF Live
    <2>2. QED
        BY <2>1 DEF RankedBefore
<1>4. QED
    BY <1>2, <1>3

\* A triage or a merge moves one idea at most: any two others of a group keep
\* their order, although the whole group is renumbered.
THEOREM OneIdeaMovesAtMost == Spec => OneIdeaMoves
<1> DEFINE Keeps(mover) == \A i, j \in Live \ {mover} :
                              SameGroup(i, j) /\ SameGroup(i, j)' /\ RankedBefore(i, j)
                                 => RankedBefore(i, j)'
           Moves == \/ \E mover \in Ids : Keeps(mover)
                    \/ ~ \/ \E i \in Ids, k \in TriageRanks : Triage(i, k)
                         \/ \E i, j \in Ids, mode \in MergeModes : Merge(i, j, mode)
<1>1. TypeOK /\ PlacesDistinct /\ [Next]_vars => [Moves]_vars
    <2> SUFFICES ASSUME TypeOK, PlacesDistinct PROVE Moves
        OBVIOUS
    <2>1. ASSUME NEW i \in Ids, NEW k \in TriageRanks, Triage(i, k)
          PROVE  Keeps(i)
        <3> SUFFICES ASSUME NEW x \in Live \ {i}, NEW y \in Live \ {i},
                            SameGroup(x, y), RankedBefore(x, y)
                     PROVE  RankedBefore(x, y)'
            OBVIOUS
        <3>1. OpenPeers(i) \in SUBSET (Live \ {i}) /\ k \in Int
            BY DEF OpenPeers
        <3>2. rank' = Reranked(i, OpenPeers(i), k) /\ place' = place
            BY <2>1 DEF Triage
        <3>3. x \in OpenPeers(i) <=> y \in OpenPeers(i)
            BY DEF OpenPeers, SameGroup
        <3>4. QED
            BY <3>1, <3>2, <3>3, OthersKeepOrder
    <2>2. ASSUME NEW i \in Ids, NEW j \in Ids, NEW mode \in MergeModes, Merge(i, j, mode)
          PROVE  Keeps(j)
        <3> SUFFICES ASSUME NEW x \in Live \ {j}, NEW y \in Live \ {j},
                            SameGroup(x, y), SameGroup(x, y)', RankedBefore(x, y)
                     PROVE  RankedBefore(x, y)'
            OBVIOUS
        <3>1. place' = place /\ rank' = MergedRanks(i, j, mode) /\ i \in Ids
              /\ status' = [status EXCEPT ![i] = "archived"]
            BY <2>2 DEF Merge
        <3>2. CASE rank' = rank
            BY <3>1, <3>2 DEF RankedBefore
        <3>3. CASE rank' = Reranked(j, OpenPeers(j) \ {i}, rank[i])
            <4>1. OpenPeers(j) \ {i} \in SUBSET (Live \ {j}) /\ rank[i] \in Int
                BY DEF OpenPeers, TypeOK
            <4>2. /\ status' [i] = "archived"
                  /\ \A z \in Ids \ {i} : status'[z] = status[z]
                BY <3>1 DEF TypeOK
            <4>3. x \in Ids /\ y \in Ids
                BY DEF Live
            <4>4. x \in OpenPeers(j) \ {i} <=> y \in OpenPeers(j) \ {i}
                BY <4>2, <4>3 DEF OpenPeers, SameGroup
            <4>5. QED
                BY <3>1, <3>3, <4>1, <4>4, OthersKeepOrder
        <3>4. QED
            BY <3>1, <3>2, <3>3 DEF MergedRanks
    <2>3. QED
        BY <2>1, <2>2
<1>2. OneIdeaMoves <=> [][Moves]_vars
    BY DEF OneIdeaMoves
<1>3. QED
    BY <1>1, <1>2, TypeCorrect, PlacesInvariant, PTL DEF Spec

\* A reorder shows each group it lists in the order that was sent, although one
\* list may hold rows of many groups, and touches no group it does not list.
THEOREM ReordersAreHonoured == Spec => ReorderHonoured
<1> DEFINE Honoured == \A order \in Orderings : Reorder(order) =>
              /\ \A i, j \in DOMAIN order :
                    SameGroup(i, j) /\ order[i] < order[j] => RankedBefore(i, j)'
              /\ \A i \in Live : (\A j \in DOMAIN order : ~SameGroup(i, j))
                    => rank'[i] = rank[i]
<1>1. [Next]_vars => [Honoured]_vars
    <2> SUFFICES ASSUME NEW order \in Orderings, Reorder(order)
                 PROVE  /\ \A i, j \in DOMAIN order :
                              SameGroup(i, j) /\ order[i] < order[j] => RankedBefore(i, j)'
                        /\ \A i \in Live : (\A j \in DOMAIN order : ~SameGroup(i, j))
                              => rank'[i] = rank[i]
        OBVIOUS
    <2>1. PICK S \in SUBSET Live : order \in [S -> 1..Cardinality(S)]
        BY DEF Orderings
    <2>2. S \in SUBSET Ids /\ IsFiniteSet(S) /\ DOMAIN order = S /\ \A i \in S : order[i] \in Int
        <3>1. S \in SUBSET Ids
            BY <2>1 DEF Live
        <3>2. Cardinality(S) \in Nat
            BY <3>1, CountInNat
        <3>3. QED
            BY <2>1, <3>1, <3>2, FS_Subset
    <2>3. \A i \in Ids : rank'[i] = IF i \in S THEN PositionIn(order, i) ELSE rank[i]
        BY <2>2 DEF Reorder, ReorderedRanks
    <2>4. ASSUME NEW i \in S, NEW j \in S, SameGroup(i, j), order[i] < order[j]
          PROVE  RankedBefore(i, j)'
        <3> DEFINE upTo(x) == {y \in S : SameGroup(x, y) /\ order[y] <= order[x]}
        <3>1. upTo(i) \in SUBSET upTo(j)
            BY <2>2, <2>4 DEF SameGroup
        <3>2. j \in upTo(j) \ upTo(i) /\ i \in upTo(i)
            BY <2>2, <2>4 DEF SameGroup
        <3>3. /\ PositionIn(order, i) = Cardinality(upTo(i))
              /\ PositionIn(order, j) = Cardinality(upTo(j))
            BY <2>2 DEF PositionIn
        <3>4. IsFiniteSet(upTo(i)) /\ IsFiniteSet(upTo(j))
            BY <2>2, FS_Subset
        <3> HIDE DEF upTo
        <3>5. /\ Cardinality(upTo(i)) < Cardinality(upTo(j))
              /\ Cardinality(upTo(i)) \in Nat
            BY <3>1, <3>2, <3>4, FewerInside
        <3>6. Cardinality(upTo(i)) # 0
            BY <3>2, <3>4, FS_EmptySet
        <3>7. QED
            BY <2>2, <2>3, <3>3, <3>5, <3>6 DEF RankedBefore
    <2>5. ASSUME NEW i \in Live, \A j \in S : ~SameGroup(i, j)
          PROVE  rank'[i] = rank[i]
        BY <2>3, <2>5 DEF SameGroup, Live
    <2>6. QED
        BY <2>2, <2>4, <2>5
<1>2. ReorderHonoured <=> [][Honoured]_vars
    BY DEF ReorderHonoured
<1>3. QED
    BY <1>1, <1>2, PTL DEF Spec

----------------------------------------------------------------------------
(* What a merge leaves of the loser: nobody names it, and it names whom it *)
(* named.                                                                  *)

\* Re-pointed lists name the loser nowhere, and leave the loser's own alone.
LEMMA MergedGraphsFold ==
    ASSUME NEW graph \in Graphs, NEW live \in SUBSET Ids, Proper(graph, live),
           NEW loser \in Ids, NEW survivor \in Ids, loser # survivor,
           NEW merged \in MergedGraphs(graph, loser, survivor)
    PROVE  /\ merged[loser] = graph[loser]
           /\ \A i \in Ids : loser \notin merged[i]
<1> DEFINE moved == [i \in Ids |-> Repointed(graph[i], i, loser, survivor)]
<1>1. PICK list \in CappedUnion(moved[survivor], moved[loser]) :
          merged = [moved EXCEPT ![survivor] = list \ {survivor}]
    BY DEF MergedGraphs
<1>2. \A i \in Ids : loser \notin moved[i]
    BY DEF Repointed
<1>3. moved[loser] = graph[loser]
    <2>1. graph[loser] \in SUBSET Ids /\ loser \notin graph[loser]
        BY DEF Graphs, Proper
    <2>2. {IF x = loser THEN survivor ELSE x : x \in graph[loser]} = graph[loser]
        BY <2>1
    <2>3. QED
        BY <2>1, <2>2 DEF Repointed
<1>4. DOMAIN moved = Ids
    OBVIOUS
<1> HIDE DEF moved
<1>5. list \subseteq moved[survivor] \cup moved[loser]
    BY DEF CappedUnion
<1>6. \A i \in Ids : merged[i] = IF i = survivor THEN list \ {survivor} ELSE moved[i]
    BY <1>1, <1>4
<1>7. QED
    BY <1>2, <1>3, <1>5, <1>6

\* The repair leaves alone the list of a row that nobody names.
LEMMA UnnamedKeepsList ==
    ASSUME NEW graph \in Graphs, NEW kept \in Subgraphs(graph), NEW index,
           IsPruning(graph, kept, index),
           NEW a \in Ids, \A i \in Ids : a \notin graph[i]
    PROVE  kept[a] = graph[a]
<1> DEFINE current == [c \in Ids |-> IF index[c] < index[a] THEN kept[c] ELSE graph[c]]
           besides == Ids \ {a}
<1>1. kept[a] = {b \in graph[a] : ~ClosesCycle(current, a, b)}
    BY DEF IsPruning
<1>2. \A c \in Ids : kept[c] \subseteq graph[c]
    BY DEF Subgraphs
<1>3. \A c \in Ids : graph[c] \subseteq besides
    BY DEF Graphs
<1>4. \A c \in Ids : current[c] \subseteq besides
    BY <1>2, <1>3
<1> HIDE DEF current
<1>5. Closed(current, besides) /\ besides \in SUBSET Ids /\ a \notin besides
    BY <1>4 DEF Closed
<1>6. ASSUME NEW b \in graph[a]
      PROVE  ~ClosesCycle(current, a, b)
    <2>1. b \in besides
        BY <1>3
    <2>2. QED
        BY <1>5, <2>1 DEF ClosesCycle, Reaches
<1>7. QED
    BY <1>1, <1>6

\* A merge folds the loser in: it keeps every edge it stated, so restoring it
\* loses nothing, and no row waits for it any more.
THEOREM MergesFoldTheLoser == Spec => MergeFoldsLoser
<1> DEFINE Folds == \A loser \in Ids :
              \/ /\ blocks'[loser] = blocks[loser]
                 /\ relatesTo[loser] \subseteq relatesTo'[loser]
                 /\ \A i \in Ids : loser \notin blocks'[i]
              \/ \A survivor \in Ids, mode \in MergeModes : ~Merge(loser, survivor, mode)
<1>1. TypeOK /\ RelationsLive /\ [Next]_vars => [Folds]_vars
    <2> SUFFICES ASSUME TypeOK, RelationsLive, NEW loser \in Ids, NEW survivor \in Ids,
                        NEW mode \in MergeModes, Merge(loser, survivor, mode)
                 PROVE  /\ blocks'[loser] = blocks[loser]
                        /\ relatesTo[loser] \subseteq relatesTo'[loser]
                        /\ \A i \in Ids : loser \notin blocks'[i]
        OBVIOUS
    <2>1. /\ relatesTo \in Graphs /\ blocks \in Graphs /\ Live \in SUBSET Ids
          /\ Proper(relatesTo, Live) /\ Proper(blocks, Live)
          /\ loser \in Live /\ loser # survivor
        BY DEF TypeOK, RelationsLive, Live, Merge
    <2>2. \A graph \in Graphs : Proper(graph, Live) => (graph[loser] \cap Live) \ {loser} = graph[loser]
        BY <2>1 DEF Proper, Graphs
    <2>3. relatesTo[loser] \subseteq relatesTo'[loser]
        <3>1. PICK merged \in MergedGraphs(relatesTo, loser, survivor) :
                  relatesTo' = Symmetrized(Cleaned(merged, Live), place)
            BY DEF Merge
        <3>2. merged[loser] = relatesTo[loser]
            BY <2>1, MergedGraphsFold
        <3>3. Cleaned(merged, Live)[loser] = relatesTo[loser]
            BY <2>1, <2>2, <3>2 DEF Cleaned
        <3>4. QED
            BY <3>1, <3>3 DEF Symmetrized
    <2>4. PICK merged \in MergedGraphs(blocks, loser, survivor) :
              \E kept \in Subgraphs(Cleaned(merged, Live)) :
                 blocks' = kept /\ IsPruning(Cleaned(merged, Live), kept, place)
        BY DEF Merge
    <2> DEFINE graph == Cleaned(merged, Live)
    <2>5. blocks' \in Subgraphs(graph) /\ IsPruning(graph, blocks', place)
        BY <2>4
    <2>6. merged[loser] = blocks[loser] /\ \A i \in Ids : loser \notin merged[i]
        BY <2>1, MergedGraphsFold
    <2>7. merged \in Graphs /\ graph \in Graphs
        BY <2>1, MergedGraphsType, CleanedProper
    <2>8. graph[loser] = blocks[loser] /\ \A i \in Ids : loser \notin graph[i]
        BY <2>1, <2>2, <2>6 DEF Cleaned
    <2> HIDE DEF graph
    <2>9. blocks'[loser] = graph[loser]
        BY <2>5, <2>7, <2>8, UnnamedKeepsList
    <2>10. \A i \in Ids : blocks'[i] \subseteq graph[i]
        BY <2>5 DEF Subgraphs
    <2>11. QED
        BY <2>3, <2>8, <2>9, <2>10
<1>2. MergeFoldsLoser <=> [][Folds]_vars
    BY DEF MergeFoldsLoser
<1>3. QED
    BY <1>1, <1>2, TypeCorrect, RelationsStayLive, PTL DEF Spec

----------------------------------------------------------------------------
(* The lists of a board.                                                   *)

\* A board that the host may have answered with.
Fair(board) ==
    /\ board.place \in [Ids -> Nat]
    /\ board.status \in [Ids -> Statuses]
    /\ board.workspace \in [Ids -> Workspaces]
    /\ board.rank \in [Ids -> Nat]
    /\ \A i, j \in RowsOf(board) : board.place[i] = board.place[j] => i = j

\* By rank: the rows asked for, in the order that Ahead says.
LEMMA RankListed ==
    ASSUME NEW board, Fair(board), NEW S \in SUBSET RowsOf(board)
    PROVE  /\ Listing(ByRank(board, S), S)
           /\ \A i, j \in S : Ahead(board, i, j) <=> Precedes(ByRank(board, S), i, j)
<1> DEFINE before == [j \in S |-> {i \in S : Ahead(board, i, j)}]
<1>1. /\ \A i \in S : board.rank[i] \in Nat /\ board.place[i] \in Nat
      /\ \A i, j \in S : board.place[i] = board.place[j] => i = j
    BY DEF Fair, RowsOf
<1>2. S \in SUBSET Ids /\ IsFiniteSet(S)
    BY FS_Subset DEF RowsOf
<1>3. \A i \in S : ~Ahead(board, i, i)
    BY <1>1 DEF Ahead
<1>4. \A i, j \in S : i = j \/ Ahead(board, i, j) \/ Ahead(board, j, i)
    BY <1>1 DEF Ahead
<1>5. \A i, j, k \in S : Ahead(board, i, j) /\ Ahead(board, j, k) => Ahead(board, i, k)
    BY <1>1 DEF Ahead
<1>6. /\ before \in [S -> SUBSET S]
      /\ \A i, j \in S : i \in before[j] <=> Ahead(board, i, j)
    OBVIOUS
<1>7. ByRank(board, S) = Sorted(before)
    BY DEF ByRank
<1> HIDE DEF before
<1>8. \A i, j \in S : i \in before[j] => before[i] \subseteq before[j]
    BY <1>5, <1>6
<1>9. /\ Listing(Sorted(before), S)
      /\ \A i, j \in S : i \in before[j] <=> Precedes(Sorted(before), i, j)
    <2>1. /\ \A i \in S : i \notin before[i]
          /\ \A i, j \in S : i = j \/ i \in before[j] \/ j \in before[i]
        BY <1>3, <1>4, <1>6
    <2>2. QED
        BY <1>2, <1>6, <1>8, <2>1, SortedList
<1>10. QED
    BY <1>6, <1>7, <1>9

\* By date: the rows asked for.
LEMMA DateListed ==
    ASSUME NEW board, Fair(board), NEW S \in SUBSET RowsOf(board)
    PROVE  Listing(ByDate(board, S), S)
<1> DEFINE before == [j \in S |-> {i \in S : board.place[i] < board.place[j]}]
<1>1. /\ \A i \in S : board.place[i] \in Nat
      /\ \A i, j \in S : board.place[i] = board.place[j] => i = j
    BY DEF Fair, RowsOf
<1>2. S \in SUBSET Ids /\ IsFiniteSet(S)
    BY FS_Subset DEF RowsOf
<1>3. /\ before \in [S -> SUBSET S]
      /\ \A i, j \in S : i \in before[j] <=> board.place[i] < board.place[j]
    OBVIOUS
<1>4. ByDate(board, S) = Sorted(before)
    BY DEF ByDate
<1> HIDE DEF before
<1>5. /\ \A i \in S : i \notin before[i]
      /\ \A i, j \in S : i = j \/ i \in before[j] \/ j \in before[i]
      /\ \A i, j \in S : i \in before[j] => before[i] \subseteq before[j]
    <2>1. \A i, j, k \in S : board.place[i] < board.place[j] /\ board.place[j] < board.place[k]
             => board.place[i] < board.place[k]
        BY <1>1
    <2>2. \A i, j \in S : i = j \/ board.place[i] < board.place[j] \/ board.place[j] < board.place[i]
        BY <1>1
    <2>3. \A i \in S : ~(board.place[i] < board.place[i])
        BY <1>1
    <2>4. QED
        BY <1>3, <2>1, <2>2, <2>3
<1>6. QED
    BY <1>2, <1>3, <1>4, <1>5, SortedList

\* Turned about, a list holds the same rows.
LEMMA ReversedList ==
    ASSUME NEW S, NEW list, Listing(list, S)
    PROVE  Listing(Reverse(list), S)
<1> DEFINE size == Len(list)
           new == [n \in 1..size |-> list[size - n + 1]]
<1>1. /\ size \in Nat
      /\ \A n \in 1..size : list[n] \in S
      /\ \A m, n \in 1..size : list[m] = list[n] => m = n
      /\ \A x \in S : \E n \in 1..size : list[n] = x
    BY ListingMeans
<1>2. Reverse(list) = new
    BY DEF Reverse
<1> HIDE DEF size
<1>3. \A n \in 1..size : size - n + 1 \in 1..size /\ size - (size - n + 1) + 1 = n
    BY <1>1
<1>4. new \in [1..size -> S]
    BY <1>1, <1>3
<1>5. \A j, k \in 1..size : new[j] = new[k] => j = k
    <2> SUFFICES ASSUME NEW j \in 1..size, NEW k \in 1..size, new[j] = new[k] PROVE j = k
        OBVIOUS
    <2>1. list[size - j + 1] = list[size - k + 1]
        OBVIOUS
    <2>2. size - j + 1 = size - k + 1
        BY <1>1, <1>3, <2>1
    <2>3. QED
        BY <1>1, <2>2
<1>6. \A x \in S : \E k \in 1..size : new[k] = x
    <2> SUFFICES ASSUME NEW x \in S PROVE \E k \in 1..size : new[k] = x
        OBVIOUS
    <2>1. PICK n \in 1..size : list[n] = x
        BY <1>1
    <2> DEFINE k == size - n + 1
    <2>2. k \in 1..size /\ size - k + 1 = n
        BY <1>3
    <2> HIDE DEF k
    <2>3. new[k] = x
        BY <2>1, <2>2
    <2>4. QED
        BY <2>2, <2>3
<1> HIDE DEF new
<1>7. Listing(new, S)
    BY <1>1, <1>4, <1>5, <1>6, IsListing
<1>8. QED
    BY <1>2, <1>7

\* A column paints the rows it is given.
LEMMA PaintedListed ==
    ASSUME Fair(snap), NEW column, NEW S \in SUBSET RowsOf(snap)
    PROVE  Listing(Painted(column, S), S)
<1>1. Listing(ByRank(snap, S), S)
    BY RankListed
<1>2. Listing(ByDate(snap, S), S)
    BY DateListed
<1>3. Listing(Reverse(ByDate(snap, S)), S)
    BY <1>2, ReversedList
<1>4. QED
    BY <1>1, <1>2, <1>3 DEF Painted

\* The workspaces, each once.
LEMMA WorkspacesListed ==
    /\ Listing(WorkspaceOrder, Workspaces)
    /\ Len(WorkspaceOrder) \in Nat \ {0}
    /\ DOMAIN WorkspaceOrder = 1..Len(WorkspaceOrder)
    /\ \A n \in DOMAIN WorkspaceOrder : WorkspaceOrder[n] \in Workspaces
    /\ \A m, n \in DOMAIN WorkspaceOrder : WorkspaceOrder[m] = WorkspaceOrder[n] => m = n
    /\ \A w \in Workspaces : \E n \in DOMAIN WorkspaceOrder : WorkspaceOrder[n] = w
<1>1. Listing(WorkspaceOrder, Workspaces)
    BY OrderAssumption DEF Listing
<1>2. /\ Len(WorkspaceOrder) \in Nat
      /\ DOMAIN WorkspaceOrder = 1..Len(WorkspaceOrder)
      /\ \A n \in DOMAIN WorkspaceOrder : WorkspaceOrder[n] \in Workspaces
      /\ \A m, n \in DOMAIN WorkspaceOrder : WorkspaceOrder[m] = WorkspaceOrder[n] => m = n
      /\ \A w \in Workspaces : \E n \in DOMAIN WorkspaceOrder : WorkspaceOrder[n] = w
    BY <1>1, ListingMeans
<1>3. Len(WorkspaceOrder) # 0
    <2>1. PICK w : w \in Workspaces
        OBVIOUS
    <2>2. QED
        BY <1>2, <2>1
<1>4. QED
    BY <1>1, <1>2, <1>3

\* No row of a column is painted twice.
LEMMA ColumnListed ==
    ASSUME Fair(snap), NEW column \in Statuses
    PROVE  \E S \in SUBSET Ids : Listing(ColumnRows(column), S)
<1> DEFINE size == Len(WorkspaceOrder)
           sets == [n \in 1..size |-> shown \cap Members(snap, <<column, WorkspaceOrder[n]>>)]
           lists == [n \in 1..size |-> Painted(column, sets[n])]
<1>1. /\ size \in Nat \ {0} /\ DOMAIN WorkspaceOrder = 1..size
      /\ \A m, n \in 1..size : WorkspaceOrder[m] = WorkspaceOrder[n] => m = n
    BY WorkspacesListed
<1>2. \A n \in 1..size : sets[n] \in SUBSET RowsOf(snap)
    BY DEF Members
<1>3. \A n \in 1..size : Listing(lists[n], sets[n])
    <2> SUFFICES ASSUME NEW n \in 1..size PROVE Listing(lists[n], sets[n])
        OBVIOUS
    <2>1. lists[n] = Painted(column, sets[n])
        OBVIOUS
    <2>2. sets[n] \in SUBSET RowsOf(snap)
        BY <1>2
    <2> HIDE DEF sets, lists
    <2>3. QED
        BY <2>1, <2>2, PaintedListed
<1>4. \A m, n \in 1..size : m # n => sets[m] \cap sets[n] = {}
    BY <1>1 DEF Members, GroupOf
<1>5. ColumnRows(column) = FlattenSeq(lists)
    <2>1. lists = [n \in DOMAIN WorkspaceOrder |->
              Painted(column, shown \cap Members(snap, <<column, WorkspaceOrder[n]>>))]
        BY <1>1
    <2>2. QED
        BY <2>1 DEF ColumnRows
<1>6. lists \in [1..size -> Seq(Ids)]
    <2>1. \A n \in 1..size : lists[n] \in Seq(Ids)
        <3> SUFFICES ASSUME NEW n \in 1..size PROVE lists[n] \in Seq(Ids)
            OBVIOUS
        <3>1. lists[n] \in Seq(sets[n]) /\ sets[n] \subseteq Ids
            BY <1>2, <1>3 DEF Listing, RowsOf
        <3> HIDE DEF sets, lists
        <3>2. QED
            BY <3>1
    <2>2. QED
        BY <2>1
<1> DEFINE all == {i \in Ids : \E n \in 1..size : i \in sets[n]}
<1>7. \A i : i \in all <=> \E n \in 1..size : i \in sets[n]
    BY <1>2 DEF RowsOf
<1>8. all \in SUBSET Ids
    OBVIOUS
<1> HIDE DEF sets, lists, size, all
<1>9. Listing(FlattenSeq(lists), all)
    BY <1>1, <1>3, <1>4, <1>6, <1>7, FlatLists
<1>10. QED
    BY <1>5, <1>8, <1>9

\* The columns of the board, each once.
LEMMA ColumnsListed ==
    /\ DOMAIN Columns = 1..4
    /\ \A n \in 1..4 : Columns[n] \in Statuses
    /\ \A m, n \in 1..4 : Columns[m] = Columns[n] => m = n
    /\ \A s \in Statuses : \E n \in 1..4 : Columns[n] = s
<1>1. /\ Columns[1] = "open" /\ Columns[2] = "underReview"
      /\ Columns[3] = "archived" /\ Columns[4] = "declined"
      /\ DOMAIN Columns = 1..4
    BY DEF Columns
<1>2. \A n \in 1..4 : n = 1 \/ n = 2 \/ n = 3 \/ n = 4
    OBVIOUS
<1> HIDE DEF Columns
<1>3. \A n \in 1..4 : Columns[n] \in Statuses
    BY <1>1, <1>2 DEF Statuses
<1>4. \A m, n \in 1..4 : Columns[m] = Columns[n] => m = n
    BY <1>1, <1>2
<1>5. \A s \in Statuses : \E n \in 1..4 : Columns[n] = s
    BY <1>1 DEF Statuses
<1>6. QED
    BY <1>1, <1>3, <1>4, <1>5

\* The groups of the board, each once.
LEMMA GroupsListed == Listing(Groups, Statuses \X Workspaces)
<1> DEFINE size == Len(WorkspaceOrder)
           row(c) == [n \in 1..size |-> <<Columns[c], WorkspaceOrder[n]>>]
           lists == [c \in 1..4 |-> row(c)]
           sets == [c \in 1..4 |-> {Columns[c]} \X Workspaces]
<1>1. /\ size \in Nat \ {0} /\ DOMAIN WorkspaceOrder = 1..size
      /\ \A n \in 1..size : WorkspaceOrder[n] \in Workspaces
      /\ \A m, n \in 1..size : WorkspaceOrder[m] = WorkspaceOrder[n] => m = n
      /\ \A w \in Workspaces : \E n \in 1..size : WorkspaceOrder[n] = w
    BY WorkspacesListed
<1>2. ASSUME NEW c \in 1..4
      PROVE  Listing(lists[c], sets[c])
    <2>1. row(c) \in [1..size -> sets[c]]
        BY <1>1
    <2>2. \A j, k \in 1..size : row(c)[j] = row(c)[k] => j = k
        BY <1>1
    <2>3. \A x \in sets[c] : \E k \in 1..size : row(c)[k] = x
        BY <1>1
    <2>4. lists[c] = row(c)
        OBVIOUS
    <2> HIDE DEF row, sets, lists, size
    <2>5. QED
        BY <1>1, <2>1, <2>2, <2>3, <2>4, IsListing
<1>3. \A c, d \in 1..4 : c # d => sets[c] \cap sets[d] = {}
    BY ColumnsListed
<1>4. \A x : x \in Statuses \X Workspaces <=> \E c \in 1..4 : x \in sets[c]
    BY ColumnsListed
<1>5. lists \in [1..4 -> Seq(Statuses \X Workspaces)]
    <2> DEFINE T == Statuses \X Workspaces
    <2>1. \A c \in 1..4 : row(c) \in [1..size -> T]
        BY <1>1, ColumnsListed
    <2>0. size \in Nat
        BY <1>1
    <2> HIDE DEF row, size, T
    <2>2. ASSUME NEW c \in 1..4 PROVE row(c) \in Seq(T)
        <3>1. PICK f : f = row(c)
            OBVIOUS
        <3>2. f \in [1..size -> T]
            BY <2>1, <3>1
        <3>3. f \in Seq(T)
            BY <2>0, <3>2
        <3>4. QED
            BY <3>1, <3>3
    <2>3. lists \in [1..4 -> Seq(T)]
        BY <2>2
    <2>4. QED
        BY <2>3 DEF T
<1>6. Groups = FlattenSeq(lists)
    <2>1. lists = [c \in DOMAIN Columns |->
             [n \in DOMAIN WorkspaceOrder |-> <<Columns[c], WorkspaceOrder[n]>>]]
        BY <1>1, ColumnsListed
    <2>2. QED
        BY <2>1 DEF Groups
<1>7. Listing(FlattenSeq(lists), Statuses \X Workspaces)
    <2> DEFINE T == Statuses \X Workspaces
    <2>1. \A x : x \in T <=> \E c \in 1..4 : x \in sets[c]
        BY <1>4
    <2>2. lists \in [1..4 -> Seq(T)]
        BY <1>5
    <2>3. 4 \in Nat \ {0}
        OBVIOUS
    <2> HIDE DEF lists, sets, T
    <2>4. Listing(FlattenSeq(lists), T)
        BY <1>2, <1>3, <2>1, <2>2, <2>3, FlatLists
    <2>5. QED
        BY <2>4 DEF T
<1>8. QED
    BY <1>6, <1>7

\* The order of a whole board: the rows given for one group as they are given,
\* those of every other group by rank.
GroupedOrder(order, board, ids, group, M, members) ==
    /\ Listing(order, M \cup {i \in ids : GroupOf(board, i) # group})
    /\ \A i, j \in M : Precedes(members, i, j) => Precedes(order, i, j)
    /\ \A i, j \in ids :
          /\ GroupOf(board, i) # group
          /\ GroupOf(board, i) = GroupOf(board, j)
          /\ Ahead(board, i, j)
          => Precedes(order, i, j)

\* An order that is grouped is such an order.
LEMMA GroupedList ==
    ASSUME NEW board, Fair(board), NEW ids \in SUBSET RowsOf(board), NEW group,
           NEW M \in SUBSET Ids, NEW members, Listing(members, M),
           \A i \in M \cap ids : GroupOf(board, i) = group,
           M = {} \/ group \in Statuses \X Workspaces
    PROVE  GroupedOrder(Grouped(board, ids, group, members), board, ids, group, M, members)
<1> DEFINE size == Len(Groups)
           rows(g) == ids \cap Members(board, g)
           sets == [n \in 1..size |-> IF Groups[n] = group THEN M ELSE rows(Groups[n])]
           lists == [n \in 1..size |-> IF Groups[n] = group THEN members
                                       ELSE ByRank(board, rows(Groups[n]))]
           all == M \cup {i \in ids : GroupOf(board, i) # group}
           order == Grouped(board, ids, group, members)
<1>1. /\ size \in Nat /\ DOMAIN Groups = 1..size
      /\ \A n \in 1..size : Groups[n] \in Statuses \X Workspaces
      /\ \A m, n \in 1..size : Groups[m] = Groups[n] => m = n
      /\ \A g \in Statuses \X Workspaces : \E n \in 1..size : Groups[n] = g
    <2> DEFINE T == Statuses \X Workspaces
    <2>1. Listing(Groups, T)
        BY GroupsListed
    <2> HIDE DEF T
    <2>2. /\ Len(Groups) \in Nat /\ DOMAIN Groups = 1..Len(Groups)
          /\ \A n \in 1..Len(Groups) : Groups[n] \in T
          /\ \A m, n \in 1..Len(Groups) : Groups[m] = Groups[n] => m = n
          /\ \A g \in T : \E n \in 1..Len(Groups) : Groups[n] = g
        BY <2>1, ListingMeans
    <2>3. QED
        BY <2>2 DEF T
<1>2. size # 0
    <2>1. PICK w : w \in Workspaces
        OBVIOUS
    <2>2. <<"open", w>> \in Statuses \X Workspaces
        BY <2>1 DEF Statuses
    <2> HIDE DEF size
    <2>3. QED
        BY <1>1, <2>2
<1>3. \A i \in ids : i \in RowsOf(board) /\ i \in Ids /\ GroupOf(board, i) \in Statuses \X Workspaces
    BY DEF Fair, RowsOf, GroupOf
<1>4. \A g : rows(g) \in SUBSET RowsOf(board) /\ rows(g) = {i \in ids : GroupOf(board, i) = g}
    BY <1>3 DEF Members
<1> HIDE DEF size, rows
<1>5. \A n \in 1..size : Groups[n] # group =>
         /\ Listing(ByRank(board, rows(Groups[n])), rows(Groups[n]))
         /\ \A i, j \in rows(Groups[n]) :
               Ahead(board, i, j) => Precedes(ByRank(board, rows(Groups[n])), i, j)
    BY <1>4, RankListed
<1>6. \A n \in 1..size : Listing(lists[n], sets[n])
    BY <1>5
<1>7. \A m, n \in 1..size : m # n => sets[m] \cap sets[n] = {}
    BY <1>1, <1>4
<1>8. \A i : i \in all <=> \E n \in 1..size : i \in sets[n]
    <2> SUFFICES ASSUME NEW i PROVE i \in all <=> \E n \in 1..size : i \in sets[n]
        OBVIOUS
    <2>1. ASSUME i \in M PROVE \E n \in 1..size : i \in sets[n]
        <3>1. PICK n \in 1..size : Groups[n] = group
            BY <1>1, <2>1
        <3>2. QED
            BY <2>1, <3>1
    <2>2. ASSUME i \in ids, GroupOf(board, i) # group PROVE \E n \in 1..size : i \in sets[n]
        <3>1. PICK n \in 1..size : Groups[n] = GroupOf(board, i)
            BY <1>1, <1>3, <2>2
        <3>2. QED
            BY <1>4, <2>2, <3>1
    <2>3. ASSUME NEW n \in 1..size, i \in sets[n] PROVE i \in all
        BY <1>4, <2>3
    <2>4. QED
        BY <2>1, <2>2, <2>3
<1>9. \A n \in 1..size : sets[n] \in SUBSET Ids
    BY <1>3, <1>4
<1>10. Grouped(board, ids, group, members) = FlattenSeq(lists)
    <2>1. lists = [n \in DOMAIN Groups |-> IF Groups[n] = group THEN members
                       ELSE ByRank(board, ids \cap Members(board, Groups[n]))]
        BY <1>1 DEF rows
    <2>2. QED
        BY <2>1 DEF Grouped
<1>11. lists \in [1..size -> Seq(Ids)]
    <2>1. \A n \in 1..size : lists[n] \in Seq(Ids)
        <3> SUFFICES ASSUME NEW n \in 1..size PROVE lists[n] \in Seq(Ids)
            OBVIOUS
        <3>1. lists[n] \in Seq(sets[n]) /\ sets[n] \subseteq Ids
            BY <1>6, <1>9 DEF Listing
        <3> HIDE DEF sets, lists
        <3>2. QED
            BY <3>1
    <2>2. QED
        BY <2>1
<1>12. \A i, j \in ids :
          /\ GroupOf(board, i) # group
          /\ GroupOf(board, i) = GroupOf(board, j)
          /\ Ahead(board, i, j)
          => \E n \in 1..size : Precedes(lists[n], i, j)
    <2> SUFFICES ASSUME NEW i \in ids, NEW j \in ids, GroupOf(board, i) # group,
                        GroupOf(board, i) = GroupOf(board, j), Ahead(board, i, j)
                 PROVE  \E n \in 1..size : Precedes(lists[n], i, j)
        OBVIOUS
    <2>1. PICK n \in 1..size : Groups[n] = GroupOf(board, i)
        BY <1>1, <1>3
    <2>2. i \in rows(Groups[n]) /\ j \in rows(Groups[n])
        BY <1>4, <2>1
    <2>3. Precedes(ByRank(board, rows(Groups[n])), i, j)
        BY <1>5, <2>1, <2>2
    <2>4. QED
        BY <2>1, <2>3
<1>13. \A i, j \in M : Precedes(members, i, j) => \E n \in 1..size : Precedes(lists[n], i, j)
    <2> SUFFICES ASSUME NEW i \in M, NEW j \in M, Precedes(members, i, j)
                 PROVE  \E n \in 1..size : Precedes(lists[n], i, j)
        OBVIOUS
    <2>1. PICK n \in 1..size : Groups[n] = group
        BY <1>1
    <2>2. lists[n] = members
        BY <2>1
    <2>3. QED
        BY <2>2
<1> HIDE DEF lists, sets, all
<1>14. /\ Listing(FlattenSeq(lists), all)
       /\ \A n \in 1..size : \A i, j :
             Precedes(lists[n], i, j) => Precedes(FlattenSeq(lists), i, j)
    <2>1. size \in Nat \ {0}
        BY <1>1, <1>2
    <2> HIDE DEF order
    <2>2. Listing(FlattenSeq(lists), all)
        BY <1>6, <1>7, <1>8, <1>11, <2>1, FlatLists
    <2>3. \A n \in 1..size : \A i, j :
             Precedes(lists[n], i, j) => Precedes(FlattenSeq(lists), i, j)
        BY <1>6, <1>7, <1>11, <2>1, FlatOrder
    <2>4. QED
        BY <2>2, <2>3
<1>15. QED
    BY <1>10, <1>12, <1>13, <1>14 DEF GroupedOrder, all

----------------------------------------------------------------------------
(* The line a card is dropped on.                                          *)

AboveLine(painted, hover, half, j) ==
    \/ hover = None
    \/ At(painted, j) < At(painted, hover)
    \/ j = hover /\ half = "after"

\* The anchor is a painted row, the first below the line.
FirstBelow(anchor, P, painted, hover, half) ==
    /\ anchor \in P \cup {None}
    /\ anchor \in P => \A j \in P :
          AboveLine(painted, hover, half, j) <=> At(painted, j) < At(painted, anchor)

\* That is what a drop takes for its anchor.
LEMMA AnchorBelowLine ==
    ASSUME NEW P \in SUBSET Ids, NEW painted, Listing(painted, P),
           NEW hover \in P \cup {None}, NEW half \in {"before", "after"}
    PROVE  FirstBelow(Anchor(painted, hover, half), P, painted, hover, half)
<1>0. PICK anchor : anchor = Anchor(painted, hover, half)
    OBVIOUS
<1> DEFINE size == Len(painted)
<1>1. /\ size \in Nat
      /\ \A n \in 1..size : painted[n] \in P
      /\ \A j \in P : At(painted, j) \in 1..size /\ painted[At(painted, j)] = j
    BY ListingMeans, AtOf
<1>2. ASSUME hover = None PROVE FirstBelow(anchor, P, painted, hover, half)
    <2>1. anchor = None /\ None \notin P
        BY <1>0, <1>2 DEF Anchor
    <2>2. QED
        BY <2>1 DEF FirstBelow
<1>3. ASSUME hover # None PROVE FirstBelow(anchor, P, painted, hover, half)
    <2> DEFINE h == At(painted, hover)
               at == IF half = "before" THEN h ELSE h + 1
    <2>1. hover \in P /\ h \in 1..size /\ painted[h] = hover
        BY <1>1, <1>3
    <2>2. anchor = IF at > size THEN None ELSE painted[at]
        BY <1>0, <1>3 DEF Anchor
    <2>3. at \in Nat \ {0} /\ (half = "before" => at = h) /\ (half = "after" => at = h + 1)
        BY <1>1, <2>1
    <2>4. CASE at > size
        <3>1. anchor = None /\ None \notin P
            BY <2>2, <2>4
        <3>2. QED
            BY <3>1 DEF FirstBelow
    <2>5. CASE ~(at > size)
        <3>1. at \in 1..size
            BY <1>1, <2>3, <2>5
        <3>2. anchor = painted[at] /\ anchor \in P
            BY <1>1, <2>2, <2>5, <3>1
        <3>3. At(painted, anchor) = at
            BY <3>1, <3>2, AtIndex
        <3>4. \A j \in P : At(painted, j) = h <=> j = hover
            BY <1>1, <2>1
        <3> HIDE DEF h, at
        <3>5. ASSUME NEW j \in P
              PROVE  AboveLine(painted, hover, half, j) <=> At(painted, j) < at
            <4>1. PICK p : p = At(painted, j)
                OBVIOUS
            <4>2. p \in Int /\ h \in Int /\ (p = h <=> j = hover)
                BY <1>1, <2>1, <3>4, <4>1
            <4>3. AboveLine(painted, hover, half, j) <=> (p < h \/ (j = hover /\ half = "after"))
                BY <1>3, <4>1 DEF AboveLine, h
            <4>4. CASE half = "before"
                <5>1. at = h /\ ~(half = "after")
                    BY <2>3, <4>4
                <5>2. QED
                    BY <4>1, <4>3, <5>1
            <4>5. CASE half = "after"
                <5>1. at = h + 1
                    BY <2>3, <4>5
                <5>2. p < at <=> (p < h \/ p = h)
                    BY <4>2, <5>1
                <5>3. QED
                    BY <4>1, <4>2, <4>3, <4>5, <5>2
            <4>6. QED
                BY <4>4, <4>5
        <3>6. QED
            BY <3>2, <3>3, <3>5 DEF FirstBelow
    <2>6. QED
        BY <2>4, <2>5
<1>4. QED
    BY <1>0, <1>2, <1>3

\* The card goes into its group before the anchor, or last; the rest of the
\* group stays in the order of the list it was given in, every other by rank.
InLine(order, board, i, column, F, full, anchor) ==
    LET group == <<column, board.workspace[i]>>
        peers == Members(board, group) \ {i}
    IN  /\ \E S \in SUBSET Ids : Listing(order, S)
        /\ \A j, k \in F \cap peers : Precedes(full, j, k) => Precedes(order, j, k)
        /\ \A j \in F \cap peers :
              IF anchor \in peers => Precedes(full, j, anchor)
              THEN Precedes(order, j, i) ELSE Precedes(order, i, j)
        /\ \A j, k \in RowsOf(board) \ {i} :
              /\ GroupOf(board, j) # group
              /\ GroupOf(board, j) = GroupOf(board, k)
              /\ Ahead(board, j, k)
              => Precedes(order, j, k)
        /\ \A j, k \in F \cap peers :
              Precedes(Within(full, peers), j, k) => Precedes(order, j, k)

\* An order that is rebuilt is such an order.
LEMMA RebuiltOrder ==
    ASSUME NEW board, Fair(board), NEW i \in RowsOf(board), NEW column \in Statuses,
           NEW F \in SUBSET Ids, NEW full, Listing(full, F), NEW anchor \in F \cup {None}
    PROVE  InLine(Rebuilt(board, i, column, anchor, full), board, i, column, F, full, anchor)
<1> DEFINE group == <<column, board.workspace[i]>>
           peers == Members(board, group) \ {i}
           list == Within(full, peers)
           S == F \cap peers
           at == IF anchor = None THEN 0 ELSE At(list, anchor)
           members == Inserted(list, at, i)
           M == S \cup {i}
           ids == RowsOf(board) \ {i}
           order == Grouped(board, ids, group, members)
<1>1. Rebuilt(board, i, column, anchor, full) = order
    BY DEF Rebuilt
<1>2. /\ group \in Statuses \X Workspaces
      /\ peers \subseteq Ids /\ i \in Ids /\ i \notin S /\ M \in SUBSET Ids
      /\ \A j \in peers : GroupOf(board, j) = group
      /\ ids \in SUBSET RowsOf(board)
    BY DEF Fair, RowsOf, Members
<1> HIDE DEF peers, group
<1>3. /\ Listing(list, S)
      /\ \A j, k \in S : Precedes(full, j, k) => Precedes(list, j, k)
    BY WithinList
<1>4. /\ anchor \in peers => anchor \in S /\ at = At(list, anchor) /\ at \in 1..Len(list)
      /\ anchor \notin peers => at = 0
      /\ at \in 0..Len(list)
    <2>1. Len(list) \in Nat
        <3> HIDE DEF S, list
        <3>1. QED
            BY <1>3, ListingMeans
    <2>2. ASSUME anchor \in peers
          PROVE  anchor \in S /\ at = At(list, anchor) /\ at \in 1..Len(list)
        <3>1. anchor \in S /\ anchor # None
            BY <1>2, <2>2
        <3> HIDE DEF S, list
        <3>2. At(list, anchor) \in 1..Len(list)
            BY <1>3, <3>1, AtOf
        <3>3. QED
            BY <3>1, <3>2
    <2>3. ASSUME anchor \notin peers
          PROVE  at = 0
        <3>1. anchor \notin S
            BY <2>3
        <3> HIDE DEF S, list
        <3>2. At(list, anchor) = 0
            BY <1>3, <3>1, AtNone
        <3>3. QED
            BY <3>2
    <2> HIDE DEF at, list
    <2>4. QED
        BY <2>1, <2>2, <2>3
<1> HIDE DEF list, S, at
<1>5. /\ Listing(members, M)
      /\ \A j, k \in S : Precedes(list, j, k) => Precedes(members, j, k)
      /\ \A j \in S : at = 0 \/ At(list, j) < at => Precedes(members, j, i)
      /\ \A j \in S : at # 0 /\ ~(At(list, j) < at) => Precedes(members, i, j)
    BY <1>2, <1>3, <1>4, InsertedList
<1>6. \A j \in M \cap ids : GroupOf(board, j) = group
    BY <1>2 DEF S
<1> HIDE DEF M, ids, members
<1>7. /\ Listing(order, M \cup {j \in ids : GroupOf(board, j) # group})
      /\ \A j, k \in M : Precedes(members, j, k) => Precedes(order, j, k)
      /\ \A j, k \in ids :
            /\ GroupOf(board, j) # group
            /\ GroupOf(board, j) = GroupOf(board, k)
            /\ Ahead(board, j, k)
            => Precedes(order, j, k)
    <2>1. GroupedOrder(order, board, ids, group, M, members)
        BY <1>2, <1>5, <1>6, GroupedList
    <2> HIDE DEF order
    <2>2. QED
        BY <2>1 DEF GroupedOrder
<1> HIDE DEF order
<1>8. \E T \in SUBSET Ids : Listing(order, T)
    <2>1. M \cup {j \in ids : GroupOf(board, j) # group} \in SUBSET Ids
        BY <1>2 DEF RowsOf
    <2>2. QED
        BY <1>7, <2>1
<1>9. \A j, k \in S : Precedes(list, j, k) => Precedes(order, j, k)
    BY <1>5, <1>7 DEF M
<1>10. ASSUME NEW j \in S
       PROVE  IF anchor \in peers => Precedes(full, j, anchor)
              THEN Precedes(order, j, i) ELSE Precedes(order, i, j)
    <2>0. i \in M /\ j \in M
        BY DEF M
    <2>1. CASE anchor \notin peers
        BY <1>4, <1>5, <1>7, <2>0, <2>1
    <2>2. CASE anchor \in peers
        <3>1. anchor \in S /\ at = At(list, anchor) /\ at # 0
            BY <1>4, <2>2
        <3>2. Precedes(list, j, anchor) <=> At(list, j) < at
            BY <1>3, <3>1, PrecedesIsAt
        <3>3. Precedes(full, j, anchor) <=> Precedes(list, j, anchor)
            <4>1. j \in F /\ anchor \in F
                BY <3>1 DEF S
            <4>2. CASE j = anchor
                <5>1. ~(At(full, j) < At(full, j)) /\ ~(At(list, j) < At(list, j))
                    <6>1. /\ At(full, j) \in 1..Len(full) /\ Len(full) \in Nat
                          /\ At(list, j) \in 1..Len(list) /\ Len(list) \in Nat
                        BY <1>3, <4>1, AtOf, ListingMeans
                    <6>2. QED
                        BY <6>1
                <5>2. QED
                    BY <1>3, <4>1, <4>2, <5>1, PrecedesIsAt
            <4>3. CASE j # anchor
                <5>1. \/ Precedes(full, j, anchor) /\ ~Precedes(full, anchor, j)
                      \/ Precedes(full, anchor, j) /\ ~Precedes(full, j, anchor)
                    BY <4>1, <4>3, PrecedesIsTotal
                <5>2. \/ Precedes(list, j, anchor) /\ ~Precedes(list, anchor, j)
                      \/ Precedes(list, anchor, j) /\ ~Precedes(list, j, anchor)
                    BY <1>3, <3>1, <4>3, PrecedesIsTotal
                <5>3. QED
                    BY <1>3, <3>1, <5>1, <5>2
            <4>4. QED
                BY <4>2, <4>3
        <3>4. CASE Precedes(full, j, anchor)
            BY <1>5, <1>7, <2>0, <3>2, <3>3, <3>4
        <3>5. CASE ~Precedes(full, j, anchor)
            BY <1>5, <1>7, <2>0, <2>2, <3>1, <3>2, <3>3, <3>5
        <3>6. QED
            BY <3>4, <3>5
    <2>3. QED
        BY <2>1, <2>2
<1>11. \A j, k \in S : Precedes(full, j, k) => Precedes(order, j, k)
    BY <1>3, <1>9
<1>12. QED
    BY <1>1, <1>7, <1>8, <1>9, <1>10, <1>11 DEF InLine, S, ids, list, peers, group

\* With the card gone, every group goes out by rank.
LEMMA RebuiltWithout ==
    ASSUME NEW board, Fair(board), NEW i, i \notin RowsOf(board), NEW column,
           NEW anchor, NEW full
    PROVE  LET order == Rebuilt(board, i, column, anchor, full)
           IN  /\ \E S \in SUBSET Ids : Listing(order, S)
               /\ \A j, k \in RowsOf(board) :
                     GroupOf(board, j) = GroupOf(board, k) /\ Ahead(board, j, k)
                         => Precedes(order, j, k)
<1> DEFINE order == Grouped(board, RowsOf(board), <<>>, <<>>)
           all == {} \cup {j \in RowsOf(board) : GroupOf(board, j) # <<>>}
<1>1. Rebuilt(board, i, column, anchor, full) = order
    BY DEF Rebuilt
<1>2. Listing(<<>>, {})
    <2>1. <<>> \in [1..0 -> {}]
        OBVIOUS
    <2>2. 0 \in Nat /\ \A k \in 1..0 : FALSE
        OBVIOUS
    <2>3. QED
        BY <2>1, <2>2, IsListing
<1>3. \A j : GroupOf(board, j) # <<>>
    BY DEF GroupOf
<1>4. /\ Listing(order, all)
      /\ \A j, k \in RowsOf(board) :
            /\ GroupOf(board, j) # <<>>
            /\ GroupOf(board, j) = GroupOf(board, k)
            /\ Ahead(board, j, k)
            => Precedes(order, j, k)
    <2>1. GroupedOrder(order, board, RowsOf(board), <<>>, {}, <<>>)
        BY <1>2, GroupedList
    <2> HIDE DEF order
    <2>2. QED
        BY <2>1 DEF GroupedOrder
<1>5. all \in SUBSET Ids
    BY DEF RowsOf
<1> HIDE DEF all, order
<1>6. QED
    BY <1>1, <1>3, <1>4, <1>5

----------------------------------------------------------------------------
(* The orders that are posted.                                             *)

\* What a drop has read off the screen.
PaintSound(painted, hover, half) ==
    /\ \E P \in SUBSET Ids : Listing(painted, P) /\ hover \in P \cup {None}
    /\ half \in {"before", "after"}

\* The painted rows of the group stay as they were painted, about a card that
\* goes before the anchor, or last where the anchor is none of its peers.
LineKept(order, board, i, column, hover, half, painted) ==
    LET peers == Members(board, <<column, board.workspace[i]>>) \ {i}
        mates == ToSet(painted) \cap peers
        anchor == Anchor(painted, hover, half)
    IN  /\ \A j, k \in mates : Precedes(painted, j, k) => Precedes(order, j, k)
        /\ \A j \in mates :
              IF anchor \in peers => At(painted, j) < At(painted, anchor)
              THEN Precedes(order, j, i) ELSE Precedes(order, i, j)

\* The rest of the board goes out by rank, the group of the drop too where it
\* was painted so.
RestByRank(order, view, board, i, column, painted) ==
    LET group == <<column, board.workspace[i]>>
        peers == Members(board, group) \ {i}
    IN  \A j, k \in RowsOf(board) \ {i} :
            /\ GroupOf(board, j) = GroupOf(board, k)
            /\ Ahead(board, j, k)
            /\ \/ GroupOf(board, j) # group
               \/ view = "list"
               \/ Within(painted, peers) = ByRank(board, peers)
            => Precedes(order, j, k)

OrderSound(order, view, i, column, hover, half, painted, board) ==
    /\ PaintSound(painted, hover, half)
    /\ \E S \in SUBSET Ids : Listing(order, S)
    /\ i \in RowsOf(board) => LineKept(order, board, i, column, hover, half, painted)
    /\ RestByRank(order, view, board, i, column, painted)

\* A card dropped over a column: the order is built on what was painted.
LEMMA DropPostSound ==
    ASSUME NEW board, Fair(board), NEW i \in Ids, NEW column \in Statuses, NEW view,
           view # "list", NEW painted, NEW hover, NEW half, PaintSound(painted, hover, half)
    PROVE  OrderSound(Rebuilt(board, i, column, Anchor(painted, hover, half), painted),
                      view, i, column, hover, half, painted, board)
<1> DEFINE anchor == Anchor(painted, hover, half)
           order == Rebuilt(board, i, column, anchor, painted)
           group == <<column, board.workspace[i]>>
           peers == Members(board, group) \ {i}
<1>1. PICK P \in SUBSET Ids : Listing(painted, P) /\ hover \in P \cup {None}
    BY DEF PaintSound
<1>2. ToSet(painted) = P /\ half \in {"before", "after"}
    BY <1>1 DEF Listing, PaintSound
<1>3. anchor \in P \cup {None}
    BY <1>1, <1>2, AnchorBelowLine DEF FirstBelow
<1>4. CASE i \in RowsOf(board)
    <2> HIDE DEF anchor
    <2>1. /\ \E S \in SUBSET Ids : Listing(order, S)
          /\ \A j, k \in P \cap peers : Precedes(painted, j, k) => Precedes(order, j, k)
          /\ \A j \in P \cap peers :
                IF anchor \in peers => Precedes(painted, j, anchor)
                THEN Precedes(order, j, i) ELSE Precedes(order, i, j)
          /\ \A j, k \in RowsOf(board) \ {i} :
                /\ GroupOf(board, j) # group
                /\ GroupOf(board, j) = GroupOf(board, k)
                /\ Ahead(board, j, k)
                => Precedes(order, j, k)
          /\ \A j, k \in P \cap peers :
                Precedes(Within(painted, peers), j, k) => Precedes(order, j, k)
        <3>1. InLine(order, board, i, column, P, painted, anchor)
            BY <1>1, <1>3, <1>4, RebuiltOrder
        <3> HIDE DEF order
        <3>2. QED
            BY <3>1 DEF InLine
    <2> HIDE DEF order
    <2>2. peers \subseteq Ids /\ peers \in SUBSET RowsOf(board)
        BY DEF Members, RowsOf
    <2>3. \A j \in P \cap peers : anchor \in peers =>
             (Precedes(painted, j, anchor) <=> At(painted, j) < At(painted, anchor))
        BY <1>1, <1>3, <2>2, PrecedesIsAt
    <2>4. LineKept(order, board, i, column, hover, half, painted)
        BY <1>2, <2>1, <2>3 DEF LineKept, anchor
    <2>5. ASSUME NEW j \in RowsOf(board) \ {i}, NEW k \in RowsOf(board) \ {i},
                 GroupOf(board, j) = GroupOf(board, k), Ahead(board, j, k),
                 GroupOf(board, j) = group, Within(painted, peers) = ByRank(board, peers)
          PROVE  Precedes(order, j, k)
        <3>1. j \in peers /\ k \in peers
            BY <2>5 DEF Members
        <3> HIDE DEF peers
        <3>2. Precedes(ByRank(board, peers), j, k) /\ Listing(ByRank(board, peers), peers)
            BY <2>2, <2>5, <3>1, RankListed
        <3>3. Listing(Within(painted, peers), P \cap peers)
            BY <1>1, WithinList
        <3>4. ToSet(Within(painted, peers)) = P \cap peers /\ ToSet(ByRank(board, peers)) = peers
            BY <3>2, <3>3 DEF Listing
        <3>5. j \in P \cap peers /\ k \in P \cap peers
            BY <2>5, <3>1, <3>4
        <3>6. QED
            BY <2>1, <2>5, <3>2, <3>5
    <2>6. RestByRank(order, view, board, i, column, painted)
        BY <2>1, <2>5 DEF RestByRank
    <2>7. QED
        BY <2>1, <2>4, <2>6 DEF OrderSound, order, anchor
<1>5. CASE i \notin RowsOf(board)
    <2> HIDE DEF anchor
    <2>1. /\ \E S \in SUBSET Ids : Listing(order, S)
          /\ \A j, k \in RowsOf(board) :
                GroupOf(board, j) = GroupOf(board, k) /\ Ahead(board, j, k)
                    => Precedes(order, j, k)
        BY <1>5, RebuiltWithout
    <2> HIDE DEF order
    <2>2. RestByRank(order, view, board, i, column, painted)
        BY <2>1 DEF RestByRank
    <2>3. QED
        BY <1>5, <2>1, <2>2 DEF OrderSound, order, anchor
<1>6. QED
    BY <1>4, <1>5

\* A row dropped in the Priorities list: the order is built on the whole group
\* by rank, of which the list paints a part.
LEMMA ListPostSound ==
    ASSUME NEW board, Fair(board), NEW i \in RowsOf(board), board.status[i] = "open",
           NEW P \in SUBSET Members(board, GroupOf(board, i)),
           NEW hover \in P \cup {None}, NEW half \in {"before", "after"},
           Anchor(ByRank(board, P), hover, half) # i
    PROVE  LET full == ByRank(board, Members(board, GroupOf(board, i)))
               painted == ByRank(board, P)
           IN  OrderSound(Rebuilt(board, i, "open", Anchor(painted, hover, half), full),
                          "list", i, "open", hover, half, painted, board)
<1> DEFINE group == <<"open", board.workspace[i]>>
           F == Members(board, group)
           peers == F \ {i}
           full == ByRank(board, F)
           painted == ByRank(board, P)
           anchor == Anchor(painted, hover, half)
           order == Rebuilt(board, i, "open", anchor, full)
<1>1. GroupOf(board, i) = group /\ "open" \in Statuses
    BY DEF GroupOf, Statuses
<1>2. F \in SUBSET RowsOf(board) /\ P \in SUBSET RowsOf(board) /\ P \subseteq F /\ F \in SUBSET Ids
    BY <1>1 DEF Members, RowsOf
<1> HIDE DEF F
<1>3. /\ Listing(full, F)
      /\ \A j, k \in F : Ahead(board, j, k) <=> Precedes(full, j, k)
      /\ Listing(painted, P)
      /\ \A j, k \in P : Ahead(board, j, k) <=> Precedes(painted, j, k)
    BY <1>2, RankListed
<1> HIDE DEF full, painted
<1>4. ToSet(painted) = P /\ ToSet(full) = F
    BY <1>3 DEF Listing
<1>5. anchor \in P \cup {None} /\ P \in SUBSET Ids
    BY <1>2, <1>3, AnchorBelowLine DEF FirstBelow
<1>6. anchor # i
    BY DEF painted
<1> HIDE DEF anchor
<1>7. /\ \E S \in SUBSET Ids : Listing(order, S)
      /\ \A j, k \in F \cap peers : Precedes(full, j, k) => Precedes(order, j, k)
      /\ \A j \in F \cap peers :
            IF anchor \in peers => Precedes(full, j, anchor)
            THEN Precedes(order, j, i) ELSE Precedes(order, i, j)
      /\ \A j, k \in RowsOf(board) \ {i} :
            /\ GroupOf(board, j) # group
            /\ GroupOf(board, j) = GroupOf(board, k)
            /\ Ahead(board, j, k)
            => Precedes(order, j, k)
    <2>1. anchor \in F \cup {None} /\ Fair(board)
        BY <1>2, <1>5
    <2>2. InLine(order, board, i, "open", F, full, anchor)
        BY <1>1, <1>2, <1>3, <2>1, RebuiltOrder
    <2> HIDE DEF order
    <2>3. QED
        BY <2>2 DEF InLine, F
<1> HIDE DEF order
<1>8. \A j \in P : anchor \in peers =>
         /\ Precedes(full, j, anchor) <=> Precedes(painted, j, anchor)
         /\ Precedes(painted, j, anchor) <=> At(painted, j) < At(painted, anchor)
    <2> SUFFICES ASSUME NEW j \in P, anchor \in peers
                 PROVE  /\ Precedes(full, j, anchor) <=> Precedes(painted, j, anchor)
                        /\ Precedes(painted, j, anchor) <=> At(painted, j) < At(painted, anchor)
        OBVIOUS
    <2>1. anchor \in P
        BY <1>2, <1>5
    <2>2. QED
        BY <1>2, <1>3, <2>1, PrecedesIsAt
<1>9. LineKept(order, board, i, "open", hover, half, painted)
    BY <1>2, <1>3, <1>4, <1>7, <1>8 DEF LineKept, anchor, F
<1>10. RestByRank(order, "list", board, i, "open", painted)
    <2> SUFFICES ASSUME NEW j \in RowsOf(board) \ {i}, NEW k \in RowsOf(board) \ {i},
                        GroupOf(board, j) = GroupOf(board, k), Ahead(board, j, k)
                 PROVE  Precedes(order, j, k)
        BY DEF RestByRank
    <2>1. CASE GroupOf(board, j) = group
        <3>1. j \in F /\ k \in F
            BY <2>1 DEF F, Members
        <3>2. QED
            BY <1>3, <1>7, <3>1
    <2>2. CASE GroupOf(board, j) # group
        BY <1>7, <2>2
    <2>3. QED
        BY <2>1, <2>2
<1>11. PaintSound(painted, hover, half)
    BY <1>3, <1>5 DEF PaintSound
<1>12. OrderSound(order, "list", i, "open", hover, half, painted, board)
    BY <1>7, <1>9, <1>10, <1>11 DEF OrderSound
<1>13. QED
    BY <1>1, <1>12 DEF order, anchor, full, painted, F

\* A member of a list has traded places with its neighbour: the others are in
\* their order, and it is the neighbour alone that the mover has passed.
Traded(new, list, S, x, n, m) ==
    /\ Listing(new, S)
    /\ \A y, z \in S \ {x} : Precedes(list, y, z) => Precedes(new, y, z)
    /\ \A y \in S \ {x} :
          IF At(list, y) < m \/ (At(list, y) = m /\ m = n + 1)
          THEN Precedes(new, y, x) ELSE Precedes(new, x, y)

\* What the exchange of two entries makes of a list.
LEMMA SwapList ==
    ASSUME NEW S, NEW list, Listing(list, S), NEW n \in 1..Len(list), NEW m \in 1..Len(list),
           m = n + 1 \/ n = m + 1, NEW x, x = list[n]
    PROVE  Traded([list EXCEPT ![n] = list[m], ![m] = x], list, S, x, n, m)
<1> DEFINE new == [list EXCEPT ![n] = list[m], ![m] = x]
           size == Len(list)
           to(k) == IF k = n THEN m ELSE IF k = m THEN n ELSE k
<1>1. /\ size \in Nat /\ DOMAIN list = 1..size
      /\ \A k \in 1..size : list[k] \in S
      /\ \A j, k \in 1..size : list[j] = list[k] => j = k
      /\ \A y \in S : \E k \in 1..size : list[k] = y
    BY ListingMeans
<1>2. /\ n \in Nat /\ m \in Nat /\ n # m
      /\ \A k \in 1..size : to(k) \in 1..size /\ to(to(k)) = k
      /\ \A k \in 1..size : k \in Nat
    BY <1>1
<1>3. DOMAIN new = 1..size /\ \A k \in 1..size : new[k] = list[to(k)]
    BY <1>1, <1>2
<1>4. new \in [1..size -> S]
    <2>1. new = [k \in 1..size |-> new[k]]
        BY <1>1
    <2> HIDE DEF new, to
    <2>2. \A k \in 1..size : new[k] \in S
        BY <1>1, <1>2, <1>3
    <2>3. QED
        BY <2>1, <2>2
<1> HIDE DEF new
<1>5. Listing(new, S)
    <2>1. \A j, k \in 1..size : new[j] = new[k] => j = k
        <3> HIDE DEF to
        <3>1. QED
            BY <1>1, <1>2, <1>3
    <2>2. \A y \in S : \E k \in 1..size : new[k] = y
        <3> HIDE DEF to
        <3>1. QED
            BY <1>1, <1>2, <1>3
    <2> HIDE DEF size
    <2>3. QED
        BY <1>1, <1>4, <2>1, <2>2, IsListing
<1>6. \A j, k \in 1..size :
         j < k /\ ~(j = n /\ k = m) /\ ~(j = m /\ k = n) => to(j) < to(k)
    BY <1>2
<1>7. \A j, k \in 1..size :
         j < k /\ ~(j = n /\ k = m) /\ ~(j = m /\ k = n) => Precedes(new, list[j], list[k])
    <2> SUFFICES ASSUME NEW j \in 1..size, NEW k \in 1..size, to(j) < to(k)
                 PROVE  Precedes(new, list[j], list[k])
        BY <1>6
    <2>1. to(j) \in 1..size /\ to(k) \in 1..size
        BY <1>2
    <2>2. new[to(j)] = list[j] /\ new[to(k)] = list[k]
        BY <1>2, <1>3
    <2> HIDE DEF to
    <2>3. QED
        BY <1>3, <2>1, <2>2 DEF Precedes
<1>8. ASSUME NEW y \in S \ {x}, NEW z \in S \ {x}, Precedes(list, y, z)
      PROVE  Precedes(new, y, z)
    <2>1. PICK j \in 1..size, k \in 1..size : j < k /\ list[j] = y /\ list[k] = z
        BY <1>1, <1>8 DEF Precedes
    <2>2. j # n /\ k # n
        BY <2>1
    <2>3. QED
        BY <1>7, <2>1, <2>2
<1>9. ASSUME NEW y \in S \ {x}
      PROVE  IF At(list, y) < m \/ (At(list, y) = m /\ m = n + 1)
             THEN Precedes(new, y, x) ELSE Precedes(new, x, y)
    <2>1. PICK k : k = At(list, y)
        OBVIOUS
    <2>2. k \in 1..size /\ list[k] = y /\ k # n /\ k \in Nat
        <3>1. At(list, y) \in 1..size /\ list[At(list, y)] = y
            BY AtOf
        <3>2. QED
            BY <1>2, <2>1, <3>1
    <2>3. CASE k # m
        <3>1. k < m <=> k < n
            BY <1>2, <2>2, <2>3
        <3>2. IF k < n THEN Precedes(new, y, x) ELSE Precedes(new, x, y)
            <4>1. k < n \/ n < k
                BY <1>2, <2>2
            <4>2. QED
                BY <1>7, <2>2, <2>3, <4>1
        <3>3. QED
            BY <2>1, <2>3, <3>1, <3>2
    <2>4. CASE k = m
        <3>1. new[n] = y /\ new[m] = x /\ ~(k < m)
            BY <1>2, <1>3, <2>2, <2>4
        <3>2. IF m = n + 1 THEN n < m ELSE m < n
            BY <1>2
        <3>3. IF m = n + 1 THEN Precedes(new, y, x) ELSE Precedes(new, x, y)
            BY <1>3, <3>1, <3>2 DEF Precedes
        <3>4. QED
            BY <2>1, <2>4, <3>1, <3>3
    <2>5. QED
        BY <2>3, <2>4
<1>10. QED
    BY <1>5, <1>8, <1>9 DEF Traded, new

\* The first of a list, and the last of it.
LEMMA EndsOfList ==
    ASSUME NEW S, NEW list, Listing(list, S), NEW x \in S
    PROVE  /\ (\A y \in S \ {x} : Precedes(list, x, y)) => Head(list) = x
           /\ (\A y \in S \ {x} : Precedes(list, y, x)) => Last(list) = x
<1> DEFINE size == Len(list)
<1>1. /\ size \in Nat
      /\ \A k \in 1..size : list[k] \in S
      /\ \A j, k \in 1..size : list[j] = list[k] => j = k
      /\ At(list, x) \in 1..size /\ list[At(list, x)] = x
    BY ListingMeans, AtOf
<1>2. 1 \in 1..size /\ size \in 1..size
    BY <1>1
<1>3. At(list, list[1]) = 1 /\ At(list, list[size]) = size
    BY <1>2, AtIndex
<1>4. Head(list) = list[1] /\ Last(list) = list[size]
    <2>1. list \in Seq(S)
        BY DEF Listing
    <2>2. QED
        BY <1>2, <2>1 DEF Last
<1>5. ASSUME \A y \in S \ {x} : Precedes(list, x, y), list[1] # x
      PROVE  FALSE
    <2>1. list[1] \in S \ {x}
        BY <1>1, <1>2, <1>5
    <2>2. At(list, x) < At(list, list[1])
        BY <1>5, <2>1, PrecedesIsAt
    <2>3. QED
        BY <1>1, <1>3, <2>2
<1>6. ASSUME \A y \in S \ {x} : Precedes(list, y, x), list[size] # x
      PROVE  FALSE
    <2>1. list[size] \in S \ {x}
        BY <1>1, <1>2, <1>6
    <2>2. At(list, list[size]) < At(list, x)
        BY <1>6, <2>1, PrecedesIsAt
    <2>3. QED
        BY <1>1, <1>3, <2>2
<1>7. QED
    BY <1>4, <1>5, <1>6

\* The row stepped over is there: the arrow of an end row is disabled.
LEMMA NeighbourThere ==
    ASSUME NEW S, NEW peers, Listing(peers, S), NEW i \in S, NEW seen, i \in seen,
           NEW half \in {"before", "after"},
           i # IF half = "before" THEN Head(Within(peers, seen)) ELSE Last(Within(peers, seen))
    PROVE  (IF half = "before" THEN At(peers, i) - 1 ELSE At(peers, i) + 1) \in 1..Len(peers)
<1> DEFINE at == At(peers, i)
           size == Len(peers)
           list == Within(peers, seen)
           T == S \cap seen
<1>1. size \in Nat /\ at \in 1..size /\ peers[at] = i
    BY ListingMeans, AtOf
<1>2. Listing(list, T) /\ i \in T
      /\ \A j, k \in T : Precedes(peers, j, k) => Precedes(list, j, k)
    BY WithinList
<1>3. \A j \in S : At(peers, j) \in 1..size /\ peers[At(peers, j)] = j
    BY AtOf
<1>4. \A j, k \in S : Precedes(peers, j, k) <=> At(peers, j) < At(peers, k)
    BY PrecedesIsAt
<1>5. ASSUME at = 1
      PROVE  Head(list) = i
    <2>1. ASSUME NEW j \in T \ {i} PROVE Precedes(list, i, j)
        <3>1. At(peers, j) \in 1..size /\ At(peers, j) # 1
            BY <1>1, <1>3, <1>5
        <3>2. At(peers, i) < At(peers, j)
            BY <1>1, <1>5, <3>1
        <3>3. QED
            BY <1>2, <1>4, <3>2
    <2> HIDE DEF list, T, at
    <2>2. QED
        BY <1>2, <2>1, EndsOfList
<1>6. ASSUME at = size
      PROVE  Last(list) = i
    <2>1. ASSUME NEW j \in T \ {i} PROVE Precedes(list, j, i)
        <3>1. At(peers, j) \in 1..size /\ At(peers, j) # size
            BY <1>1, <1>3, <1>6
        <3>2. At(peers, j) < At(peers, i)
            BY <1>1, <1>6, <3>1
        <3>3. QED
            BY <1>2, <1>4, <3>2
    <2> HIDE DEF list, T, at
    <2>2. QED
        BY <1>2, <2>1, EndsOfList
<1> HIDE DEF list, T, at
<1>7. CASE half = "before"
    <2>1. at # 1
        BY <1>5, <1>7 DEF list
    <2>2. at - 1 \in 1..size
        BY <1>1, <2>1
    <2>3. QED
        BY <1>7, <2>2 DEF at
<1>8. CASE half = "after"
    <2>1. at # size
        BY <1>6, <1>8 DEF list
    <2>2. at + 1 \in 1..size
        BY <1>1, <2>1
    <2>3. QED
        BY <1>8, <2>2 DEF at
<1>9. QED
    BY <1>7, <1>8

\* A row that trades places with its neighbour.
LEMMA StepPostSound ==
    ASSUME NEW board, Fair(board), NEW i \in RowsOf(board), board.status[i] = "open",
           NEW half \in {"before", "after"}, NEW peers,
           peers = ByRank(board, Members(board, GroupOf(board, i))),
           NEW at, at = At(peers, i), NEW with \in 1..Len(peers),
           with = IF half = "before" THEN at - 1 ELSE at + 1
    PROVE  OrderSound(Grouped(board, RowsOf(board), GroupOf(board, i),
                              [peers EXCEPT ![at] = peers[with], ![with] = i]),
                      "list", i, "open", peers[with], half, peers, board)
<1> DEFINE group == <<"open", board.workspace[i]>>
           F == Members(board, group)
           mates == F \ {i}
           members == [peers EXCEPT ![at] = peers[with], ![with] = i]
           order == Grouped(board, RowsOf(board), group, members)
           anchor == Anchor(peers, peers[with], half)
           size == Len(peers)
<1>1. GroupOf(board, i) = group /\ group \in Statuses \X Workspaces
    BY DEF GroupOf, Statuses, Fair, RowsOf
<1>2. F \in SUBSET RowsOf(board) /\ F \in SUBSET Ids /\ i \in F
      /\ \A j \in F : GroupOf(board, j) = group
    BY <1>1 DEF Members, RowsOf
<1>3. peers = ByRank(board, F)
    BY <1>1
<1> HIDE DEF F
<1>4. /\ Listing(peers, F)
      /\ \A j, k \in F : Ahead(board, j, k) <=> Precedes(peers, j, k)
    BY <1>2, <1>3, RankListed
<1>5. /\ size \in Nat /\ at \in 1..size /\ at \in Nat /\ with \in Nat /\ peers[at] = i
      /\ \A k \in 1..size : peers[k] \in F
      /\ \A j, k \in 1..size : peers[j] = peers[k] => j = k
      /\ \A j \in F : At(peers, j) \in 1..size /\ peers[At(peers, j)] = j
    BY <1>2, <1>4, AtOf, ListingMeans
<1>6. /\ half = "before" => at = with + 1
      /\ half = "after" => with = at + 1
    BY <1>5
<1>7. /\ Listing(members, F)
      /\ \A j, k \in mates : Precedes(peers, j, k) => Precedes(members, j, k)
      /\ \A j \in mates : IF At(peers, j) < with \/ (At(peers, j) = with /\ with = at + 1)
                          THEN Precedes(members, j, i) ELSE Precedes(members, i, j)
    <2>1. with = at + 1 \/ at = with + 1
        BY <1>6
    <2>2. Traded(members, peers, F, i, at, with)
        BY <1>4, <1>5, <2>1, SwapList
    <2> HIDE DEF members
    <2>3. QED
        BY <2>2 DEF Traded
<1> HIDE DEF members
<1>8. /\ \E S \in SUBSET Ids : Listing(order, S)
      /\ \A j, k \in F : Precedes(members, j, k) => Precedes(order, j, k)
      /\ \A j, k \in RowsOf(board) :
            /\ GroupOf(board, j) # group
            /\ GroupOf(board, j) = GroupOf(board, k)
            /\ Ahead(board, j, k)
            => Precedes(order, j, k)
    <2> DEFINE ids == RowsOf(board)
               all == F \cup {j \in ids : GroupOf(board, j) # group}
    <2>1. ids \in SUBSET RowsOf(board) /\ all \in SUBSET Ids
        BY <1>2 DEF RowsOf
    <2>2. \A j \in F \cap ids : GroupOf(board, j) = group
        BY <1>2
    <2> HIDE DEF ids
    <2>3. /\ Listing(order, all)
          /\ \A j, k \in F : Precedes(members, j, k) => Precedes(order, j, k)
          /\ \A j, k \in ids :
                /\ GroupOf(board, j) # group
                /\ GroupOf(board, j) = GroupOf(board, k)
                /\ Ahead(board, j, k)
                => Precedes(order, j, k)
        <3>1. GroupedOrder(order, board, ids, group, F, members)
            <4>1. Grouped(board, ids, group, members) = order
                BY DEF ids
            <4> HIDE DEF order, group
            <4>2. QED
                BY <1>1, <1>2, <1>7, <2>1, <2>2, <4>1, GroupedList
        <3> HIDE DEF order, group
        <3>2. QED
            BY <3>1 DEF GroupedOrder
    <2> HIDE DEF order, group, all
    <2>4. QED
        BY <2>1, <2>3 DEF ids
<1> HIDE DEF order
<1>9. ToSet(peers) = F
    BY <1>4 DEF Listing
<1>10. peers[with] \in F /\ At(peers, peers[with]) = with
    BY <1>4, <1>5, AtIndex
<1>11. LineKept(order, board, i, "open", peers[with], half, peers)
    <2>1. \A j, k \in mates : Precedes(peers, j, k) => Precedes(order, j, k)
        BY <1>7, <1>8
    <2>2. ASSUME NEW j \in mates
          PROVE  IF anchor \in mates => At(peers, j) < At(peers, anchor)
                 THEN Precedes(order, j, i) ELSE Precedes(order, i, j)
        <3>0. peers[with] # None /\ None \notin mates
            BY <1>2, <1>10
        <3>1. PICK p : p = At(peers, j)
            OBVIOUS
        <3>2. p \in 1..size /\ peers[p] = j /\ p # at
            BY <1>5, <3>1
        <3>3. IF p < with \/ (p = with /\ with = at + 1)
              THEN Precedes(order, j, i) ELSE Precedes(order, i, j)
            BY <1>2, <1>7, <1>8, <3>1
        <3>4. CASE half = "before"
            <4>1. ~(with > size) /\ ~(with = at + 1)
                BY <1>5, <1>6, <3>4
            <4>2. anchor = peers[with]
                BY <1>10, <3>0, <3>4, <4>1 DEF Anchor
            <4>3. anchor \in mates /\ At(peers, anchor) = with
                BY <1>5, <1>6, <1>10, <3>4, <4>2
            <4>4. QED
                BY <3>1, <3>3, <4>1, <4>3
        <3>5. CASE half = "after"
            <4>1. anchor = IF with + 1 > size THEN None ELSE peers[with + 1]
                BY <1>10, <3>0, <3>5 DEF Anchor
            <4>2. p < with + 1 <=> (p < with \/ p = with)
                BY <1>5, <3>2
            <4>3. CASE with + 1 > size
                <5>1. p < with + 1
                    BY <1>5, <3>2, <4>3
                <5>2. anchor \notin mates
                    BY <3>0, <4>1, <4>3
                <5>3. QED
                    BY <1>6, <3>3, <3>5, <4>2, <5>1, <5>2
            <4>4. CASE ~(with + 1 > size)
                <5> DEFINE next == with + 1
                <5>1. next \in 1..size /\ next # at
                    BY <1>5, <1>6, <3>5, <4>4
                <5>2. anchor = peers[next]
                    BY <4>1, <4>4
                <5> HIDE DEF next, anchor
                <5>3. anchor \in mates /\ At(peers, anchor) = next
                    BY <1>4, <1>5, <5>1, <5>2, AtIndex
                <5>4. QED
                    BY <1>6, <3>1, <3>3, <3>5, <4>2, <5>3 DEF next
            <4>5. QED
                BY <4>3, <4>4
        <3>6. QED
            BY <3>4, <3>5
    <2>3. ToSet(peers) \cap mates = mates
        BY <1>9
    <2>4. QED
        BY <2>1, <2>2, <2>3 DEF LineKept, F
<1>12. RestByRank(order, "list", board, i, "open", peers)
    <2> SUFFICES ASSUME NEW j \in RowsOf(board) \ {i}, NEW k \in RowsOf(board) \ {i},
                        GroupOf(board, j) = GroupOf(board, k), Ahead(board, j, k)
                 PROVE  Precedes(order, j, k)
        BY DEF RestByRank
    <2>1. CASE GroupOf(board, j) = group
        <3>1. j \in mates /\ k \in mates
            BY <2>1 DEF F, Members
        <3>2. QED
            BY <1>4, <1>7, <1>8, <3>1
    <2>2. CASE GroupOf(board, j) # group
        BY <1>8, <2>2
    <2>3. QED
        BY <2>1, <2>2
<1>13. PaintSound(peers, peers[with], half)
    BY <1>2, <1>4, <1>10 DEF PaintSound
<1>14. OrderSound(order, "list", i, "open", peers[with], half, peers, board)
    BY <1>8, <1>11, <1>12, <1>13 DEF OrderSound
<1>15. QED
    BY <1>1, <1>14 DEF order, members

----------------------------------------------------------------------------
(* The order that is served.                                               *)

\* Two rows of a group that the order lists are ranked as it lists them.
LEMMA ServedInOrder ==
    ASSUME TypeOK, NEW S \in SUBSET Ids, Listing(drop.order, S), Reorder(Listed)
    PROVE  /\ TypeOK' /\ place' = place /\ Live' = Live /\ minted' = minted
           /\ status' = status /\ workspace' = workspace
           /\ \A j, k \in Live : SameGroup(j, k) /\ Precedes(drop.order, j, k)
                 => RankedBefore(j, k)'
<1> DEFINE D == S \cap Live
           order == Listed
<1>1. /\ DOMAIN order = D
      /\ \A j \in D : order[j] = At(drop.order, j) /\ order[j] \in Nat
    <2>1. ToSet(drop.order) = S
        BY DEF Listing
    <2>2. \A j \in S : At(drop.order, j) \in Nat
        BY AtOf, ListingMeans
    <2>3. QED
        BY <2>1, <2>2 DEF Listed
<1>2. D \in SUBSET Ids /\ IsFiniteSet(D) /\ D \subseteq Live
    BY FS_Subset
<1> HIDE DEF order
<1>3. /\ \A i \in Ids : rank'[i] = IF i \in D THEN PositionIn(order, i) ELSE rank[i]
      /\ rank' = [i \in Ids |-> rank'[i]]
      /\ UNCHANGED <<place, status, workspace, number, parent, delivered,
                     relationVars, counterVars>>
    BY <1>1 DEF Reorder, ReorderedRanks, order
<1> HIDE DEF D
<1>4. \A i \in D : PositionIn(order, i) \in Nat
    <2>1. \A i \in D : {j \in D : SameGroup(i, j) /\ order[j] <= order[i]} \in SUBSET Ids
        BY <1>2
    <2>2. \A i \in D : PositionIn(order, i)
                          = Cardinality({j \in D : SameGroup(i, j) /\ order[j] <= order[i]})
        BY <1>1 DEF PositionIn
    <2>3. QED
        BY <2>1, <2>2, CountInNat
<1>5. TypeOK'
    <2>1. rank' \in [Ids -> Nat]
        BY <1>3, <1>4 DEF TypeOK
    <2>2. QED
        BY <1>3, <2>1 DEF TypeOK, relationVars, counterVars
<1>6. place' = place /\ Live' = Live /\ minted' = minted
      /\ status' = status /\ workspace' = workspace
    BY <1>3 DEF Live, counterVars
<1>7. ASSUME NEW j \in Live, NEW k \in Live, SameGroup(j, k), Precedes(drop.order, j, k)
      PROVE  RankedBefore(j, k)'
    <2>1. j \in S /\ k \in S
        BY <1>7, ListingMeans DEF Precedes
    <2>2. j \in D /\ k \in D
        BY <2>1 DEF D
    <2>3. order[j] < order[k]
        BY <1>1, <1>7, <2>1, <2>2, PrecedesIsAt
    <2> DEFINE upTo(x) == {y \in D : SameGroup(x, y) /\ order[y] <= order[x]}
    <2>4. upTo(j) \in SUBSET upTo(k)
        BY <1>1, <1>7, <2>2, <2>3 DEF SameGroup
    <2>5. k \in upTo(k) \ upTo(j) /\ j \in upTo(j)
        BY <1>1, <1>7, <2>2, <2>3 DEF SameGroup
    <2>6. /\ PositionIn(order, j) = Cardinality(upTo(j))
          /\ PositionIn(order, k) = Cardinality(upTo(k))
        BY <1>1 DEF PositionIn
    <2>7. IsFiniteSet(upTo(j)) /\ IsFiniteSet(upTo(k))
        BY <1>2, FS_Subset
    <2> HIDE DEF upTo
    <2>8. Cardinality(upTo(j)) < Cardinality(upTo(k)) /\ Cardinality(upTo(j)) \in Nat
        BY <2>4, <2>5, <2>7, FewerInside
    <2>9. Cardinality(upTo(j)) # 0
        BY <2>5, <2>7, FS_EmptySet
    <2>10. QED
        BY <1>2, <1>3, <2>2, <2>6, <2>8, <2>9 DEF RankedBefore
<1>8. QED
    BY <1>5, <1>6, <1>7

\* What the tab holds while a drop is under way.
DropSound ==
    /\ Fair(snap)
    /\ drop.step = "dragging" => drop.id \in Ids
    /\ drop.step \in {"moving", "moved"} =>
          /\ drop.id \in Ids /\ drop.column \in Statuses
          /\ PaintSound(drop.painted, drop.hover, drop.half)
    /\ drop.step \in {"moved", "ordered"} => Fair(drop.base)
    /\ drop.step = "ordering" =>
          /\ drop = Posted(drop.view, drop.id, drop.column, drop.hover, drop.half,
                           drop.painted, drop.base, drop.order)
          /\ OrderSound(drop.order, drop.view, drop.id, drop.column, drop.hover,
                        drop.half, drop.painted, drop.base)

BoardInv == TypeOK /\ LiveMinted /\ PlacesDistinct /\ DropSound

\* The document, as an answer carries it.
LEMMA DocumentFair ==
    ASSUME TypeOK, PlacesDistinct
    PROVE  Fair(Board) /\ RowsOf(Board) = Live
BY DEF TypeOK, PlacesDistinct, Fair, Board, RowsOf, Live

\* A post that is begun is sound where its order is.
LEMMA PostBegun ==
    ASSUME Fair(snap'), NEW view, NEW i, NEW column, NEW hover, NEW half, NEW painted,
           NEW base, NEW order, drop' = Posted(view, i, column, hover, half, painted, base, order),
           OrderSound(order, view, i, column, hover, half, painted, base)
    PROVE  DropSound'
<1>1. /\ drop'.step = "ordering" /\ drop'.view = view /\ drop'.id = i
      /\ drop'.column = column /\ drop'.hover = hover /\ drop'.half = half
      /\ drop'.painted = painted /\ drop'.base = base /\ drop'.order = order
    BY DEF Posted
<1>2. drop' = Posted(drop'.view, drop'.id, drop'.column, drop'.hover, drop'.half,
                     drop'.painted, drop'.base, drop'.order)
    BY <1>1
<1>3. OrderSound(drop'.order, drop'.view, drop'.id, drop'.column, drop'.hover,
                 drop'.half, drop'.painted, drop'.base)
    BY <1>1
<1>4. QED
    BY <1>1, <1>2, <1>3 DEF DropSound

\* All that reaches the document beside the verbs is the order of the tab.
LEMMA DocumentSteps ==
    ASSUME DropSound, [BoardNext]_<<vars, tabVars>>
    PROVE  [Next]_vars \/ ServeOrder
<1>1. ASSUME ServeMove
      PROVE  [Next]_vars
    <2>1. drop.id \in Ids /\ drop.column \in Statuses
        BY <1>1 DEF ServeMove, DropSound
    <2>2. \/ Decline(drop.id)
          \/ drop.column # "declined" /\ Move(drop.id, drop.column)
          \/ UNCHANGED vars
        BY <1>1 DEF ServeMove
    <2>3. QED
        BY <2>1, <2>2 DEF Next
<1>2. ASSUME Other
      PROVE  Next
    <2>1. CASE \E i \in Ids, patch \in Patches : patch.rank = None /\ Update(i, patch)
        BY <2>1 DEF Next
    <2>2. CASE \E i \in Ids, to \in {"open", "archived"} : Move(i, to)
        BY <2>2 DEF Next, Statuses
    <2>3. CASE \E i \in Ids, k \in TriageRanks : Triage(i, k)
        BY <2>3 DEF Next
    <2>4. CASE \E i \in Ids : Delete(i)
        BY <2>4 DEF Next
    <2>5. CASE \E order \in Orderings : DOMAIN order = Live /\ Reorder(order)
        BY <2>5 DEF Next
    <2>6. QED
        BY <1>2, <2>1, <2>2, <2>3, <2>4, <2>5 DEF Other
<1>3. CASE DropNext
    BY <1>1, <1>2, <1>3
       DEF DropNext, StartDrag, DropOn, MoveAnswered, RowDrop, RowStep,
           OrderAnswered, Abandon, Poll
<1>4. QED
    BY <1>3 DEF BoardNext

\* The document stays sound beside the tab.
LEMMA DocumentKept ==
    ASSUME BoardInv, [BoardNext]_<<vars, tabVars>>
    PROVE  TypeOK' /\ LiveMinted' /\ PlacesDistinct'
<1>1. TypeOK /\ LiveMinted /\ PlacesDistinct /\ DropSound
    BY DEF BoardInv
<1>2. CASE [Next]_vars
    BY <1>1, <1>2, StepTyped, StepMints, StepPlaces
<1>3. CASE ServeOrder
    <2>1. PICK S \in SUBSET Ids : Listing(drop.order, S)
        BY <1>1, <1>3 DEF ServeOrder, DropSound, OrderSound
    <2>2. TypeOK' /\ place' = place /\ Live' = Live /\ minted' = minted
        BY <1>1, <1>3, <2>1, ServedInOrder DEF ServeOrder
    <2>3. QED
        BY <1>1, <2>2 DEF LiveMinted, PlacesDistinct
<1>4. QED
    BY <1>1, <1>2, <1>3, DocumentSteps

\* What the tab holds stays sound, whatever it does and whatever others do.
LEMMA DropKept ==
    ASSUME BoardInv, [BoardNext]_<<vars, tabVars>>
    PROVE  DropSound'
<1>1. DropSound /\ Fair(snap)
    BY DEF BoardInv, DropSound
<1>2. Fair(Board) /\ Fair(Board')
    <2>1. TypeOK' /\ PlacesDistinct'
        BY DocumentKept
    <2>2. Fair(Board')
        BY <2>1 DEF TypeOK, PlacesDistinct, Fair, Board, RowsOf, Live
    <2>3. QED
        BY <2>2, DocumentFair DEF BoardInv
<1>3. ASSUME NEW i \in Ids, StartDrag(i)
      PROVE  DropSound'
    <2>1. snap' = snap /\ drop'.step = "dragging" /\ drop'.id = i
        BY <1>3 DEF StartDrag
    <2>2. QED
        BY <1>1, <2>1 DEF DropSound
<1>4. ASSUME NEW column \in Statuses, NEW hover \in Ids \cup {None},
             NEW half \in {"before", "after"}, DropOn(column, hover, half)
      PROVE  DropSound'
    <2> DEFINE painted == ColumnRows(column)
    <2>1. snap' = snap /\ drop.step = "dragging" /\ drop.id \in Ids
          /\ (hover = None \/ hover \in ToSet(painted))
        BY <1>1, <1>4 DEF DropOn, DropSound
    <2>2. PICK P \in SUBSET Ids : Listing(painted, P)
        BY <1>1, ColumnListed
    <2>3. PaintSound(painted, hover, half)
        <3>1. ToSet(painted) = P
            BY <2>2 DEF Listing
        <3> HIDE DEF painted
        <3>2. QED
            BY <2>1, <2>2, <3>1 DEF PaintSound
    <2>4. CASE drop' = [step |-> "moving", id |-> drop.id, column |-> column,
                        hover |-> hover, half |-> half, painted |-> painted]
        <3> HIDE DEF painted
        <3>1. drop'.step = "moving" /\ drop'.id = drop.id /\ drop'.column = column
              /\ drop'.hover = hover /\ drop'.half = half /\ drop'.painted = painted
            BY <2>4
        <3>2. QED
            BY <1>1, <2>1, <2>3, <3>1 DEF DropSound
    <2>5. CASE /\ drop.source = column
               /\ drop' = Posted(column, drop.id, column, hover, half, painted, snap,
                     Rebuilt(snap, drop.id, column, Anchor(painted, hover, half), painted))
        <3>1. column # "list"
            BY DEF Statuses
        <3> HIDE DEF painted
        <3>2. OrderSound(Rebuilt(snap, drop.id, column, Anchor(painted, hover, half), painted),
                         column, drop.id, column, hover, half, painted, snap)
            BY <1>1, <2>1, <2>3, <3>1, DropPostSound
        <3>3. Fair(snap')
            BY <1>1, <2>1
        <3>4. QED
            BY <2>5, <3>2, <3>3, PostBegun
    <2>6. QED
        BY <1>4, <2>4, <2>5 DEF DropOn
<1>5. ASSUME ServeMove
      PROVE  DropSound'
    <2>1. snap' = snap /\ drop.id \in Ids /\ drop.column \in Statuses
          /\ PaintSound(drop.painted, drop.hover, drop.half)
        BY <1>1, <1>5 DEF ServeMove, DropSound
    <2>2. CASE drop' = [step |-> "moved", id |-> drop.id, column |-> drop.column,
                        hover |-> drop.hover, half |-> drop.half,
                        painted |-> drop.painted, base |-> Board']
        <3>1. drop'.step = "moved" /\ drop'.id = drop.id /\ drop'.column = drop.column
              /\ drop'.hover = drop.hover /\ drop'.half = drop.half
              /\ drop'.painted = drop.painted /\ drop'.base = Board'
            BY <2>2
        <3>2. QED
            BY <1>1, <1>2, <2>1, <3>1 DEF DropSound
    <2>3. CASE drop' = Idle
        <3>1. drop'.step = "idle"
            BY <2>3 DEF Idle
        <3>2. QED
            BY <1>1, <2>1, <3>1 DEF DropSound
    <2>4. QED
        BY <1>5, <2>2, <2>3 DEF ServeMove
<1>6. ASSUME MoveAnswered
      PROVE  DropSound'
    <2> DEFINE order == Rebuilt(drop.base, drop.id, drop.column,
                                Anchor(drop.painted, drop.hover, drop.half), drop.painted)
    <2>1. /\ drop.id \in Ids /\ drop.column \in Statuses
          /\ PaintSound(drop.painted, drop.hover, drop.half)
          /\ Fair(drop.base) /\ snap' = drop.base
          /\ drop' = Posted("moved", drop.id, drop.column, drop.hover, drop.half,
                            drop.painted, drop.base, order)
        BY <1>1, <1>6 DEF MoveAnswered, DropSound
    <2>2. OrderSound(order, "moved", drop.id, drop.column, drop.hover, drop.half,
                     drop.painted, drop.base)
        BY <2>1, DropPostSound
    <2> HIDE DEF order
    <2>3. QED
        BY <2>1, <2>2, PostBegun
<1>7. ASSUME NEW i \in Ids, NEW hover \in Ids \cup {None}, NEW half \in {"before", "after"},
             RowDrop(i, hover, half)
      PROVE  DropSound'
    <2> DEFINE F == Members(snap, GroupOf(snap, i))
               P == shown \cap F
               full == ByRank(snap, F)
               painted == ByRank(snap, P)
               anchor == Anchor(painted, hover, half)
               order == Rebuilt(snap, i, "open", anchor, full)
    <2>1. /\ i \in RowsOf(snap) /\ snap.status[i] = "open" /\ hover \in P \cup {None}
          /\ anchor # i /\ snap' = snap
          /\ drop' = Posted("list", i, "open", hover, half, painted, snap, order)
        BY <1>7 DEF RowDrop
    <2>2. P \in SUBSET F
        OBVIOUS
    <2>3. OrderSound(order, "list", i, "open", hover, half, painted, snap)
        <3> HIDE DEF P
        <3>1. QED
            BY <1>1, <2>1, <2>2, ListPostSound
    <2> HIDE DEF painted, order
    <2>4. QED
        BY <1>1, <2>1, <2>3, PostBegun
<1>8. ASSUME NEW i \in Ids, NEW half \in {"before", "after"}, RowStep(i, half)
      PROVE  DropSound'
    <2> DEFINE group == GroupOf(snap, i)
               F == Members(snap, group)
               peers == ByRank(snap, F)
               at == At(peers, i)
               with == IF half = "before" THEN at - 1 ELSE at + 1
               order == Grouped(snap, RowsOf(snap), group,
                                [peers EXCEPT ![at] = peers[with], ![with] = i])
    <2>1. /\ i \in shown /\ i \in RowsOf(snap) /\ snap.status[i] = "open" /\ snap' = snap
          /\ i # IF half = "before" THEN Head(Within(peers, shown)) ELSE Last(Within(peers, shown))
          /\ drop' = Posted("list", i, "open", peers[with], half, peers, snap, order)
        BY <1>8 DEF RowStep
    <2>2. F \in SUBSET RowsOf(snap) /\ i \in F
        BY <2>1 DEF Members
    <2>3. Listing(peers, F)
        <3> HIDE DEF F
        <3>1. QED
            BY <1>1, <2>2, RankListed
    <2>4. with \in 1..Len(peers)
        <3> HIDE DEF F, peers
        <3>1. QED
            BY <2>1, <2>2, <2>3, NeighbourThere
    <2>5. OrderSound(order, "list", i, "open", peers[with], half, peers, snap)
        <3>1. peers = ByRank(snap, Members(snap, GroupOf(snap, i))) /\ at = At(peers, i)
              /\ with = IF half = "before" THEN at - 1 ELSE at + 1
            OBVIOUS
        <3> HIDE DEF peers, at, with
        <3>2. QED
            BY <1>1, <2>1, <2>4, <3>1, StepPostSound
    <2> HIDE DEF peers, with, order
    <2>6. QED
        BY <1>1, <2>1, <2>5, PostBegun
<1>9. ASSUME ServeOrder
      PROVE  DropSound'
    <2>1. drop = Posted(drop.view, drop.id, drop.column, drop.hover, drop.half,
                        drop.painted, drop.base, drop.order)
          /\ drop' = [drop EXCEPT !.step = "ordered", !.base = Board'] /\ snap' = snap
        BY <1>1, <1>9 DEF ServeOrder, DropSound
    <2>2. drop'.step = "ordered" /\ drop'.base = Board'
        BY <2>1 DEF Posted
    <2>3. QED
        BY <1>1, <1>2, <2>1, <2>2 DEF DropSound
<1>10. ASSUME Fair(snap'), drop' = Idle
       PROVE  DropSound'
    BY <1>10 DEF DropSound, Idle
<1>11. ASSUME Fair(snap'), drop' = drop
       PROVE  DropSound'
    BY <1>1, <1>11 DEF DropSound
<1>12. OrderAnswered => DropSound'
    BY <1>1, <1>10 DEF OrderAnswered, DropSound
<1>13. Abandon => DropSound'
    BY <1>1, <1>10 DEF Abandon
<1>14. Poll => DropSound'
    BY <1>2, <1>11 DEF Poll
<1>15. Other => DropSound'
    BY <1>1, <1>11 DEF Other
<1>16. CASE DropNext
    BY <1>3, <1>4, <1>5, <1>6, <1>7, <1>8, <1>9, <1>12, <1>13, <1>14, <1>15, <1>16 DEF DropNext
<1>17. CASE UNCHANGED tabVars
    BY <1>1, <1>11, <1>17 DEF tabVars
<1>18. QED
    BY <1>16, <1>17 DEF BoardNext

\* The document and the tab are sound together.
LEMMA BoardInvariant == BoardSpec => []BoardInv
<1>1. Init /\ TabInit => BoardInv
    <2> SUFFICES ASSUME Init, TabInit PROVE BoardInv
        OBVIOUS
    <2>1. TypeOK
        BY DEF Init, TypeOK, AnyWorkspace, Statuses, Graphs
    <2>2. LiveMinted /\ PlacesDistinct
        BY DEF Init, LiveMinted, PlacesDistinct, Live
    <2>3. Fair(snap)
        BY <2>1, <2>2, DocumentFair DEF TabInit
    <2>4. drop.step = "idle"
        BY DEF TabInit, Idle
    <2>5. QED
        BY <2>1, <2>2, <2>3, <2>4 DEF BoardInv, DropSound
<1>2. BoardInv /\ [BoardNext]_<<vars, tabVars>> => BoardInv'
    BY DocumentKept, DropKept DEF BoardInv
<1>3. QED
    BY <1>1, <1>2, PTL DEF BoardSpec

\* What the step that serves an order does.
LEMMA OrderServes ==
    ASSUME BoardInv, [BoardNext]_<<vars, tabVars>>, OrderServed
    PROVE  /\ Reorder(Listed) /\ drop'.id = drop.id
           /\ status' = status /\ workspace' = workspace /\ Live' = Live
           /\ \A j, k \in Live : SameGroup(j, k) /\ Precedes(drop.order, j, k)
                 => RankedBefore(j, k)'
<1>1. ServeOrder
    <2>1. drop.step = "ordering" /\ drop'.step = "ordered"
        BY DEF OrderServed
    <2>2. ASSUME drop' = drop PROVE FALSE
        BY <2>1, <2>2
    <2>3. ASSUME drop' = Idle PROVE FALSE
        BY <2>1, <2>3 DEF Idle
    <2>4. ASSUME drop = Idle PROVE FALSE
        BY <2>1, <2>4 DEF Idle
    <2>5. CASE DropNext
        BY <2>1, <2>2, <2>3, <2>4, <2>5
           DEF DropNext, StartDrag, Gesture, DropOn, ServeMove, MoveAnswered, RowDrop,
               RowStep, OrderAnswered, Abandon, Poll, Other
    <2>6. QED
        BY <2>2, <2>5 DEF BoardNext, tabVars
<1>2. PICK S \in SUBSET Ids : Listing(drop.order, S)
    BY <1>1 DEF ServeOrder, BoardInv, DropSound, OrderSound
<1>3. drop'.id = drop.id
    <2>1. drop = Posted(drop.view, drop.id, drop.column, drop.hover, drop.half,
                        drop.painted, drop.base, drop.order)
          /\ drop' = [drop EXCEPT !.step = "ordered", !.base = Board']
        BY <1>1 DEF ServeOrder, BoardInv, DropSound
    <2>2. QED
        BY <2>1 DEF Posted
<1>4. QED
    BY <1>1, <1>2, <1>3, ServedInOrder DEF ServeOrder, BoardInv

\* A drop lands on its line (board-view.tsx performDrop, ordering.ts
\* rebuildOrder): whatever the column paints, whatever the filter hides and
\* whatever others do to the board between its two posts.
THEOREM DropsLandOnTheirLine == BoardSpec => DropLands
<1> DEFINE Lands == OrderServed /\ DroppedInItsGroup /\ LineStands => LandsOnItsLine
<1>1. BoardInv /\ [BoardNext]_<<vars, tabVars>> => Lands
    <2> SUFFICES ASSUME BoardInv, [BoardNext]_<<vars, tabVars>>, OrderServed,
                        DroppedInItsGroup, LineStands
                 PROVE  LandsOnItsLine
        OBVIOUS
    <2>0. PICK i : i = drop.id
        OBVIOUS
    <2> DEFINE order == drop.order
               peers == Members(drop.base, TargetGroup) \ {i}
               mates == ToSet(drop.painted) \cap peers
               anchor == Anchor(drop.painted, drop.hover, drop.half)
    <2>1. /\ OrderSound(order, drop.view, i, drop.column, drop.hover, drop.half,
                        drop.painted, drop.base)
          /\ i \in RowsOf(drop.base)
        BY <2>0 DEF BoardInv, DropSound, OrderServed, DroppedInItsGroup, Together
    <2>2. PICK P \in SUBSET Ids : Listing(drop.painted, P) /\ drop.hover \in P \cup {None}
        BY <2>1 DEF OrderSound, PaintSound
    <2>3. ToSet(drop.painted) = P /\ drop.half \in {"before", "after"}
        BY <2>1, <2>2 DEF Listing, OrderSound, PaintSound
    <2>4. /\ \A j, k \in mates : Precedes(drop.painted, j, k) => Precedes(order, j, k)
          /\ \A j \in mates :
                IF anchor \in peers => PaintedAt(j) < PaintedAt(anchor)
                THEN Precedes(order, j, i) ELSE Precedes(order, i, j)
        BY <2>0, <2>1 DEF OrderSound, LineKept, TargetGroup, PaintedAt
    <2>5. /\ anchor \in P \cup {None}
          /\ anchor \in P => \A j \in P :
                AboveLine(drop.painted, drop.hover, drop.half, j) <=> PaintedAt(j) < PaintedAt(anchor)
        <3>1. FirstBelow(anchor, P, drop.painted, drop.hover, drop.half)
            BY <2>2, <2>3, AnchorBelowLine
        <3> HIDE DEF anchor
        <3>2. QED
            BY <3>1 DEF FirstBelow, PaintedAt
    <2>6. PaintedMates \subseteq mates /\ mates \subseteq P
        BY <2>0, <2>3 DEF PaintedMates, Together, Members
    <2>7. \A j \in PaintedMates :
             j \in AboveTheLine <=> (anchor \in peers => PaintedAt(j) < PaintedAt(anchor))
        <3>1. CASE anchor \in peers
            <4>1. anchor \in P
                BY <2>5, <3>1 DEF Members, RowsOf
            <4>2. \A j \in PaintedMates :
                     j \in AboveTheLine <=> AboveLine(drop.painted, drop.hover, drop.half, j)
                BY DEF AboveTheLine, AboveLine, PaintedAt
            <4>3. QED
                BY <2>5, <2>6, <3>1, <4>1, <4>2
        <3>2. CASE anchor \notin peers
            BY <2>0, <3>2 DEF LineStands
        <3>3. QED
            BY <3>1, <3>2
    <2>8. /\ drop'.id = i
          /\ \A j, k \in Live : SameGroup(j, k) /\ Precedes(order, j, k)
                => RankedBefore(j, k)'
        BY <2>0, OrderServes
    <2>9. \A j \in PaintedMates \cup {i} : j \in Live /\ GroupOf(Board, j) = TargetGroup
        BY <2>0 DEF PaintedMates, DroppedInItsGroup, Together
    <2>10. \A j, k \in PaintedMates \cup {i} : SameGroup(j, k)
        BY <2>9 DEF GroupOf, Board, SameGroup
    <2>11. AboveTheLine \subseteq PaintedMates
        BY DEF AboveTheLine
    <2> HIDE DEF order, peers, mates, anchor
    <2>12. ASSUME NEW j \in AboveTheLine PROVE RankedBefore(j, drop.id)'
        <3>1. Precedes(order, j, i)
            BY <2>4, <2>6, <2>7, <2>11
        <3>2. RankedBefore(j, i)'
            BY <2>8, <2>9, <2>10, <2>11, <3>1
        <3>3. QED
            BY <2>8, <3>2 DEF RankedBefore
    <2>13. ASSUME NEW j \in PaintedMates \ AboveTheLine PROVE RankedBefore(drop.id, j)'
        <3>1. Precedes(order, i, j)
            BY <2>4, <2>6, <2>7
        <3>2. RankedBefore(i, j)'
            BY <2>8, <2>9, <2>10, <3>1
        <3>3. QED
            BY <2>8, <3>2 DEF RankedBefore
    <2>14. ASSUME NEW j \in PaintedMates, NEW k \in PaintedMates, PaintedAt(j) < PaintedAt(k)
           PROVE  RankedBefore(j, k)'
        <3>1. Precedes(drop.painted, j, k)
            BY <2>2, <2>6, <2>14, PrecedesIsAt DEF PaintedAt
        <3>2. Precedes(order, j, k)
            BY <2>4, <2>6, <3>1
        <3>3. QED
            BY <2>8, <2>9, <2>10, <3>2
    <2>15. QED
        BY <2>12, <2>13, <2>14 DEF LandsOnItsLine
<1>2. DropLands <=> [][Lands]_<<vars, tabVars>>
    BY DEF DropLands
<1>3. QED
    BY <1>1, <1>2, BoardInvariant, PTL DEF BoardSpec

\* An order built on the board as it is moves no card but the one dragged
\* (ordering.ts groupedIdOrder): the other groups stay as they were, and so does
\* its own where that was painted in full and by rank.
THEOREM DropsMoveNoOtherCard == BoardSpec => OnlyTheCardMoves
<1> DEFINE Others == OrderServed /\ Board = drop.base =>
                        \A i, j \in Live \ {drop.id} :
                            SameGroup(i, j) /\ RankedBefore(i, j)
                                /\ (GroupOf(Board, i) # TargetGroup \/ PaintedByRank)
                            => RankedBefore(i, j)'
<1>1. BoardInv /\ [BoardNext]_<<vars, tabVars>> => Others
    <2> SUFFICES ASSUME BoardInv, [BoardNext]_<<vars, tabVars>>, OrderServed,
                        Board = drop.base,
                        NEW i \in Live \ {drop.id}, NEW j \in Live \ {drop.id},
                        SameGroup(i, j), RankedBefore(i, j),
                        GroupOf(Board, i) # TargetGroup \/ PaintedByRank
                 PROVE  RankedBefore(i, j)'
        OBVIOUS
    <2>1. RestByRank(drop.order, drop.view, drop.base, drop.id, drop.column, drop.painted)
        BY DEF BoardInv, DropSound, OrderServed, OrderSound
    <2>2. i \in RowsOf(drop.base) \ {drop.id} /\ j \in RowsOf(drop.base) \ {drop.id}
        BY DEF RowsOf, Board, Live
    <2>3. GroupOf(drop.base, i) = GroupOf(drop.base, j) /\ Ahead(drop.base, i, j)
        BY DEF GroupOf, Board, SameGroup, RankedBefore, Ahead
    <2>4. Precedes(drop.order, i, j)
        BY <2>1, <2>2, <2>3 DEF RestByRank, PaintedByRank, TargetGroup
    <2>5. QED
        BY <2>4, OrderServes
<1>2. OnlyTheCardMoves <=> [][Others]_<<vars, tabVars>>
    BY DEF OnlyTheCardMoves
<1>3. QED
    BY <1>1, <1>2, BoardInvariant, PTL DEF BoardSpec

============================================================================
