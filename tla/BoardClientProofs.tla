------------------------- MODULE BoardClientProofs -------------------------
(* The types of a tab and of its jobs, and what the reports of its runs are *)
(* worth, and what its undos put back, for every set of ideas, any number   *)
(* of undos at once, any stack and any number of events.                    *)
EXTENDS BoardClient, FiniteSetTheorems, SequenceTheorems, WellFoundedInduction, TLAPS

Phases == {"idle", "posted", "served", "done"}
Fields == {"status", "tag"}

PlanItems == [id : Ideas, steps : Seq(Steps), round : BOOLEAN]
Inverses == {item \in PlanItems : item.steps # <<>>}
Marks == [was : Row \cup {Gone}, is : Row \cup {Gone}]
Deeds == {None} \cup KnownDeeds
Entries == [key : Nat \cup {None}, by : Kinds, items : Seq(Items), deed : [Ideas -> Deeds]]

Jobs == [kind : Kinds, phase : Phases, plan : Seq(PlanItems), step : Nat,
         inverse : {None} \cup Inverses, reply : {None} \cup Views, mark : {None} \cup Marks,
         report : [Ideas -> Results], entry : {None} \cup Entries, start : {None} \cup Boards,
         spoilt : SUBSET Ideas, blind : SUBSET Ideas, deed : [Ideas -> Deeds]]

----------------------------------------------------------------------------
(* What a job knows of its ideas.                                          *)

PlanIds(plan) == {plan[n].id : n \in DOMAIN plan}

OneItemEach(plan) == \A m, n \in DOMAIN plan : plan[m].id = plan[n].id => m = n

\* What a bulk run plans for an idea: a tag run goes through the open column
\* only with an idea of the archive.
Fits(job, item) ==
    /\ job.kind = "tag" =>
          \/ item.steps = <<>>
          \/ item.steps = <<SetTag("tagged")>> /\ ~item.round
          \/ /\ item.steps = <<Restore, SetTag("tagged"), MoveTo("archived")>>
             /\ item.round
             /\ item.id \notin job.spoilt => job.start[item.id].status = "archived"
    /\ job.kind = "archive" => item.steps \in {<<>>, <<MoveTo("archived")>>} /\ ~item.round

\* The report on an idea is true, and no idea of the archive failed half way.
Told(job, result, i, row) ==
    /\ Tells(job, result, i, row)
    /\ job.kind = "tag" /\ result = "failed" /\ i \notin job.blind
       => row.status = job.start[i].status

\* What the idea at work is like, before its next verb.
Reached(job, start, row) ==
    /\ job.step = 1 => row = start
    /\ job.kind = "tag" /\ job.step = 2 => row = [start EXCEPT !.status = "open"]
    /\ job.kind = "tag" /\ job.step = 3 =>
          row = [start EXCEPT !.status = "open", !.tag = "tagged"]

\* The same when the verb has been served: an answer says that it was done, and
\* the first verb is not done but where the job is blind.
Working(job, start, row) ==
    IF job.phase = "posted" THEN Reached(job, start, row)
    ELSE IF job.reply # None
    THEN \E before \in Row : Reached(job, start, before) /\ row = Written(before, StepOf(job))
    ELSE job.kind = "tag" /\ job.step = 1 /\ Target(job) \notin job.blind
         => row.status = start.status

\* What the job knows of the ideas it is done with, and of those to come.
Settled(job, i, board) ==
    IF i \in PlanIds(job.plan) THEN job.report[i] = "none" /\ board[i] = job.start[i]
    ELSE Told(job, job.report[i], i, board[i])

Planful(job) ==
    /\ job \in Jobs /\ job.start \in Boards
    /\ OneItemEach(job.plan)
    /\ \A n \in DOMAIN job.plan : Fits(job, job.plan[n])

\* A job between two ideas.
Ready(job, board) == Planful(job) /\ \A i \in Ideas \ job.spoilt : Settled(job, i, board)

\* A job at work on an idea.
Sound(job, board) ==
    /\ Planful(job)
    /\ job.plan # <<>> /\ Head(job.plan).steps # <<>>
    /\ job.step \in 0..Len(Head(job.plan).steps)
    /\ job.step = 0 => Head(job.plan).round
    /\ job.phase = "served" => job.mark \in Marks
    /\ \A i \in Ideas \ job.spoilt :
          IF i = Target(job) THEN job.report[i] = "none" /\ Working(job, job.start[i], board[i])
          ELSE Settled(job, i, board)

Runs(kind) == kind \in {"tag", "archive"}

\* The invariant: every job is sound, the batch is that of the run at the desk,
\* and an undo that is noted is under way.
JobsSound ==
    /\ jobs \in [Slots -> Jobs]
    /\ \A j \in Slots : IF Busy(j) THEN Sound(jobs[j], rows) ELSE jobs[j].plan = <<>>
    /\ jobs[Desk].kind # "undo"
    /\ \A u \in 1..Undos : Busy(u) => jobs[u].kind = "undo"

TabSound ==
    /\ rows \in Boards /\ revision \in Nat /\ snapshot \in Views /\ poll \in {None} \cup Views
    /\ batch \in {None} \cup Batches
    /\ batch # None <=> Runs(jobs[Desk].kind) /\ Busy(Desk)
    /\ undoing \in BOOLEAN
    /\ undoing => \E u \in 1..Undos : Busy(u)
    /\ stack \in Seq(Entries) /\ Len(stack) <= StackLimit
    /\ undoKey \in Nat \cup {None}
    /\ started \in 0..MaxEvents /\ faults \in 0..MaxEvents /\ restarted \in BOOLEAN

ClientInv == TabSound /\ JobsSound

----------------------------------------------------------------------------
(* Steps, plans and inverses.                                              *)

LEMMA StepForms ==
    ASSUME NEW step \in Steps
    PROVE  /\ Field(step) \in Fields
           /\ step.verb = "update" => step.to \in Tags /\ Field(step) = "tag"
           /\ step.verb # "update" => step.to \in Columns /\ Field(step) = "status"
           /\ \A row \in Row : Written(row, step) \in Row
BY DEF Steps, Restore, MoveTo, SetTag, Field, Columns, Tags, Fields, Written, Row

LEMMA KnownSteps ==
    /\ Restore \in Steps
    /\ \A column \in Columns : MoveTo(column) \in Steps
    /\ \A tag \in Tags : SetTag(tag) \in Steps
    /\ MoveTo("archived") \in Steps /\ SetTag("tagged") \in Steps
    /\ \A column : MoveTo(column) # Restore
    /\ \A tag : SetTag(tag) # Restore
BY DEF Steps, Restore, MoveTo, SetTag, Columns, Tags

\* The two ways of an update: on its own, or through the open column.
LEMMA UpdateForms ==
    ASSUME NEW i, NEW row, NEW tag \in Tags
    PROVE  /\ UpdateSteps(i, row, tag) \in Seq(Steps) \ {<<>>}
           /\ \/ UpdateSteps(i, row, tag) = <<SetTag(tag)>>
              \/ /\ UpdateSteps(i, row, tag) = <<Restore, SetTag(tag), MoveTo("archived")>>
                 /\ row.status = "archived"
<1>1. SetTag(tag) \in Steps /\ Restore \in Steps /\ MoveTo("archived") \in Steps
    BY KnownSteps
<1>2. /\ <<SetTag(tag)>> \in Seq(Steps) \ {<<>>}
      /\ <<Restore, SetTag(tag), MoveTo("archived")>> \in Seq(Steps) \ {<<>>}
    BY <1>1
<1>3. QED
    BY <1>2 DEF UpdateSteps

LEMMA RoundTrips ==
    /\ ~RoundTrip(<<>>)
    /\ \A step : RoundTrip(<<step>>) <=> step = Restore
    /\ \A first, second : RoundTrip(<<Restore, first, second>>)
BY DEF RoundTrip

LEMMA PlannedTyped ==
    ASSUME NEW i \in Ideas, NEW steps \in Seq(Steps)
    PROVE  /\ Planned(i, steps) \in PlanItems
           /\ Planned(i, steps).id = i /\ Planned(i, steps).steps = steps
           /\ Planned(i, steps).round = RoundTrip(steps)
BY DEF Planned, PlanItems, RoundTrip

LEMMA InverseTyped ==
    ASSUME NEW i \in Ideas, NEW row \in Row \cup {Gone}, NEW step \in Steps, Invertible(row, step)
    PROVE  InverseSteps(i, row, step) \in Seq(Steps) \ {<<>>}
<1>1. row \in Row
    BY DEF Invertible
<1>2. CASE step.verb = "update"
    <2>1. row.tag \in Tags
        BY <1>1 DEF Row
    <2>2. QED
        BY <1>2, <2>1, UpdateForms DEF InverseSteps
<1>3. CASE step.verb # "update"
    <2>1. row.status \in Columns
        BY <1>1, <1>3 DEF Row, Invertible, Columns
    <2>2. MoveTo(row.status) \in Steps
        BY <2>1, KnownSteps
    <2>3. QED
        BY <1>3, <2>2 DEF InverseSteps
<1>4. QED
    BY <1>2, <1>3

\* What an inverse expects of the fields it writes.
LEMMA ExpectationTyped ==
    ASSUME NEW steps \in Seq(Steps), NEW after \in Row
    PROVE  Expectation(steps, after) \in Expectations
<1> DEFINE written == {Field(steps[n]) : n \in DOMAIN steps}
<1>1. written \in SUBSET {"status", "tag"}
    <2>1. \A n \in DOMAIN steps : steps[n] \in Steps
        OBVIOUS
    <2>2. QED
        BY <2>1, StepForms DEF Fields
<1>2. \A f \in {"status", "tag"} : after[f] \in Columns \cup {"declined"} \cup Tags
    BY DEF Row
<1>3. [f \in written |-> after[f]] \in [written -> Columns \cup {"declined"} \cup Tags]
    <2> HIDE DEF written
    <2>1. QED
        BY <1>1, <1>2
<1>4. QED
    BY <1>1, <1>3 DEF Expectation, Expectations


----------------------------------------------------------------------------
(* Numbers and folds.                                                      *)

LEMMA LeastNumber ==
    ASSUME NEW S \in SUBSET Nat, S # {}
    PROVE  \E m \in S : \A k \in S : m <= k
<1> DEFINE less == {pair \in Nat \X Nat : pair[1] < pair[2]}
<1>1. IsWellFoundedOn(less, Nat)
    BY NatLessThanWellFounded DEF OpToRel
<1>2. PICK m \in S : \A k \in S : ~(<<k, m>> \in less)
    <2> HIDE DEF less
    <2>1. S \subseteq Nat
        OBVIOUS
    <2>2. QED
        BY <1>1, <2>1, WFMin
<1>3. \A k \in S : m <= k
    <2> SUFFICES ASSUME NEW k \in S PROVE m <= k
        OBVIOUS
    <2>1. k \in Nat /\ m \in Nat
        OBVIOUS
    <2>2. ~(k < m)
        BY <1>2, <2>1
    <2>3. QED
        BY <2>1, <2>2
<1>4. QED
    BY <1>3

\* The greatest index of some is one of them.
LEMMA GreatestIndex ==
    ASSUME NEW n \in Nat, NEW S \in SUBSET (1..n), S # {}
    PROVE  Max(S) \in S /\ \A k \in S : Max(S) >= k
<1> DEFINE before == {n - k : k \in S}
<1>1. before \in SUBSET Nat /\ before # {}
    <2>1. \A k \in S : k \in 1..n
        OBVIOUS
    <2>2. \A k \in S : n - k \in Nat
        BY <2>1
    <2>3. QED
        BY <2>2
<1>2. PICK m \in before : \A k \in before : m <= k
    <2> HIDE DEF before
    <2>1. QED
        BY <1>1, LeastNumber
<1>3. PICK s \in S : m = n - s
    BY <1>2
<1>4. \A k \in S : s >= k
    <2> SUFFICES ASSUME NEW k \in S PROVE s >= k
        OBVIOUS
    <2>1. n - k \in before /\ k \in 1..n /\ s \in 1..n
        OBVIOUS
    <2>2. n - s <= n - k
        <3> HIDE DEF before
        <3>1. QED
            BY <1>2, <1>3, <2>1
    <2>3. QED
        BY <2>1, <2>2
<1>5. QED
    BY <1>4 DEF Max

\* A set of numbers that holds 0 and the next of each is that of all numbers.
LEMMA Counting ==
    ASSUME NEW S \in SUBSET Nat, 0 \in S, \A n \in S : n + 1 \in S
    PROVE  S = Nat
<1> DEFINE missing == Nat \ S
<1>1. SUFFICES ASSUME missing # {} PROVE FALSE
    OBVIOUS
<1>2. PICK m \in missing : \A k \in missing : m <= k
    <2>1. missing \in SUBSET Nat
        OBVIOUS
    <2> HIDE DEF missing
    <2>2. QED
        BY <1>1, <2>1, LeastNumber
<1>3. m \in Nat /\ m # 0
    OBVIOUS
<1>4. m - 1 \in Nat /\ ~(m <= m - 1)
    BY <1>3
<1>5. m - 1 \in S
    BY <1>2, <1>4
<1>6. m - 1 + 1 = m
    BY <1>3
<1>7. QED
    BY <1>5, <1>6

\* FlattenSeq, one list after another.
LEMMA FlatDefined ==
    ASSUME NEW T, NEW lists \in Seq(Seq(T)), Len(lists) # 0
    PROVE  \E flat : /\ DOMAIN flat = 1..Len(lists)
                     /\ \A n \in 1..Len(lists) :
                           flat[n] = IF n = 1 THEN lists[1] ELSE flat[n - 1] \o lists[n]
                     /\ FlattenSeq(lists) = flat[Len(lists)]
<1> DEFINE all == 1..Len(lists)
           Next1(g, n) == IF n = 1 THEN lists[n] ELSE g[n - 1] \o lists[n]
           Obeys(g, n) == \A k \in all : k <= n => g[k] = Next1(g, k)
           reached == {n \in Nat : \E g : Obeys(g, n)}
<1>0. Len(lists) \in Nat
    OBVIOUS
<1>1. 0 \in reached
    OBVIOUS
<1>2. \A n \in reached : n + 1 \in reached
    <2> SUFFICES ASSUME NEW n \in Nat, NEW g, Obeys(g, n) PROVE n + 1 \in reached
        OBVIOUS
    <2> DEFINE h == [k \in all |-> IF k <= n THEN g[k] ELSE Next1(g, k)]
    <2>1. ASSUME NEW k \in all, k <= n + 1 PROVE h[k] = Next1(h, k)
        <3>1. h[k] = Next1(g, k)
            OBVIOUS
        <3>2. CASE k = 1
            BY <3>1, <3>2
        <3>3. CASE k # 1
            <4>1. k - 1 \in all /\ k - 1 <= n
                BY <2>1, <3>3
            <4>2. h[k - 1] = g[k - 1]
                BY <4>1
            <4>3. QED
                BY <3>1, <3>3, <4>2
        <3>4. QED
            BY <3>2, <3>3
    <2>2. Obeys(h, n + 1)
        BY <2>1
    <2> HIDE DEF h, Obeys
    <2>3. QED
        BY <2>2
<1>3. reached = Nat
    <2>1. reached \in SUBSET Nat
        OBVIOUS
    <2> HIDE DEF reached
    <2>2. QED
        BY <1>1, <1>2, <2>1, Counting
<1>4. \E g : g = [n \in all |-> Next1(g, n)]
    <2>1. Len(lists) \in reached
        <3> HIDE DEF reached
        <3>1. QED
            BY <1>0, <1>3
    <2>2. PICK g : Obeys(g, Len(lists))
        BY <2>1
    <2> DEFINE h == [n \in all |-> g[n]]
    <2>3. \A n \in all : g[n] = Next1(g, n)
        BY <2>2
    <2>4. \A n \in all : n # 1 => n - 1 \in all
        OBVIOUS
    <2>5. \A n \in all : Next1(h, n) = Next1(g, n)
        BY <2>4
    <2>6. h = [n \in all |-> Next1(h, n)]
        BY <2>3, <2>5
    <2> HIDE DEF h
    <2>7. QED
        BY <2>6
<1> DEFINE found == CHOOSE g : g = [n \in all |-> Next1(g, n)]
<1>5. found = [n \in all |-> Next1(found, n)]
    <2> HIDE DEF Next1
    <2>1. QED
        BY <1>4
<1>6. FlattenSeq(lists) = found[Len(lists)]
    BY DEF FlattenSeq
<1> HIDE DEF found
<1>7. DOMAIN found = 1..Len(lists)
    BY <1>5
<1>8. \A n \in all : found[n] = Next1(found, n)
    <2> HIDE DEF Next1, all
    <2>1. QED
        BY <1>5
<1>9. QED
    BY <1>6, <1>7, <1>8

\* Lists of steps, one after another, are a list of steps.
LEMMA FlatTyped ==
    ASSUME NEW T, NEW lists \in Seq(Seq(T))
    PROVE  FlattenSeq(lists) \in Seq(T)
<1>1. CASE Len(lists) = 0
    <2>1. lists = <<>>
        BY <1>1
    <2>2. FlattenSeq(lists) = <<>>
        BY <2>1 DEF FlattenSeq
    <2>3. QED
        BY <2>2
<1>2. CASE Len(lists) # 0
    <2>1. PICK flat : /\ DOMAIN flat = 1..Len(lists)
                      /\ \A n \in 1..Len(lists) :
                            flat[n] = IF n = 1 THEN lists[1] ELSE flat[n - 1] \o lists[n]
                      /\ FlattenSeq(lists) = flat[Len(lists)]
        BY <1>2, FlatDefined
    <2>2. Len(lists) \in Nat /\ \A n \in 1..Len(lists) : lists[n] \in Seq(T)
        OBVIOUS
    <2> DEFINE typed == {n \in Nat : n \in 1..Len(lists) => flat[n] \in Seq(T)}
    <2>3. 0 \in typed
        OBVIOUS
    <2>4. ASSUME NEW n \in typed, n + 1 \in 1..Len(lists) PROVE flat[n + 1] \in Seq(T)
        <3> DEFINE m == n + 1
        <3>1. m \in 1..Len(lists) /\ m - 1 = n /\ n \in Nat
            BY <2>4
        <3>2. lists[m] \in Seq(T) /\ (flat[m] = IF m = 1 THEN lists[1] ELSE flat[m - 1] \o lists[m])
            BY <2>1, <2>2, <3>1
        <3>3. m # 1 => flat[n] \in Seq(T)
            <4>1. m # 1 => n \in 1..Len(lists)
                BY <2>2, <3>1
            <4>2. QED
                BY <4>1
        <3> HIDE DEF typed
        <3>4. CASE m = 1
            BY <3>2, <3>4
        <3>5. CASE m # 1
            <4> HIDE DEF m
            <4>1. flat[m] = flat[n] \o lists[m]
                BY <3>1, <3>2, <3>5
            <4>2. flat[n] \in Seq(T) /\ lists[m] \in Seq(T)
                BY <3>2, <3>3, <3>5
            <4>4. flat[m] \in Seq(T)
                BY <4>1, <4>2
            <4>3. QED
                BY <4>4 DEF m
        <3>6. QED
            BY <3>4, <3>5
    <2>5. typed = Nat
        <3>1. typed \in SUBSET Nat
            OBVIOUS
        <3>2. \A n \in typed : n + 1 \in typed
            <4> SUFFICES ASSUME NEW n \in typed PROVE n + 1 \in typed
                OBVIOUS
            <4>1. n + 1 \in Nat
                OBVIOUS
            <4>2. QED
                BY <2>4, <4>1
        <3> HIDE DEF typed
        <3>3. QED
            BY <2>3, <3>1, <3>2, Counting
    <2>6. QED
        BY <1>2, <2>1, <2>2, <2>5
<1>3. QED
    BY <1>1, <1>2

\* reboundPlan gives a list of steps, whatever the items are.
LEMMA ReboundTyped ==
    ASSUME NEW i \in Ideas, NEW items \in Seq(Items), NEW row
    PROVE  Rebound(i, items, row) \in Seq(Steps)
<1> DEFINE lists == [n \in DOMAIN items |-> Replayed(i, items, n, row)]
<1>1. ASSUME NEW n \in DOMAIN items PROVE Replayed(i, items, n, row) \in Seq(Steps)
    <2>1. items[n] \in Items
        OBVIOUS
    <2>2. items[n].steps \in Seq(Steps) /\ items[n].steps # <<>> /\ Head(items[n].steps) \in Steps
        BY <2>1 DEF Items
    <2>3. ASSUME ~Moves(items[n])
          PROVE  UpdateSteps(i, row, Head(items[n].steps).to) \in Seq(Steps)
        <3>1. Head(items[n].steps).to \in Tags
            BY <2>2, <2>3, StepForms DEF Moves
        <3>2. QED
            BY <3>1, UpdateForms
    <2>4. QED
        BY <2>2, <2>3 DEF Replayed
<1>2. DOMAIN items = 1..Len(items) /\ Len(items) \in Nat
    OBVIOUS
<1>3. lists \in Seq(Seq(Steps))
    <2>1. lists \in [1..Len(items) -> Seq(Steps)]
        BY <1>1, <1>2
    <2>2. QED
        BY <1>2, <2>1
<1> HIDE DEF lists
<1>4. QED
    BY <1>3, FlatTyped DEF Rebound, lists


----------------------------------------------------------------------------
(* Plans.                                                                  *)

\* A list with no repeats.
Listed(s, S) == s \in Seq(S) /\ \A m, n \in DOMAIN s : s[m] = s[n] => m = n

LEMMA SetIsListed ==
    ASSUME NEW S, IsFiniteSet(S)
    PROVE  Listed(SetToSeq(S), S)
<1>1. Cardinality(S) \in Nat /\ ExistsBijection(1..Cardinality(S), S)
    BY FS_CardinalityType
<1>2. PICK f : f \in Bijection(1..Cardinality(S), S)
    BY <1>1 DEF ExistsBijection
<1>3. f \in [1..Cardinality(S) -> S] /\ IsInjective(f)
    BY <1>2 DEF Bijection, Injection
<1>4. SetToSeq(S) \in [1..Cardinality(S) -> S] /\ IsInjective(SetToSeq(S))
    BY <1>3 DEF SetToSeq
<1> DEFINE s == SetToSeq(S)
           c == Cardinality(S)
<1>5. s \in [1..c -> S] /\ c \in Nat /\ IsInjective(s)
    BY <1>1, <1>4
<1> HIDE DEF s, c
<1>6. s \in Seq(S)
    BY <1>5
<1>7. \A m, n \in DOMAIN s : s[m] = s[n] => m = n
    BY <1>5 DEF IsInjective
<1>8. QED
    BY <1>6, <1>7 DEF Listed, s

\* A numbering of a set without repeats, by as many numbers as it has members,
\* uses them all.
LEMMA NumbersAreUsed ==
    ASSUME NEW S, IsFiniteSet(S), NEW f, \A x \in S : f[x] \in 1..Cardinality(S),
           \A x, y \in S : f[x] = f[y] => x = y
    PROVE  \A n \in 1..Cardinality(S) : \E x \in S : f[x] = n
<1> DEFINE g == [x \in S |-> f[x]]
           c == Cardinality(S)
<1>1. c \in Nat
    BY FS_CardinalityType
<1>2. g \in Injection(S, 1..c)
    BY DEF Injection, IsInjective
<1>3. IsFiniteSet(1..c) /\ Cardinality(1..c) = c
    BY <1>1, FS_Interval
<1>4. g \in Surjection(S, 1..c)
    <2> HIDE DEF g
    <2>1. QED
        BY <1>2, <1>3, FS_Injection
<1>5. QED
    BY <1>4 DEF Surjection

\* Numbers in order are a list of them.
LEMMA InOrderLists ==
    ASSUME NEW S, IsFiniteSet(S), \A m \in S : m \in Nat
    PROVE  Listed(InOrder(S), S)
<1> DEFINE upto(m) == {k \in S : k <= m}
           at == [m \in S |-> Cardinality(upto(m))]
           order == InOrder(S)
<1>1. IsFiniteSet(S) /\ Cardinality(S) \in Nat /\ \A m \in S : m \in Nat
    BY FS_CardinalityType
<1>2. \A m \in S : IsFiniteSet(upto(m)) /\ at[m] = Cardinality(upto(m)) /\ at[m] \in 1..Cardinality(S)
    <2> SUFFICES ASSUME NEW m \in S
                 PROVE  /\ IsFiniteSet(upto(m)) /\ at[m] = Cardinality(upto(m))
                        /\ at[m] \in 1..Cardinality(S)
        OBVIOUS
    <2>1. upto(m) \in SUBSET S /\ m \in upto(m)
        BY <1>1
    <2> HIDE DEF upto
    <2>2. /\ IsFiniteSet(upto(m)) /\ Cardinality(upto(m)) \in Nat
          /\ Cardinality(upto(m)) <= Cardinality(S) /\ Cardinality(upto(m)) # 0
        BY <1>1, <2>1, FS_Subset, FS_CardinalityType, FS_EmptySet
    <2>3. QED
        BY <1>1, <2>2
<1>3. \A m, n \in S : at[m] = at[n] => m = n
    <2>1. \A m, n \in S : m < n => at[m] # at[n]
        <3> SUFFICES ASSUME NEW m \in S, NEW n \in S, m < n PROVE at[m] # at[n]
            OBVIOUS
        <3>1. m \in Nat /\ n \in Nat /\ n \in upto(n) /\ n \notin upto(m)
            BY <1>1
        <3>2. \A k \in S : k <= m => k <= n
            BY <1>1, <3>1
        <3>3. upto(m) \in SUBSET upto(n)
            BY <3>2
        <3> HIDE DEF upto, at
        <3>4. QED
            BY <1>2, <3>1, <3>3, FS_Subset
    <2> HIDE DEF at
    <2>2. QED
        BY <1>1, <2>1
<1>4. \A n \in 1..Cardinality(S) : \E m \in S : at[m] = n
    <2>1. IsFiniteSet(S) /\ \A x \in S : at[x] \in 1..Cardinality(S)
        BY <1>1, <1>2
    <2> HIDE DEF at
    <2>2. \A x, y \in S : at[x] = at[y] => x = y
        BY <1>3
    <2>3. QED
        BY <2>1, <2>2, NumbersAreUsed
<1>5. DOMAIN order = 1..Cardinality(S)
    BY DEF InOrder
<1>6. \A n \in 1..Cardinality(S) : order[n] \in S /\ at[order[n]] = n
    <2> SUFFICES ASSUME NEW n \in 1..Cardinality(S) PROVE order[n] \in S /\ at[order[n]] = n
        OBVIOUS
    <2>1. \E m \in S : Cardinality({k \in S : k <= m}) = n
        BY <1>4
    <2>2. order[n] = CHOOSE m \in S : Cardinality({k \in S : k <= m}) = n
        BY DEF InOrder
    <2> HIDE DEF order
    <2>3. order[n] \in S /\ Cardinality({k \in S : k <= order[n]}) = n
        BY <2>1, <2>2
    <2>4. QED
        BY <2>3
<1>7. order = [n \in 1..Cardinality(S) |-> order[n]]
    BY DEF InOrder
<1> HIDE DEF order, at
<1>8. order \in [1..Cardinality(S) -> S]
    BY <1>6, <1>7
<1>9. order \in Seq(S)
    BY <1>1, <1>8
<1>10. \A m, n \in DOMAIN order : order[m] = order[n] => m = n
    BY <1>5, <1>6
<1>11. QED
    BY <1>9, <1>10 DEF Listed, order

\* The items of an idea are items of the entry, and its ideas come once each.
LEMMA EntryLists ==
    ASSUME NEW entry, entry.items \in Seq(Items)
    PROVE  /\ \A i : ItemsOf(entry, i) \in Seq(Items)
           /\ Listed(IdeasOf(entry), Ideas)
<1> DEFINE items == entry.items
           c == Len(items)
           of(i) == {n \in DOMAIN items : items[n].id = i}
           firsts == {n \in DOMAIN items : \A m \in 1..(n - 1) : items[m].id # items[n].id}
<1>1. /\ c \in Nat /\ DOMAIN items = 1..c
      /\ \A n \in 1..c : items[n] \in Items /\ items[n].id \in Ideas
    <2>1. items \in Seq(Items)
        OBVIOUS
    <2> HIDE DEF items
    <2>2. c \in Nat /\ DOMAIN items = 1..c /\ \A n \in 1..c : items[n] \in Items
        BY <2>1
    <2>3. \A item \in Items : item.id \in Ideas
        BY DEF Items
    <2>4. QED
        BY <2>2, <2>3
<1>2. \A i : ItemsOf(entry, i) = [n \in DOMAIN InOrder(of(i)) |-> items[InOrder(of(i))[n]]]
    BY DEF ItemsOf
<1>3. IdeasOf(entry) = [n \in DOMAIN InOrder(firsts) |-> items[InOrder(firsts)[n]].id]
    BY DEF IdeasOf
<1> HIDE DEF items, c
<1>0. \A S \in SUBSET (1..c) : IsFiniteSet(S) /\ S \subseteq 1..c /\ \A m \in S : m \in Nat
    <2>1. IsFiniteSet(1..c)
        BY <1>1, FS_Interval
    <2>2. \A m \in 1..c : m \in Nat
        BY <1>1
    <2>3. QED
        BY <2>1, <2>2, FS_Subset
<1>4. \A i : of(i) \in SUBSET (1..c)
    BY <1>1
<1>5. firsts \in SUBSET (1..c)
    BY <1>1
<1>6. \A m, n \in firsts : items[m].id = items[n].id => m = n
    <2> SUFFICES ASSUME NEW m \in firsts, NEW n \in firsts, items[m].id = items[n].id PROVE m = n
        OBVIOUS
    <2>1. m \in Nat /\ n \in Nat /\ ~(m < n) /\ ~(n < m)
        BY <1>1
    <2>2. QED
        BY <2>1
<1> HIDE DEF of, firsts
<1>7. ASSUME NEW i PROVE ItemsOf(entry, i) \in Seq(Items)
    <2> DEFINE order == InOrder(of(i))
    <2>1. Listed(order, of(i))
        BY <1>0, <1>4, InOrderLists
    <2> HIDE DEF order
    <2>2. Len(order) \in Nat /\ DOMAIN order = 1..Len(order) /\ \A n \in DOMAIN order : order[n] \in of(i)
        BY <2>1 DEF Listed
    <2>3. \A n \in DOMAIN order : items[order[n]] \in Items
        BY <1>1, <1>4, <2>2
    <2>4. ItemsOf(entry, i) = [n \in 1..Len(order) |-> items[order[n]]]
        BY <1>2, <2>2 DEF order
    <2>5. QED
        BY <2>2, <2>3, <2>4
<1>8. Listed(IdeasOf(entry), Ideas)
    <2> DEFINE order == InOrder(firsts)
               ideas == IdeasOf(entry)
    <2>1. Listed(order, firsts)
        BY <1>0, <1>5, InOrderLists
    <2>2. ideas = [n \in DOMAIN order |-> items[order[n]].id]
        BY <1>3
    <2> HIDE DEF order, ideas
    <2>3. /\ Len(order) \in Nat /\ DOMAIN order = 1..Len(order)
          /\ \A n \in DOMAIN order : order[n] \in firsts
          /\ \A m, n \in DOMAIN order : order[m] = order[n] => m = n
        BY <2>1 DEF Listed
    <2>4. \A n \in DOMAIN order : items[order[n]].id \in Ideas
        BY <1>1, <1>5, <2>3
    <2>5. ideas \in Seq(Ideas)
        BY <2>2, <2>3, <2>4
    <2>6. \A m, n \in DOMAIN ideas : ideas[m] = ideas[n] => m = n
        BY <1>6, <2>2, <2>3
    <2>7. QED
        BY <2>5, <2>6 DEF Listed, ideas
<1>9. QED
    BY <1>7, <1>8

\* A plan over a list of ideas.
LEMMA PlanOverList ==
    ASSUME NEW order, Listed(order, Ideas), NEW stepsOf,
           \A n \in DOMAIN order : stepsOf[n] \in Seq(Steps),
           NEW plan, plan = [n \in DOMAIN order |-> Planned(order[n], stepsOf[n])]
    PROVE  /\ plan \in Seq(PlanItems) /\ OneItemEach(plan)
           /\ \A n \in DOMAIN plan :
                 /\ n \in DOMAIN order /\ plan[n].id = order[n] /\ plan[n].id \in Ideas
                 /\ plan[n].steps = stepsOf[n] /\ plan[n].round = RoundTrip(stepsOf[n])
<1>1. /\ Len(order) \in Nat /\ DOMAIN order = 1..Len(order)
      /\ \A n \in DOMAIN order : order[n] \in Ideas
      /\ \A m, n \in DOMAIN order : order[m] = order[n] => m = n
    BY DEF Listed
<1>2. \A n \in DOMAIN order :
         /\ plan[n] \in PlanItems /\ plan[n].id = order[n]
         /\ plan[n].steps = stepsOf[n] /\ plan[n].round = RoundTrip(stepsOf[n])
    <2> SUFFICES ASSUME NEW n \in DOMAIN order
                 PROVE  /\ plan[n] \in PlanItems /\ plan[n].id = order[n]
                        /\ plan[n].steps = stepsOf[n] /\ plan[n].round = RoundTrip(stepsOf[n])
        OBVIOUS
    <2>1. plan[n] = Planned(order[n], stepsOf[n])
        OBVIOUS
    <2>2. order[n] \in Ideas /\ stepsOf[n] \in Seq(Steps)
        BY <1>1
    <2>3. QED
        BY <2>1, <2>2, PlannedTyped
<1>3. DOMAIN plan = DOMAIN order /\ plan \in [1..Len(order) -> PlanItems]
    BY <1>1, <1>2
<1>4. plan \in Seq(PlanItems)
    <2> DEFINE c == Len(order)
    <2>1. c \in Nat /\ plan \in [1..c -> PlanItems]
        BY <1>1, <1>3
    <2> HIDE DEF c
    <2>2. QED
        BY <2>1
<1>5. OneItemEach(plan)
    BY <1>1, <1>2, <1>3 DEF OneItemEach
<1>6. QED
    BY <1>1, <1>2, <1>3, <1>4, <1>5

\* What a bulk run plans for one idea.
LEMMA BulkStepForms ==
    ASSUME NEW i \in Ideas, NEW row \in Row, NEW kind \in {"tag", "archive"}
    PROVE  /\ BulkSteps(kind, i, row) \in Seq(Steps)
           /\ kind = "tag" =>
                 \/ BulkSteps(kind, i, row) \in {<<>>, <<SetTag("tagged")>>}
                 \/ /\ BulkSteps(kind, i, row) = <<Restore, SetTag("tagged"), MoveTo("archived")>>
                    /\ row.status = "archived"
           /\ kind = "archive" => BulkSteps(kind, i, row) \in {<<>>, <<MoveTo("archived")>>}
<1>1. <<>> \in Seq(Steps) /\ <<MoveTo("archived")>> \in Seq(Steps)
    BY KnownSteps
<1>2. "tagged" \in Tags
    BY DEF Tags
<1>3. /\ UpdateSteps(i, row, "tagged") \in Seq(Steps)
      /\ \/ UpdateSteps(i, row, "tagged") = <<SetTag("tagged")>>
         \/ /\ UpdateSteps(i, row, "tagged") = <<Restore, SetTag("tagged"), MoveTo("archived")>>
            /\ row.status = "archived"
    BY <1>2, UpdateForms
<1>4. CASE row.status = "declined"
    BY <1>1, <1>4 DEF BulkSteps
<1>5. CASE row.status # "declined" /\ kind = "tag"
    <2>1. BulkSteps(kind, i, row) =
             IF row.tag = "tagged" THEN <<>> ELSE UpdateSteps(i, row, "tagged")
        BY <1>5 DEF BulkSteps
    <2>2. QED
        BY <1>1, <1>3, <1>5, <2>1
<1>6. CASE row.status # "declined" /\ kind = "archive"
    <2>1. BulkSteps(kind, i, row) = IF row.status = "archived" THEN <<>> ELSE <<MoveTo("archived")>>
        BY <1>6 DEF BulkSteps
    <2>2. QED
        BY <1>1, <1>6, <2>1
<1>7. QED
    BY <1>4, <1>5, <1>6

LEMMA BulkPlanFits ==
    ASSUME rows \in Boards, snapshot \in Views,
           NEW kind \in {"tag", "archive"}, NEW chosen \in SUBSET Ideas,
           \A i \in chosen : snapshot.rows[i] # Gone,
           NEW job, job.kind = kind, job.start = rows,
           job.spoilt = {i \in Ideas : snapshot.rows[i] # rows[i]},
           job.plan = BulkPlan(kind, SetToSeq(chosen))
    PROVE  /\ job.plan \in Seq(PlanItems) /\ OneItemEach(job.plan)
           /\ \A n \in DOMAIN job.plan : Fits(job, job.plan[n])
<1> DEFINE order == SetToSeq(chosen)
           stepsOf == [n \in DOMAIN order |-> BulkSteps(kind, order[n], snapshot.rows[order[n]])]
<1>1. IsFiniteSet(chosen)
    BY ClientAssumption, FS_Subset
<1>2. Listed(order, chosen)
    BY <1>1, SetIsListed
<1> HIDE DEF order
<1>3. \A n \in DOMAIN order : order[n] \in chosen
    <2>1. order \in Seq(chosen)
        BY <1>2 DEF Listed
    <2>2. QED
        BY <2>1
<1>4. Listed(order, Ideas)
    <2>1. order \in Seq(chosen)
        BY <1>2 DEF Listed
    <2>2. order \in Seq(Ideas)
        BY <2>1
    <2>3. QED
        BY <1>2, <2>2 DEF Listed
<1>5. \A i \in Ideas : snapshot.rows[i] \in Row \cup {Gone}
    BY DEF Views, Boards
<1>6. \A n \in DOMAIN order :
         /\ order[n] \in Ideas /\ snapshot.rows[order[n]] \in Row
         /\ stepsOf[n] = BulkSteps(kind, order[n], snapshot.rows[order[n]])
    BY <1>3, <1>5
<1>7. \A n \in DOMAIN order : stepsOf[n] \in Seq(Steps)
    BY <1>6, BulkStepForms
<1>8. job.plan = [n \in DOMAIN order |-> Planned(order[n], stepsOf[n])]
    BY DEF BulkPlan, order
<1> HIDE DEF stepsOf
<1>9. /\ job.plan \in Seq(PlanItems) /\ OneItemEach(job.plan)
      /\ \A n \in DOMAIN job.plan :
            /\ n \in DOMAIN order /\ job.plan[n].id = order[n] /\ job.plan[n].id \in Ideas
            /\ job.plan[n].steps = stepsOf[n] /\ job.plan[n].round = RoundTrip(stepsOf[n])
    BY <1>4, <1>7, <1>8, PlanOverList
<1>10. ASSUME NEW n \in DOMAIN job.plan PROVE Fits(job, job.plan[n])
    <2> DEFINE item == job.plan[n]
               i == order[n]
               row == snapshot.rows[i]
    <2>1. /\ n \in DOMAIN order /\ item.id = i
          /\ item.steps = stepsOf[n] /\ item.round = RoundTrip(stepsOf[n])
        BY <1>9
    <2>2. i \in Ideas /\ row \in Row /\ stepsOf[n] = BulkSteps(kind, i, row)
        BY <1>6, <2>1
    <2>3. i \notin job.spoilt => row = job.start[i]
        BY <2>2
    <2> HIDE DEF item, i, row
    <2>4. CASE kind = "tag"
        <3>1. CASE stepsOf[n] = <<>>
            BY <2>1, <2>4, <3>1 DEF Fits, item
        <3>2. CASE stepsOf[n] = <<SetTag("tagged")>>
            BY <2>1, <2>4, <3>2, RoundTrips, KnownSteps DEF Fits, item
        <3>3. CASE /\ stepsOf[n] = <<Restore, SetTag("tagged"), MoveTo("archived")>>
                   /\ row.status = "archived"
            <4>1. item.round
                BY <2>1, <3>3, RoundTrips
            <4>2. QED
                BY <2>1, <2>3, <2>4, <3>3, <4>1 DEF Fits, item
        <3>4. QED
            BY <2>2, <2>4, <3>1, <3>2, <3>3, BulkStepForms
    <2>5. CASE kind = "archive"
        <3>1. stepsOf[n] \in {<<>>, <<MoveTo("archived")>>}
            BY <2>2, <2>5, BulkStepForms
        <3>2. ~RoundTrip(stepsOf[n])
            BY <3>1, RoundTrips, KnownSteps
        <3>3. QED
            BY <2>1, <2>5, <3>1, <3>2 DEF Fits, item
    <2>6. QED
        BY <2>4, <2>5
<1>11. QED
    BY <1>9, <1>10

\* What an undo plans.
LEMMA UndoPlanTyped ==
    ASSUME NEW entry, entry.items \in Seq(Items)
    PROVE  UndoPlan(entry) \in Seq(PlanItems) /\ OneItemEach(UndoPlan(entry))
<1> DEFINE order == IdeasOf(entry)
           stepsOf == [n \in DOMAIN order |->
               IF Drifted(MergedExpectation(ItemsOf(entry, order[n])), snapshot.rows[order[n]])
               THEN <<>> ELSE Rebound(order[n], ItemsOf(entry, order[n]), snapshot.rows[order[n]])]
<1>1. Listed(order, Ideas)
    BY EntryLists
<1> HIDE DEF order
<1>2. \A n \in DOMAIN order : order[n] \in Ideas
    BY <1>1 DEF Listed
<1>3. \A i : ItemsOf(entry, i) \in Seq(Items)
    BY EntryLists
<1>4. \A n \in DOMAIN order :
         Rebound(order[n], ItemsOf(entry, order[n]), snapshot.rows[order[n]]) \in Seq(Steps)
    BY <1>2, <1>3, ReboundTyped
<1>5. \A n \in DOMAIN order : stepsOf[n] \in Seq(Steps)
    BY <1>4
<1>6. UndoPlan(entry) = [n \in DOMAIN order |-> Planned(order[n], stepsOf[n])]
    BY DEF UndoPlan, order
<1> HIDE DEF stepsOf
<1>7. QED
    BY <1>1, <1>5, <1>6, PlanOverList


----------------------------------------------------------------------------
(* Jobs.                                                                   *)

LEMMA PlanHead ==
    ASSUME NEW plan \in Seq(PlanItems), plan # <<>>, OneItemEach(plan)
    PROVE  /\ Len(plan) \in Nat /\ Len(plan) > 0 /\ DOMAIN plan = 1..Len(plan)
           /\ Head(plan) \in PlanItems /\ Head(plan).id \in Ideas /\ Head(plan) = plan[1]
           /\ Head(plan).steps \in Seq(Steps) /\ Len(Head(plan).steps) \in Nat
           /\ Head(plan).id \in PlanIds(plan)
           /\ Tail(plan) \in Seq(PlanItems) /\ OneItemEach(Tail(plan))
           /\ \A i : i \in PlanIds(Tail(plan)) <=> i \in PlanIds(plan) /\ i # Head(plan).id
           /\ \A n \in DOMAIN Tail(plan) : n + 1 \in DOMAIN plan /\ Tail(plan)[n] = plan[n + 1]
<1>1. /\ Len(plan) \in Nat /\ Len(plan) > 0 /\ DOMAIN plan = 1..Len(plan)
      /\ Head(plan) = plan[1] /\ plan[1] \in PlanItems
      /\ Tail(plan) \in Seq(PlanItems) /\ DOMAIN Tail(plan) = 1..(Len(plan) - 1)
      /\ \A n \in 1..(Len(plan) - 1) : Tail(plan)[n] = plan[n + 1]
    OBVIOUS
<1>2. \A item \in PlanItems : item.id \in Ideas /\ item.steps \in Seq(Steps) /\ Len(item.steps) \in Nat
    BY DEF PlanItems
<1>3. \A n \in DOMAIN Tail(plan) : n + 1 \in DOMAIN plan /\ Tail(plan)[n] = plan[n + 1]
    BY <1>1
<1>4. OneItemEach(Tail(plan))
    <2> SUFFICES ASSUME NEW m \in DOMAIN Tail(plan), NEW n \in DOMAIN Tail(plan),
                        Tail(plan)[m].id = Tail(plan)[n].id
                 PROVE  m = n
        BY DEF OneItemEach
    <2>1. m + 1 = n + 1
        BY <1>3 DEF OneItemEach
    <2>2. QED
        BY <1>1, <2>1
<1>5. ASSUME NEW i PROVE i \in PlanIds(Tail(plan)) <=> i \in PlanIds(plan) /\ i # Head(plan).id
    <2>1. ASSUME i \in PlanIds(Tail(plan)) PROVE i \in PlanIds(plan) /\ i # Head(plan).id
        <3>1. PICK n \in DOMAIN Tail(plan) : i = Tail(plan)[n].id
            BY <2>1 DEF PlanIds
        <3>2. n + 1 \in DOMAIN plan /\ i = plan[n + 1].id /\ n + 1 # 1 /\ 1 \in DOMAIN plan
            BY <1>1, <1>3, <3>1
        <3>3. QED
            BY <1>1, <3>2 DEF PlanIds, OneItemEach
    <2>2. ASSUME i \in PlanIds(plan), i # Head(plan).id PROVE i \in PlanIds(Tail(plan))
        <3>1. PICK n \in DOMAIN plan : i = plan[n].id
            BY <2>2 DEF PlanIds
        <3>2. n # 1 /\ n - 1 \in DOMAIN Tail(plan) /\ Tail(plan)[n - 1] = plan[n]
            BY <1>1, <2>2, <3>1
        <3>3. QED
            BY <3>1, <3>2 DEF PlanIds
    <2>3. QED
        BY <2>1, <2>2
<1>6. Head(plan).id \in PlanIds(plan)
    BY <1>1 DEF PlanIds
<1>7. QED
    BY <1>1, <1>2, <1>3, <1>4, <1>5, <1>6

RestFrom(plan, first) == SubSeq(plan, first, Len(plan))
PassedBefore(plan, first) == {plan[n].id : n \in 1..(first - 1)}

LEMMA PlanRest ==
    ASSUME NEW plan \in Seq(PlanItems), OneItemEach(plan), NEW first \in DOMAIN plan
    PROVE  /\ RestFrom(plan, first) \in Seq(PlanItems) /\ RestFrom(plan, first) # <<>>
           /\ Head(RestFrom(plan, first)) = plan[first]
           /\ OneItemEach(RestFrom(plan, first))
           /\ \A i : i \in PlanIds(RestFrom(plan, first))
                     <=> i \in PlanIds(plan) /\ i \notin PassedBefore(plan, first)
           /\ \A n \in DOMAIN RestFrom(plan, first) :
                 \E m \in DOMAIN plan : RestFrom(plan, first)[n] = plan[m]
           /\ PassedBefore(plan, first) \subseteq PlanIds(plan)
<1> DEFINE rest == RestFrom(plan, first)
           passed == PassedBefore(plan, first)
<1>a. rest = SubSeq(plan, first, Len(plan))
    BY DEF RestFrom
<1>b. passed = {plan[n].id : n \in 1..(first - 1)}
    BY DEF PassedBefore
<1> HIDE DEF rest, passed
<1>1. /\ Len(plan) \in Nat /\ DOMAIN plan = 1..Len(plan) /\ first \in 1..Len(plan)
      /\ \A n \in DOMAIN plan : plan[n] \in PlanItems
    OBVIOUS
<1>2. /\ rest \in Seq(PlanItems) /\ Len(rest) = Len(plan) - first + 1
      /\ \A n \in 1..Len(rest) : rest[n] = plan[first + n - 1]
    BY <1>a, <1>1
<1>3. /\ DOMAIN rest = 1..Len(rest) /\ Len(rest) \in Nat /\ Len(rest) > 0
      /\ \A n \in DOMAIN rest : first + n - 1 \in DOMAIN plan /\ rest[n] = plan[first + n - 1]
    BY <1>1, <1>2
<1>4. \A m \in DOMAIN plan : m >= first => m - first + 1 \in DOMAIN rest /\ rest[m - first + 1] = plan[m]
    <2> SUFFICES ASSUME NEW m \in DOMAIN plan, m >= first
                 PROVE  m - first + 1 \in DOMAIN rest /\ rest[m - first + 1] = plan[m]
        OBVIOUS
    <2>1. m - first + 1 \in 1..Len(rest) /\ first + (m - first + 1) - 1 = m
        BY <1>1, <1>2
    <2>2. rest[m - first + 1] = plan[first + (m - first + 1) - 1]
        BY <1>2, <2>1
    <2>3. QED
        BY <1>3, <2>1, <2>2
<1>5. rest # <<>> /\ Head(rest) = plan[first]
    <2>1. rest # <<>> /\ Head(rest) = rest[1]
        BY <1>2, <1>3
    <2>2. rest[1] = plan[first]
        BY <1>1, <1>3
    <2>3. QED
        BY <2>1, <2>2
<1>6. OneItemEach(rest)
    <2> SUFFICES ASSUME NEW m \in DOMAIN rest, NEW n \in DOMAIN rest, rest[m].id = rest[n].id
                 PROVE  m = n
        BY DEF OneItemEach
    <2>1. first + m - 1 = first + n - 1
        BY <1>3 DEF OneItemEach
    <2>2. QED
        BY <1>1, <1>3, <2>1
<1>7. ASSUME NEW i PROVE i \in PlanIds(rest) <=> i \in PlanIds(plan) /\ i \notin passed
    <2>1. ASSUME i \in PlanIds(rest) PROVE i \in PlanIds(plan) /\ i \notin passed
        <3>1. PICK n \in DOMAIN rest : i = rest[n].id
            BY <2>1 DEF PlanIds
        <3>2. first + n - 1 \in DOMAIN plan /\ i = plan[first + n - 1].id /\ first + n - 1 >= first
            BY <1>1, <1>3, <3>1
        <3>3. \A m \in 1..(first - 1) : m \in DOMAIN plan /\ m # first + n - 1
            BY <1>1, <3>2
        <3>4. QED
            BY <1>b, <3>2, <3>3 DEF PlanIds, OneItemEach
    <2>2. ASSUME i \in PlanIds(plan), i \notin passed PROVE i \in PlanIds(rest)
        <3>1. PICK m \in DOMAIN plan : i = plan[m].id
            BY <2>2 DEF PlanIds
        <3>2. m >= first
            BY <1>b, <1>1, <2>2, <3>1
        <3>3. QED
            BY <1>4, <3>1, <3>2 DEF PlanIds
    <2>3. QED
        BY <2>1, <2>2
<1>8. passed \subseteq PlanIds(plan)
    <2>1. \A m \in 1..(first - 1) : m \in DOMAIN plan
        BY <1>1
    <2>2. QED
        BY <1>b, <2>1 DEF PlanIds
<1>9. \A n \in DOMAIN rest : \E m \in DOMAIN plan : rest[n] = plan[m]
    BY <1>3
<1>10. QED
    BY <1>2, <1>5, <1>6, <1>7, <1>8, <1>9 DEF rest, passed


LEMMA JobTyped ==
    ASSUME NEW job \in Jobs
    PROVE  /\ job.kind \in Kinds /\ job.phase \in Phases /\ job.plan \in Seq(PlanItems)
           /\ job.step \in Nat /\ job.inverse \in {None} \cup Inverses
           /\ job.reply \in {None} \cup Views /\ job.mark \in {None} \cup Marks
           /\ job.report \in [Ideas -> Results] /\ job.entry \in {None} \cup Entries
           /\ job.spoilt \subseteq Ideas /\ job.blind \subseteq Ideas
           /\ job.deed \in [Ideas -> Deeds]
BY DEF Jobs

\* What an idea is said to be does not depend on what else has been spoilt,
\* or on where else the job is blind.
SameWork(job, other) ==
    /\ other.kind = job.kind /\ other.plan = job.plan /\ other.step = job.step
    /\ other.report = job.report /\ other.start = job.start
    /\ job.blind \subseteq other.blind /\ job.spoilt \subseteq other.spoilt

LEMMA SameWorkTells ==
    ASSUME NEW job, NEW other, SameWork(job, other)
    PROVE  /\ \A item : Fits(job, item) => Fits(other, item)
           /\ \A i, board : Settled(job, i, board) => Settled(other, i, board)
           /\ \A start, row : Reached(job, start, row) => Reached(other, start, row)
           /\ Target(other) = Target(job) /\ StepOf(other) = StepOf(job)
<1>1. Target(other) = Target(job) /\ StepOf(other) = StepOf(job)
    BY DEF SameWork, Target, StepOf
<1>2. \A item : Fits(job, item) => Fits(other, item)
    BY DEF SameWork, Fits
<1>3. \A start, row : Reached(job, start, row) => Reached(other, start, row)
    BY DEF SameWork, Reached
<1>4. \A result, i, row : Told(job, result, i, row) => Told(other, result, i, row)
    BY DEF SameWork, Told, Tells
<1>5. \A i, board : Settled(job, i, board) => Settled(other, i, board)
    BY <1>4 DEF SameWork, Settled
<1>6. QED
    BY <1>1, <1>2, <1>3, <1>5

LEMMA SameWorkPlans ==
    ASSUME NEW job, NEW other \in Jobs, SameWork(job, other), Planful(job)
    PROVE  Planful(other)
BY SameWorkTells DEF SameWork, Planful

\* A post of a job that is sound but for its phase.
LEMMA PostsSound ==
    ASSUME NEW job, NEW shown \in Views, NEW quiet, Planful(job),
           job.plan # <<>>, Head(job.plan).steps # <<>>,
           job.step \in 0..Len(Head(job.plan).steps), job.step = 0 => Head(job.plan).round,
           \A i \in Ideas \ job.spoilt :
              IF i = Target(job) THEN job.report[i] = "none" /\ Reached(job, job.start[i], rows[i])
              ELSE Settled(job, i, rows)
    PROVE  /\ Sound(Posts(job, shown, quiet), rows)
           /\ Posts(job, shown, quiet).phase = "posted"
           /\ Posts(job, shown, quiet).kind = job.kind
<1> DEFINE post == Posts(job, shown, quiet)
           item == Head(job.plan)
           captured == Captured(job, shown, quiet)
<1>1. /\ job \in Jobs /\ job.start \in Boards /\ OneItemEach(job.plan)
      /\ job.plan \in Seq(PlanItems)
    BY JobTyped DEF Planful
<1>2. item.id \in Ideas /\ item.steps \in Seq(Steps) /\ Target(job) = item.id
    BY <1>1, PlanHead DEF Target
<1>3. StepOf(job) \in Steps
    <2>1. job.step \in 1..Len(item.steps) => item.steps[job.step] \in Steps
        BY <1>2
    <2>2. job.step # 0 => job.step \in 1..Len(item.steps)
        BY <1>2
    <2>3. QED
        BY <2>1, <2>2, KnownSteps DEF StepOf
<1>4. captured \in {None} \cup Inverses
    <2> DEFINE row == shown.rows[Target(job)]
    <2>1. row \in Row \cup {Gone}
        BY <1>2 DEF Views, Boards
    <2>2. CASE quiet \/ ~Invertible(row, StepOf(job))
        BY <2>2 DEF Captured
    <2>3. CASE ~quiet /\ Invertible(row, StepOf(job))
        <3>1. InverseSteps(Target(job), row, StepOf(job)) \in Seq(Steps) \ {<<>>}
            BY <1>2, <1>3, <2>1, <2>3, InverseTyped
        <3>2. captured = Planned(Target(job), InverseSteps(Target(job), row, StepOf(job)))
            BY <2>3 DEF Captured
        <3>3. captured \in PlanItems /\ captured.steps # <<>>
            BY <1>2, <3>1, <3>2, PlannedTyped
        <3>4. QED
            BY <3>3 DEF Inverses
    <2>4. QED
        BY <2>2, <2>3
<1> DEFINE spoilt == IF job.kind # "undo" /\ shown.rows[Target(job)] # rows[Target(job)]
                     THEN job.spoilt \cup {Target(job)} ELSE job.spoilt
<1>5. post = [job EXCEPT !.phase = "posted", !.inverse = captured, !.spoilt = spoilt]
    BY DEF Posts
<1>6. spoilt \subseteq Ideas /\ job.spoilt \subseteq spoilt
    BY <1>1, <1>2, JobTyped
<1> HIDE DEF spoilt, captured
<1>7. post \in Jobs
    BY <1>1, <1>4, <1>5, <1>6 DEF Jobs, Phases
<1>8. SameWork(job, post) /\ post.phase = "posted"
    BY <1>1, <1>5, <1>6 DEF Jobs, SameWork
<1> HIDE DEF post
<1>9. Planful(post)
    BY <1>7, <1>8, SameWorkPlans
<1>10. ASSUME NEW i \in Ideas \ post.spoilt
       PROVE  IF i = Target(post) THEN post.report[i] = "none" /\ Working(post, post.start[i], rows[i])
              ELSE Settled(post, i, rows)
    <2>1. i \in Ideas \ job.spoilt
        BY <1>8 DEF SameWork
    <2>2. CASE i = Target(job)
        <3>1. post.report[i] = "none" /\ Reached(post, post.start[i], rows[i])
            BY <1>8, <2>1, <2>2, SameWorkTells DEF SameWork
        <3>2. QED
            BY <1>8, <2>2, <3>1, SameWorkTells DEF Working
    <2>3. CASE i # Target(job)
        BY <1>8, <2>1, <2>3, SameWorkTells
    <2>4. QED
        BY <2>2, <2>3
<1>11. QED
    BY <1>8, <1>9, <1>10 DEF Sound, SameWork, post

\* Somebody else writes: the ideas that change are spoilt.
Warned(job, changed) == [job EXCEPT !.spoilt = @ \cup changed]

LEMMA SpoilKeepsSound ==
    ASSUME NEW job, NEW board, NEW new, NEW changed \in SUBSET Ideas,
           Sound(job, board), \A i \in Ideas \ changed : new[i] = board[i],
           NEW other, other = Warned(job, changed)
    PROVE  /\ Sound(other, new) /\ other \in Jobs
           /\ other.phase = job.phase /\ other.kind = job.kind
<1>1. job \in Jobs
    BY DEF Sound, Planful
<1>2. other \in Jobs
    BY <1>1 DEF Jobs, Warned
<1>3. /\ SameWork(job, other) /\ other.phase = job.phase /\ other.reply = job.reply
      /\ other.mark = job.mark /\ other.spoilt = job.spoilt \cup changed
    BY <1>1 DEF Jobs, SameWork, Warned
<1>4. Planful(other)
    BY <1>2, <1>3, SameWorkPlans DEF Sound
<1>5. ASSUME NEW i \in Ideas \ other.spoilt
      PROVE  IF i = Target(other) THEN other.report[i] = "none" /\ Working(other, other.start[i], new[i])
             ELSE Settled(other, i, new)
    <2>1. i \in Ideas \ job.spoilt /\ new[i] = board[i]
        BY <1>3
    <2>2. CASE i = Target(job)
        <3>1. job.report[i] = "none" /\ Working(job, job.start[i], board[i])
            BY <2>1, <2>2 DEF Sound
        <3>2. Working(other, other.start[i], new[i])
            <4>1. /\ StepOf(other) = StepOf(job) /\ Target(other) = Target(job)
                  /\ \A row : Reached(job, job.start[i], row) => Reached(other, other.start[i], row)
                BY <1>3, SameWorkTells DEF SameWork
            <4>2. QED
                BY <1>3, <2>1, <3>1, <4>1 DEF Working, SameWork
        <3>3. QED
            BY <1>3, <2>2, <3>1, <3>2, SameWorkTells DEF SameWork
    <2>3. CASE i # Target(job)
        <3>1. Settled(job, i, board)
            BY <2>1, <2>3 DEF Sound
        <3>2. Settled(job, i, new)
            BY <2>1, <3>1 DEF Settled
        <3>3. QED
            BY <1>3, <2>3, <3>2, SameWorkTells
    <2>4. QED
        BY <2>2, <2>3
<1>6. QED
    BY <1>2, <1>3, <1>4, <1>5 DEF Sound, SameWork


LEMMA IdleTyped == Idle \in Jobs /\ Idle.plan = <<>>
<1>1. "none" \in Kinds /\ "idle" \in Phases /\ "none" \in Results /\ 1 \in Nat
    BY DEF Kinds, Phases, Results
<1>2. <<>> \in Seq(PlanItems) /\ [i \in Ideas |-> None] \in [Ideas -> Deeds]
      /\ [i \in Ideas |-> "none"] \in [Ideas -> Results]
    BY <1>1 DEF Deeds
<1>3. QED
    BY <1>1, <1>2 DEF Idle, Jobs

LEMMA OverTyped ==
    ASSUME NEW job \in Jobs
    PROVE  /\ Over(job) \in Jobs /\ Over(job).phase = "done" /\ Over(job).plan = <<>>
           /\ Over(job).kind = job.kind /\ Over(job).report = job.report
<1> DEFINE idle == Idle
<1>1. idle \in Jobs /\ idle.plan = <<>> /\ job.kind \in Kinds /\ job.report \in [Ideas -> Results]
    BY IdleTyped, JobTyped
<1>2. Over(job) = [idle EXCEPT !.phase = "done", !.kind = job.kind, !.report = job.report]
    BY DEF Over
<1> HIDE DEF idle
<1>3. QED
    BY <1>1, <1>2 DEF Jobs, Phases

\* Between two ideas: a job goes on to the next one that has steps, or is over.
LEMMA ProceedsSound ==
    ASSUME NEW job, NEW shown \in Views, NEW quiet, Ready(job, rows),
           NEW next, next = Proceeds(job, shown, quiet)
    PROVE  /\ next \in Jobs /\ next.kind = job.kind /\ next.phase \in {"posted", "done"}
           /\ next.phase = "posted" => Sound(next, rows)
           /\ next.phase = "done" =>
                 /\ next.plan = <<>>
                 /\ \A i \in Ideas : next.report[i] =
                       IF i \in PlanIds(job.plan) THEN "skipped" ELSE job.report[i]
<1> DEFINE todo == {n \in DOMAIN job.plan : job.plan[n].steps # <<>>}
           first == IF todo = {} THEN Len(job.plan) + 1 ELSE Min(todo)
           passed == PassedBefore(job.plan, first)
           report == [i \in Ideas |-> IF i \in passed THEN "skipped" ELSE job.report[i]]
           rest == RestFrom(job.plan, first)
           begun == [job EXCEPT !.step = 1, !.plan = rest, !.report = report]
<1>1. next = IF todo = {} THEN Over(begun) ELSE Posts(begun, shown, quiet)
    BY DEF Proceeds, RestFrom, PassedBefore
<1>2. /\ Planful(job) /\ job \in Jobs /\ job.plan \in Seq(PlanItems) /\ OneItemEach(job.plan)
      /\ job.report \in [Ideas -> Results] /\ job.start \in Boards
      /\ Len(job.plan) \in Nat /\ DOMAIN job.plan = 1..Len(job.plan)
    BY JobTyped DEF Ready, Planful
<1>3. report \in [Ideas -> Results]
    BY <1>2 DEF Results
<1>4. \A i \in Ideas : report[i] = IF i \in passed THEN "skipped" ELSE job.report[i]
    OBVIOUS
<1>5. CASE todo = {}
    <2>1. first = Len(job.plan) + 1 /\ first - 1 = Len(job.plan)
        BY <1>2, <1>5
    <2>2. passed = PlanIds(job.plan)
        BY <1>2, <2>1 DEF PlanIds, PassedBefore
    <2>3. rest \in Seq(PlanItems)
        <3>1. SubSeq(job.plan, Len(job.plan) + 1, Len(job.plan)) \in Seq(PlanItems)
            BY <1>2, SubSeqProperties
        <3>2. QED
            BY <2>1, <3>1 DEF RestFrom
    <2> HIDE DEF rest, report, passed, todo, first
    <2>4. begun \in Jobs /\ begun.kind = job.kind /\ begun.report = report
        BY <1>2, <1>3, <2>3 DEF Jobs
    <2> HIDE DEF begun
    <2>5. next = Over(begun)
        BY <1>1, <1>5
    <2>6. QED
        BY <1>4, <2>2, <2>4, <2>5, OverTyped
<1>6. CASE todo # {}
    <2>1. first \in todo /\ first \in DOMAIN job.plan /\ job.plan[first].steps # <<>>
        <3>1. todo \in SUBSET Nat
            BY <1>2
        <3>2. \E m \in todo : \A k \in todo : m <= k
            <4> HIDE DEF todo
            <4>1. QED
                BY <1>6, <3>1, LeastNumber
        <3>3. Min(todo) \in todo
            <4> HIDE DEF todo
            <4>1. QED
                BY <3>2 DEF Min
        <3>4. QED
            BY <1>6, <3>3
    <2> HIDE DEF todo, first
    <2>2. /\ rest \in Seq(PlanItems) /\ rest # <<>> /\ Head(rest) = job.plan[first]
          /\ OneItemEach(rest)
          /\ \A i : i \in PlanIds(rest) <=> i \in PlanIds(job.plan) /\ i \notin passed
          /\ \A n \in DOMAIN rest : \E m \in DOMAIN job.plan : rest[n] = job.plan[m]
          /\ passed \subseteq PlanIds(job.plan)
        BY <1>2, <2>1, PlanRest
    <2> HIDE DEF rest, passed, report
    <2>3. /\ begun \in Jobs /\ begun.kind = job.kind /\ begun.report = report /\ begun.step = 1
          /\ begun.plan = rest /\ begun.start = job.start /\ begun.spoilt = job.spoilt
          /\ begun.blind = job.blind
        BY <1>2, <1>3, <2>2 DEF Jobs
    <2> HIDE DEF begun
    <2>4. \A item : Fits(job, item) => Fits(begun, item)
        BY <2>3 DEF Fits
    <2>5. Planful(begun)
        <3>1. \A n \in DOMAIN begun.plan : Fits(begun, begun.plan[n])
            BY <1>2, <2>2, <2>3, <2>4 DEF Planful
        <3>2. QED
            BY <1>2, <2>2, <2>3, <3>1 DEF Planful
    <2>6. /\ begun.plan # <<>> /\ Head(begun.plan).steps # <<>>
          /\ begun.step \in 0..Len(Head(begun.plan).steps) /\ begun.step # 0
          /\ Target(begun) = Head(rest).id /\ Target(begun) \in PlanIds(rest)
        <3>1. /\ Head(rest).steps \in Seq(Steps) /\ Head(rest).steps # <<>>
              /\ Head(rest).id \in PlanIds(rest)
            BY <2>1, <2>2, PlanHead
        <3>2. Len(Head(rest).steps) \in Nat /\ Len(Head(rest).steps) > 0
            BY <3>1
        <3>3. QED
            BY <2>2, <2>3, <3>1, <3>2 DEF Target
    <2>7. ASSUME NEW i \in Ideas \ begun.spoilt
          PROVE  IF i = Target(begun) THEN begun.report[i] = "none" /\ Reached(begun, begun.start[i], rows[i])
                 ELSE Settled(begun, i, rows)
        <3>1. i \in Ideas \ job.spoilt /\ Settled(job, i, rows)
            BY <2>3 DEF Ready
        <3>2. ASSUME i \in PlanIds(rest)
              PROVE  begun.report[i] = "none" /\ rows[i] = begun.start[i]
            BY <1>4, <2>2, <2>3, <3>1, <3>2 DEF Settled
        <3>3. ASSUME i \notin PlanIds(rest) PROVE Told(begun, begun.report[i], i, rows[i])
            <4>1. CASE i \in passed
                <5>1. rows[i] = begun.start[i] /\ begun.report[i] = "skipped"
                    BY <1>4, <2>2, <2>3, <3>1, <4>1 DEF Settled
                <5>2. QED
                    BY <5>1 DEF Told, Tells
            <4>2. CASE i \notin passed
                <5>1. Told(job, job.report[i], i, rows[i]) /\ begun.report[i] = job.report[i]
                    BY <1>4, <2>2, <2>3, <3>1, <3>3, <4>2 DEF Settled
                <5>2. QED
                    BY <2>3, <5>1 DEF Told, Tells
            <4>3. QED
                BY <4>1, <4>2
        <3>4. CASE i = Target(begun)
            <4>1. begun.report[i] = "none" /\ rows[i] = begun.start[i]
                BY <2>6, <3>2, <3>4
            <4>2. Reached(begun, begun.start[i], rows[i])
                BY <2>3, <4>1 DEF Reached
            <4>3. QED
                BY <3>4, <4>1, <4>2
        <3>5. CASE i # Target(begun)
            <4>1. Settled(begun, i, rows)
                BY <2>3, <3>2, <3>3 DEF Settled
            <4>2. QED
                BY <3>5, <4>1
        <3>6. QED
            BY <3>4, <3>5
    <2>8. /\ Sound(Posts(begun, shown, quiet), rows) /\ Posts(begun, shown, quiet).phase = "posted"
          /\ Posts(begun, shown, quiet).kind = begun.kind
        BY <2>5, <2>6, <2>7, PostsSound
    <2>9. QED
        <3>1. next = Posts(begun, shown, quiet)
            BY <1>1, <1>6
        <3>2. Sound(next, rows) /\ next.phase = "posted" /\ next.kind = job.kind
            BY <2>3, <2>8, <3>1
        <3>3. QED
            BY <3>2 DEF Sound, Planful
<1>7. QED
    BY <1>5, <1>6


\* What becomes of a job once the idea at work has its result: it is sound and
\* posts, or it is over and has reported on every idea.
Reported(job, result, report) ==
    \A i \in Ideas : report[i] =
        IF i = Target(job) THEN result
        ELSE IF i \in PlanIds(job.plan) THEN "skipped" ELSE job.report[i]

GoesOn(job, result, next) ==
    /\ next \in Jobs /\ next.kind = job.kind /\ next.phase \in {"posted", "done"}
    /\ next.phase = "posted" => Sound(next, rows)
    /\ next.phase = "done" => next.plan = <<>> /\ Reported(job, result, next.report)

\* A job at work, whatever is known of the idea itself.
AtWork(job) ==
    /\ Planful(job)
    /\ job.plan # <<>> /\ Head(job.plan).steps # <<>>
    /\ job.step \in 0..Len(Head(job.plan).steps)
    /\ job.step = 0 => Head(job.plan).round
    /\ \A i \in Ideas \ job.spoilt :
          IF i = Target(job) THEN job.report[i] = "none" ELSE Settled(job, i, rows)

LEMMA SettlesSound ==
    ASSUME NEW job, AtWork(job), NEW shown \in Views, NEW quiet,
           NEW result \in Results, Target(job) \notin job.spoilt => Told(job, result, Target(job), rows[Target(job)])
    PROVE  GoesOn(job, result, Settles(job, result, shown, quiet))
<1> DEFINE target == Target(job)
           ahead == [job EXCEPT !.report[target] = result, !.plan = Tail(@)]
           next == Settles(job, result, shown, quiet)
<1>1. /\ job \in Jobs /\ job.plan \in Seq(PlanItems) /\ job.plan # <<>> /\ OneItemEach(job.plan)
      /\ job.report \in [Ideas -> Results] /\ job.start \in Boards
    BY JobTyped DEF AtWork, Planful
<1>2. /\ target \in Ideas /\ target \in PlanIds(job.plan)
      /\ Tail(job.plan) \in Seq(PlanItems) /\ OneItemEach(Tail(job.plan))
      /\ \A i : i \in PlanIds(Tail(job.plan)) <=> i \in PlanIds(job.plan) /\ i # target
      /\ \A n \in DOMAIN Tail(job.plan) : n + 1 \in DOMAIN job.plan /\ Tail(job.plan)[n] = job.plan[n + 1]
    BY <1>1, PlanHead DEF Target
<1>3. next = Proceeds(ahead, shown, quiet)
    BY DEF Settles
<1> HIDE DEF target, next
<1>4. /\ ahead \in Jobs /\ ahead.kind = job.kind /\ ahead.plan = Tail(job.plan)
      /\ ahead.report = [job.report EXCEPT ![target] = result]
      /\ ahead.start = job.start /\ ahead.spoilt = job.spoilt /\ ahead.blind = job.blind
    BY <1>1, <1>2 DEF Jobs
<1> HIDE DEF ahead
<1>5. /\ ahead.report[target] = result
      /\ \A i \in Ideas : i # target => ahead.report[i] = job.report[i]
    BY <1>1, <1>2, <1>4
<1>6. Planful(ahead)
    <2>1. \A item : Fits(job, item) => Fits(ahead, item)
        BY <1>4 DEF Fits
    <2>2. \A n \in DOMAIN ahead.plan : Fits(ahead, ahead.plan[n])
        BY <1>2, <1>4, <2>1 DEF AtWork, Planful
    <2>3. QED
        BY <1>1, <1>2, <1>4, <2>2 DEF Planful
<1>7. ASSUME NEW i \in Ideas \ ahead.spoilt PROVE Settled(ahead, i, rows)
    <2>1. \A said, row : Told(job, said, i, row) => Told(ahead, said, i, row)
        BY <1>4 DEF Told, Tells
    <2>2. CASE i = target
        <3>1. Told(job, result, i, rows[i])
            BY <1>4, <2>2 DEF target
        <3>2. QED
            BY <1>2, <1>4, <1>5, <2>1, <2>2, <3>1 DEF Settled
    <2>3. CASE i # target
        <3>1. Settled(job, i, rows)
            BY <1>4, <2>3 DEF AtWork, target
        <3>2. QED
            BY <1>2, <1>4, <1>5, <2>1, <2>3, <3>1 DEF Settled
    <2>4. QED
        BY <2>2, <2>3
<1>8. Ready(ahead, rows)
    BY <1>6, <1>7 DEF Ready
<1>9. /\ next \in Jobs /\ next.kind = ahead.kind /\ next.phase \in {"posted", "done"}
      /\ next.phase = "posted" => Sound(next, rows)
      /\ next.phase = "done" =>
            /\ next.plan = <<>>
            /\ \A i \in Ideas : next.report[i] =
                  IF i \in PlanIds(ahead.plan) THEN "skipped" ELSE ahead.report[i]
    BY <1>3, <1>8, ProceedsSound
<1>10. ASSUME next.phase = "done" PROVE Reported(job, result, next.report)
    BY <1>2, <1>4, <1>5, <1>9, <1>10 DEF Reported, target
<1>11. QED
    BY <1>4, <1>9, <1>10 DEF GoesOn, next

\* The same for a job that posts another verb for the idea it is at.
LEMMA AnotherPostSound ==
    ASSUME NEW job, AtWork(job), NEW shown \in Views, NEW quiet, NEW moved \in Jobs,
           moved.kind = job.kind, moved.plan = job.plan, moved.report = job.report,
           moved.start = job.start, moved.spoilt = job.spoilt, moved.blind = job.blind,
           moved.step \in 0..Len(Head(job.plan).steps),
           moved.step = 0 => Head(job.plan).round,
           Target(job) \notin job.spoilt =>
               Reached(moved, job.start[Target(job)], rows[Target(job)])
    PROVE  \A result : GoesOn(job, result, Posts(moved, shown, quiet))
<1>1. Target(moved) = Target(job)
    BY DEF Target
<1>2. \A item : Fits(job, item) => Fits(moved, item)
    BY DEF Fits
<1>3. Planful(moved)
    BY <1>2 DEF AtWork, Planful
<1>4. \A i : Settled(job, i, rows) => Settled(moved, i, rows)
    BY DEF Settled, Told, Tells
<1>5. \A i \in Ideas \ moved.spoilt :
         IF i = Target(moved) THEN moved.report[i] = "none" /\ Reached(moved, moved.start[i], rows[i])
         ELSE Settled(moved, i, rows)
    BY <1>1, <1>4 DEF AtWork
<1>6. /\ moved.plan # <<>> /\ Head(moved.plan).steps # <<>>
      /\ moved.step \in 0..Len(Head(moved.plan).steps)
      /\ moved.step = 0 => Head(moved.plan).round
    BY DEF AtWork
<1>7. /\ Sound(Posts(moved, shown, quiet), rows) /\ Posts(moved, shown, quiet).phase = "posted"
      /\ Posts(moved, shown, quiet).kind = moved.kind
    BY <1>3, <1>5, <1>6, PostsSound
<1>8. QED
    BY <1>7 DEF GoesOn, Sound, Planful

LEMMA NextPostSound ==
    ASSUME NEW job, AtWork(job), NEW shown \in Views, NEW quiet, NEW step \in Nat,
           step \in 0..Len(Head(job.plan).steps), step = 0 => Head(job.plan).round,
           NEW moved, moved = [job EXCEPT !.step = step],
           Target(job) \notin job.spoilt =>
               Reached(moved, job.start[Target(job)], rows[Target(job)])
    PROVE  \A result : GoesOn(job, result, Posts(moved, shown, quiet))
<1>1. job \in Jobs
    BY JobTyped DEF AtWork, Planful
<1>2. /\ moved \in Jobs /\ moved.kind = job.kind /\ moved.plan = job.plan /\ moved.step = step
      /\ moved.report = job.report /\ moved.start = job.start /\ moved.spoilt = job.spoilt
      /\ moved.blind = job.blind
    BY <1>1 DEF Jobs
<1>3. QED
    BY <1>2, AnotherPostSound

\* The verbs of a bulk run, one idea at a time.
LEMMA RunForms ==
    ASSUME NEW job, AtWork(job)
    PROVE  LET item == Head(job.plan)
           IN  /\ Target(job) \in Ideas /\ job.start[Target(job)] \in Row \cup {Gone}
               /\ Len(item.steps) \in Nat /\ Len(item.steps) > 0 /\ job.step \in Nat
               /\ job.kind = "tag" =>
                     \/ ~item.round /\ Len(item.steps) = 1 /\ item.steps[1] = SetTag("tagged")
                     \/ /\ item.round /\ Len(item.steps) = 3
                        /\ item.steps[1] = Restore /\ item.steps[2] = SetTag("tagged")
                        /\ item.steps[3] = MoveTo("archived")
                        /\ Target(job) \notin job.spoilt => job.start[Target(job)].status = "archived"
               /\ job.kind = "archive" =>
                     ~item.round /\ Len(item.steps) = 1 /\ item.steps[1] = MoveTo("archived")
<1> DEFINE item == Head(job.plan)
<1>1. /\ job.plan \in Seq(PlanItems) /\ job.plan # <<>> /\ OneItemEach(job.plan)
      /\ job.start \in Boards /\ item.steps # <<>> /\ job.step \in 0..Len(item.steps)
    BY JobTyped DEF AtWork, Planful
<1>2. /\ item.id \in Ideas /\ Target(job) = item.id /\ item.steps \in Seq(Steps)
      /\ item = job.plan[1] /\ 1 \in DOMAIN job.plan
    BY <1>1, PlanHead DEF Target
<1>3. Fits(job, item)
    BY <1>2 DEF AtWork, Planful
<1> HIDE DEF item
<1>4. Len(item.steps) \in Nat /\ Len(item.steps) > 0 /\ job.step \in Nat
    BY <1>1, <1>2
<1>5. job.start[Target(job)] \in Row \cup {Gone}
    BY <1>1, <1>2 DEF Boards
<1>6. ASSUME job.kind = "tag"
      PROVE  \/ ~item.round /\ Len(item.steps) = 1 /\ item.steps[1] = SetTag("tagged")
             \/ /\ item.round /\ Len(item.steps) = 3
                /\ item.steps[1] = Restore /\ item.steps[2] = SetTag("tagged")
                /\ item.steps[3] = MoveTo("archived")
                /\ Target(job) \notin job.spoilt => job.start[Target(job)].status = "archived"
    <2>1. CASE item.steps = <<SetTag("tagged")>> /\ ~item.round
        BY <2>1
    <2>2. CASE /\ item.steps = <<Restore, SetTag("tagged"), MoveTo("archived")>>
               /\ item.round
               /\ item.id \notin job.spoilt => job.start[item.id].status = "archived"
        BY <1>2, <2>2
    <2>3. QED
        BY <1>1, <1>3, <1>6, <2>1, <2>2 DEF Fits
<1>7. ASSUME job.kind = "archive"
      PROVE  ~item.round /\ Len(item.steps) = 1 /\ item.steps[1] = MoveTo("archived")
    <2>1. item.steps = <<MoveTo("archived")>> /\ ~item.round
        BY <1>1, <1>3, <1>7 DEF Fits
    <2>2. QED
        BY <2>1
<1>8. QED
    BY <1>2, <1>4, <1>5, <1>6, <1>7 DEF item

\* What a verb makes of a row, by the verbs of a bulk run.
LEMMA WrittenForms ==
    ASSUME NEW row \in Row
    PROVE  /\ Written(row, Restore) = [row EXCEPT !.status = "open"]
           /\ Written(row, SetTag("tagged")) = [row EXCEPT !.tag = "tagged"]
           /\ Written(row, MoveTo("archived")) = [row EXCEPT !.status = "archived"]
           /\ Written(row, MoveTo("archived")).status = "archived"
           /\ Written(row, SetTag("tagged")).status = row.status
           /\ row.status = "archived" =>
                 [[row EXCEPT !.status = "open", !.tag = "tagged"] EXCEPT !.status = "archived"]
                    = [row EXCEPT !.tag = "tagged"]
           /\ [[row EXCEPT !.status = "open"] EXCEPT !.tag = "tagged"]
                 = [row EXCEPT !.status = "open", !.tag = "tagged"]
<1>1. row = [status |-> row.status, tag |-> row.tag]
    BY DEF Row
<1>2. Written(row, Restore) = [row EXCEPT !.status = "open"]
    BY DEF Written, Restore, Field
<1>3. Written(row, SetTag("tagged")) = [row EXCEPT !.tag = "tagged"]
    BY DEF Written, SetTag, Field
<1>4. Written(row, MoveTo("archived")) = [row EXCEPT !.status = "archived"]
    BY DEF Written, MoveTo, Field
<1>5. /\ [row EXCEPT !.status = "archived"].status = "archived"
      /\ [row EXCEPT !.tag = "tagged"].status = row.status
    BY <1>1
<1>6. /\ row.status = "archived" =>
            [[row EXCEPT !.status = "open", !.tag = "tagged"] EXCEPT !.status = "archived"]
               = [row EXCEPT !.tag = "tagged"]
      /\ [[row EXCEPT !.status = "open"] EXCEPT !.tag = "tagged"]
            = [row EXCEPT !.status = "open", !.tag = "tagged"]
    BY DEF Row
<1>7. QED
    BY <1>2, <1>3, <1>4, <1>5, <1>6

\* What an answer says of the idea at work.
LEMMA AnswerTells ==
    ASSUME NEW job, AtWork(job), Target(job) \notin job.spoilt,
           NEW before \in Row, Reached(job, job.start[Target(job)], before),
           NEW row, row = Written(before, StepOf(job)),
           NEW moved, moved = [job EXCEPT !.step = @ + 1]
    PROVE  /\ job.step = 0 => Told(job, "rearchived", Target(job), row)
           /\ job.step # 0 /\ job.step = Len(Head(job.plan).steps) =>
                 Told(job, "applied", Target(job), row)
           /\ job.step # 0 /\ job.step # Len(Head(job.plan).steps) =>
                 Reached(moved, job.start[Target(job)], row)
<1> DEFINE item == Head(job.plan)
           start == job.start[Target(job)]
<1>1. job \in Jobs
    BY DEF AtWork, Planful
<1>2. moved.kind = job.kind /\ moved.step = job.step + 1
    BY <1>1 DEF Jobs
<1>3. /\ start \in Row \cup {Gone} /\ Len(item.steps) \in Nat /\ Len(item.steps) > 0 /\ job.step \in Nat
      /\ job.kind = "tag" =>
            \/ ~item.round /\ Len(item.steps) = 1 /\ item.steps[1] = SetTag("tagged")
            \/ /\ item.round /\ Len(item.steps) = 3
               /\ item.steps[1] = Restore /\ item.steps[2] = SetTag("tagged")
               /\ item.steps[3] = MoveTo("archived")
               /\ start.status = "archived"
      /\ job.kind = "archive" =>
            ~item.round /\ Len(item.steps) = 1 /\ item.steps[1] = MoveTo("archived")
    BY RunForms
<1>4. job.step \in 0..Len(item.steps) /\ (job.step = 0 => item.round)
    BY DEF AtWork
<1>5. StepOf(job) = IF job.step = 0 THEN MoveTo("archived") ELSE item.steps[job.step]
    BY DEF StepOf
<1>6. /\ job.step = 1 => before = start
      /\ job.kind = "tag" /\ job.step = 2 => before = [start EXCEPT !.status = "open"]
      /\ job.kind = "tag" /\ job.step = 3 =>
            before = [start EXCEPT !.status = "open", !.tag = "tagged"]
    BY DEF Reached
<1> HIDE DEF item, start
<1>w. /\ Written(before, Restore) = [before EXCEPT !.status = "open"]
      /\ Written(before, SetTag("tagged")) = [before EXCEPT !.tag = "tagged"]
      /\ Written(before, MoveTo("archived")) = [before EXCEPT !.status = "archived"]
      /\ Written(before, MoveTo("archived")).status = "archived"
    BY WrittenForms
<1>7. ASSUME job.step = 0 PROVE row.status = "archived"
    <2>1. StepOf(job) = MoveTo("archived")
        BY <1>5, <1>7
    <2>2. row = Written(before, MoveTo("archived"))
        BY <2>1
    <2>3. QED
        BY <1>w, <2>2
<1>a. ASSUME job.step # 0 PROVE row = Written(before, item.steps[job.step])
    <2>1. StepOf(job) = item.steps[job.step]
        BY <1>5, <1>a
    <2>2. QED
        BY <2>1
<1>8. ASSUME job.step # 0, job.step = Len(item.steps)
      PROVE  /\ job.kind = "tag" => row = [start EXCEPT !.tag = "tagged"]
             /\ job.kind = "archive" => row = [start EXCEPT !.status = "archived"]
    <2>0. row = Written(before, item.steps[Len(item.steps)])
        BY <1>8, <1>a
    <2>1. ASSUME job.kind = "archive" PROVE row = [start EXCEPT !.status = "archived"]
        <3>1. Len(item.steps) = 1 /\ item.steps[1] = MoveTo("archived")
            BY <1>3, <2>1
        <3>2. before = start
            BY <1>6, <1>8, <3>1
        <3>3. row = Written(before, MoveTo("archived"))
            BY <2>0, <3>1
        <3>4. QED
            BY <1>w, <3>2, <3>3
    <2>2. ASSUME job.kind = "tag", Len(item.steps) = 1, item.steps[1] = SetTag("tagged")
          PROVE  row = [start EXCEPT !.tag = "tagged"]
        <3>1. before = start
            BY <1>6, <1>8, <2>2
        <3>2. row = Written(before, SetTag("tagged"))
            BY <2>0, <2>2
        <3>3. QED
            BY <1>w, <3>1, <3>2
    <2>3. ASSUME job.kind = "tag", Len(item.steps) = 3, item.steps[3] = MoveTo("archived"),
                 start.status = "archived"
          PROVE  row = [start EXCEPT !.tag = "tagged"]
        <3>1. start \in Row
            BY <1>3, <2>3 DEF Gone
        <3>2. before = [start EXCEPT !.status = "open", !.tag = "tagged"]
            BY <1>6, <1>8, <2>3
        <3>3. row = Written(before, MoveTo("archived"))
            BY <2>0, <2>3
        <3>4. row = [before EXCEPT !.status = "archived"]
            BY <1>w, <3>3
        <3>5. [[start EXCEPT !.status = "open", !.tag = "tagged"] EXCEPT !.status = "archived"]
                 = [start EXCEPT !.tag = "tagged"]
            BY <2>3, <3>1, WrittenForms
        <3>6. QED
            BY <3>2, <3>4, <3>5
    <2>4. QED
        BY <1>3, <2>1, <2>2, <2>3
<1>9. ASSUME job.step # 0, job.step # Len(item.steps)
      PROVE  Reached(moved, start, row)
    <2>0. job.step \in 1..Len(item.steps) /\ Len(item.steps) # 1
        <3> DEFINE c == Len(item.steps)
        <3>1. c \in Nat /\ job.step \in 0..c /\ job.step # 0 /\ job.step # c
            BY <1>3, <1>4, <1>9
        <3> HIDE DEF c
        <3>2. job.step \in 1..c /\ c # 1
            BY <3>1
        <3>3. QED
            BY <3>2 DEF c
    <2>1. CASE job.kind # "tag"
        <3>1. moved.step # 1 /\ moved.kind # "tag"
            BY <1>2, <1>3, <1>9, <2>1
        <3>2. QED
            BY <3>1 DEF Reached
    <2>2. CASE job.kind = "tag"
        <3>0. /\ Len(item.steps) = 3 /\ item.steps[1] = Restore /\ item.steps[2] = SetTag("tagged")
              /\ start.status = "archived"
            BY <1>3, <2>0, <2>2
        <3>1. job.step \in {1, 2}
            <4>1. job.step \in 1..3 /\ job.step # 3
                BY <1>9, <2>0, <3>0
            <4>2. QED
                BY <4>1
        <3>2. start \in Row
            BY <1>3, <3>0 DEF Gone
        <3>3. CASE job.step = 1
            <4>1. before = start /\ moved.step = 2
                BY <1>2, <1>6, <3>3
            <4>2. row = Written(before, Restore)
                BY <1>9, <1>a, <3>0, <3>3
            <4>3. row = [start EXCEPT !.status = "open"]
                BY <1>w, <4>1, <4>2
            <4>4. QED
                BY <4>1, <4>3 DEF Reached
        <3>4. CASE job.step = 2
            <4>1. before = [start EXCEPT !.status = "open"] /\ moved.step = 3
                BY <1>2, <1>6, <2>2, <3>4
            <4>2. row = Written(before, SetTag("tagged"))
                BY <1>9, <1>a, <3>0, <3>4
            <4>3. row = [[start EXCEPT !.status = "open"] EXCEPT !.tag = "tagged"]
                BY <1>w, <4>1, <4>2
            <4>4. row = [start EXCEPT !.status = "open", !.tag = "tagged"]
                BY <3>2, <4>3, WrittenForms
            <4>5. QED
                BY <4>1, <4>4 DEF Reached
        <3>5. QED
            BY <3>1, <3>3, <3>4
    <2>3. QED
        BY <2>1, <2>2
<1>10. QED
    BY <1>7, <1>8, <1>9 DEF Told, Tells, item, start



\* What is reported of the idea at work when its last answer is there, and when
\* it is an error.
Outcome(job) == IF job.step = 0 THEN "rearchived" ELSE "applied"
Setback(job) == IF job.step = 0 THEN "leftOpen" ELSE "failed"

\* The idea at work is at the last of its verbs, or past it.
AtLast(job) == job.step = 0 \/ job.step = Len(Head(job.plan).steps)

\* An error that nothing can be done about.
PastHelp(job) == job.step = 0 \/ job.step = 1 \/ ~Head(job.plan).round

\* The answer and the error that a job has in hand, as they bear on its idea.
Answer(job, row) ==
    \E before \in Row : Reached(job, job.start[Target(job)], before) /\ row = Written(before, StepOf(job))
Refusal(job, row) ==
    job.kind = "tag" /\ job.step = 1 /\ Target(job) \notin job.blind
        => row.status = job.start[Target(job)].status

LEMMA OutcomeTold ==
    ASSUME NEW job, AtWork(job), Target(job) \notin job.spoilt, NEW row, Answer(job, row), AtLast(job)
    PROVE  Told(job, Outcome(job), Target(job), row)
<1>1. PICK before \in Row : /\ Reached(job, job.start[Target(job)], before)
                            /\ row = Written(before, StepOf(job))
    BY DEF Answer
<1>2. /\ job.step = 0 => Told(job, "rearchived", Target(job), row)
      /\ job.step # 0 /\ job.step = Len(Head(job.plan).steps) =>
            Told(job, "applied", Target(job), row)
    BY <1>1, AnswerTells
<1>3. QED
    BY <1>2 DEF Outcome, AtLast

LEMMA SetbackTold ==
    ASSUME NEW job, AtWork(job), Target(job) \notin job.spoilt, NEW row, Refusal(job, row), PastHelp(job)
    PROVE  Told(job, Setback(job), Target(job), row)
<1>1. CASE job.step = 0
    BY <1>1 DEF Setback, Told, Tells
<1>2. CASE job.step # 0
    <2>1. Setback(job) = "failed"
        BY <1>2 DEF Setback
    <2>2. ASSUME job.kind = "tag" PROVE job.step = 1
        <3> DEFINE item == Head(job.plan)
        <3>1. /\ job.step \in Nat /\ job.step \in 0..Len(item.steps)
              /\ ~item.round => Len(item.steps) = 1
            BY <2>2, RunForms DEF AtWork
        <3>2. ~item.round \/ job.step = 1
            BY <1>2 DEF PastHelp
        <3> HIDE DEF item
        <3>3. ASSUME ~item.round PROVE job.step = 1
            <4>1. Len(item.steps) = 1
                BY <3>1, <3>3
            <4>2. job.step \in 0..1
                BY <3>1, <4>1
            <4>3. QED
                BY <1>2, <4>2
        <3>4. QED
            BY <3>2, <3>3 DEF item
    <2>3. QED
        BY <2>1, <2>2 DEF Refusal, Told, Tells
<1>3. QED
    BY <1>1, <1>2

\* An answer, and an error: the job goes on.
LEMMA ContinuesSound ==
    ASSUME NEW job, AtWork(job), NEW shown \in Views, NEW quiet,
           Target(job) \notin job.spoilt => Answer(job, rows[Target(job)])
    PROVE  /\ GoesOn(job, Outcome(job), Continues(job, shown, quiet))
           /\ Continues(job, shown, quiet).phase = "done" => AtLast(job)
<1>1. CASE AtLast(job)
    <2>1. Target(job) \notin job.spoilt => Told(job, Outcome(job), Target(job), rows[Target(job)])
        BY <1>1, OutcomeTold
    <2>2. Outcome(job) \in Results
        BY DEF Outcome, Results
    <2>3. GoesOn(job, Outcome(job), Settles(job, Outcome(job), shown, quiet))
        BY <2>1, <2>2, SettlesSound
    <2>4. Continues(job, shown, quiet) = Settles(job, Outcome(job), shown, quiet)
        <3>1. CASE job.step = 0
            <4>1. Outcome(job) = "rearchived"
                BY <3>1 DEF Outcome
            <4>2. job.step = 0 /\ Len(Head(job.plan).steps) # 0
                BY <3>1, RunForms
            <4>3. Continues(job, shown, quiet) = Settles(job, "rearchived", shown, quiet)
                BY ONLY <4>2 DEF Continues
            <4>4. QED
                BY <4>1, <4>3
        <3>2. CASE job.step # 0 /\ job.step = Len(Head(job.plan).steps)
            <4>1. Outcome(job) = "applied"
                BY <3>2 DEF Outcome
            <4>2. job.step # 0 /\ job.step = Len(Head(job.plan).steps)
                BY <3>2
            <4>3. Continues(job, shown, quiet) = Settles(job, "applied", shown, quiet)
                BY ONLY <4>2 DEF Continues
            <4>4. QED
                BY <4>1, <4>3
        <3>3. QED
            BY <1>1, <3>1, <3>2 DEF AtLast
    <2>5. QED
        BY <1>1, <2>3, <2>4
<1>2. CASE ~AtLast(job)
    <2> DEFINE moved == [job EXCEPT !.step = @ + 1]
    <2>1. Continues(job, shown, quiet) = Posts(moved, shown, quiet)
        BY <1>2 DEF AtLast, Continues
    <2>2. /\ job.step \in Nat /\ Len(Head(job.plan).steps) \in Nat
          /\ job.step \in 0..Len(Head(job.plan).steps)
        BY RunForms DEF AtWork
    <2>3. job.step + 1 \in 0..Len(Head(job.plan).steps) /\ job.step + 1 \in Nat /\ job.step + 1 # 0
        <3> DEFINE c == Len(Head(job.plan).steps)
        <3>1. c \in Nat /\ job.step \in Nat /\ job.step \in 0..c /\ job.step # c
            BY <1>2, <2>2 DEF AtLast
        <3> HIDE DEF c
        <3>2. job.step + 1 \in 0..c /\ job.step + 1 \in Nat /\ job.step + 1 # 0
            BY <3>1
        <3>3. QED
            BY <3>2 DEF c
    <2>4. ASSUME Target(job) \notin job.spoilt
          PROVE  Reached(moved, job.start[Target(job)], rows[Target(job)])
        <3>1. PICK before \in Row : /\ Reached(job, job.start[Target(job)], before)
                                    /\ rows[Target(job)] = Written(before, StepOf(job))
            BY <2>4 DEF Answer
        <3>2. job.step # 0 /\ job.step # Len(Head(job.plan).steps)
            BY <1>2 DEF AtLast
        <3>3. QED
            BY <2>4, <3>1, <3>2, AnswerTells
    <2>5. moved = [job EXCEPT !.step = job.step + 1]
        OBVIOUS
    <2> HIDE DEF moved
    <2>6. \A result : GoesOn(job, result, Posts(moved, shown, quiet))
        <3> DEFINE step == job.step + 1
        <3>1. /\ step \in Nat /\ step \in 0..Len(Head(job.plan).steps) /\ (step = 0 => Head(job.plan).round)
              /\ moved = [job EXCEPT !.step = step]
            BY <2>3, <2>5
        <3> HIDE DEF step
        <3>2. QED
            BY <2>4, <3>1, NextPostSound
    <2>7. Posts(moved, shown, quiet).phase = "posted"
        <3>1. moved \in Jobs
            BY <2>3, <2>5 DEF AtWork, Planful, Jobs
        <3>2. QED
            BY <3>1 DEF Jobs, Posts
    <2>8. QED
        BY <2>1, <2>6, <2>7
<1>3. QED
    BY <1>1, <1>2

LEMMA RecoversSound ==
    ASSUME NEW job, AtWork(job), NEW shown \in Views, NEW quiet,
           Target(job) \notin job.spoilt => Refusal(job, rows[Target(job)])
    PROVE  /\ GoesOn(job, Setback(job), Recovers(job, shown, quiet))
           /\ Recovers(job, shown, quiet).phase = "done" => PastHelp(job)
<1>1. CASE PastHelp(job)
    <2>1. Target(job) \notin job.spoilt => Told(job, Setback(job), Target(job), rows[Target(job)])
        BY <1>1, SetbackTold
    <2>2. Setback(job) \in Results
        BY DEF Setback, Results
    <2>3. GoesOn(job, Setback(job), Settles(job, Setback(job), shown, quiet))
        BY <2>1, <2>2, SettlesSound
    <2>4. Recovers(job, shown, quiet) = Settles(job, Setback(job), shown, quiet)
        <3>1. CASE job.step = 0
            <4>1. Setback(job) = "leftOpen"
                BY <3>1 DEF Setback
            <4>2. QED
                BY <3>1, <4>1 DEF Recovers
        <3>2. CASE job.step # 0 /\ (job.step = 1 \/ ~Head(job.plan).round)
            <4>1. Setback(job) = "failed"
                BY <3>2 DEF Setback
            <4>2. QED
                BY <3>2, <4>1 DEF Recovers
        <3>3. QED
            BY <1>1, <3>1, <3>2 DEF PastHelp
    <2>5. QED
        BY <1>1, <2>3, <2>4
<1>2. CASE ~PastHelp(job)
    <2> DEFINE moved == [job EXCEPT !.step = 0]
    <2>1. Recovers(job, shown, quiet) = Posts(moved, shown, quiet)
        BY <1>2 DEF PastHelp, Recovers
    <2>2. Len(Head(job.plan).steps) \in Nat /\ 0 \in 0..Len(Head(job.plan).steps) /\ Head(job.plan).round
        <3>1. Len(Head(job.plan).steps) \in Nat
            BY RunForms
        <3>2. QED
            BY <1>2, <3>1 DEF PastHelp
    <2>3. job \in Jobs /\ moved \in Jobs /\ moved.step = 0
        BY DEF AtWork, Planful, Jobs
    <2>4. Reached(moved, job.start[Target(job)], rows[Target(job)])
        BY <2>3 DEF Reached
    <2>5. 0 \in Nat
        OBVIOUS
    <2>6. moved = [job EXCEPT !.step = 0]
        OBVIOUS
    <2> HIDE DEF moved
    <2>7. \A result : GoesOn(job, result, Posts(moved, shown, quiet))
        BY <2>2, <2>4, <2>5, <2>6, NextPostSound
    <2>8. Posts(moved, shown, quiet).phase = "posted"
        BY <2>3 DEF Jobs, Posts
    <2>9. QED
        BY <2>1, <2>7, <2>8
<1>3. QED
    BY <1>1, <1>2



----------------------------------------------------------------------------
(* What follows an answer.                                                 *)

\* A report that is true of every idea it can vouch for, and leaves none out.
ReportsTold(job, report) ==
    /\ \A n \in DOMAIN job.plan : report[job.plan[n].id] # "none"
    /\ \A i \in Ideas \ job.spoilt : Told(job, report[i], i, rows[i])

Follows(job, next) ==
    /\ next \in Jobs /\ next.kind = job.kind /\ next.phase \in {"posted", "done"}
    /\ next.phase = "posted" => Sound(next, rows)
    /\ next.phase = "done" => next.plan = <<>> /\ ReportsTold(job, next.report)

LEMMA ReportIsTold ==
    ASSUME NEW job, AtWork(job), NEW result, result # "none",
           Target(job) \notin job.spoilt => Told(job, result, Target(job), rows[Target(job)]),
           NEW report, Reported(job, result, report)
    PROVE  ReportsTold(job, report)
<1>1. \A n \in DOMAIN job.plan : job.plan[n].id \in Ideas /\ job.plan[n].id \in PlanIds(job.plan)
    <2>1. job.plan \in Seq(PlanItems)
        BY JobTyped DEF AtWork, Planful
    <2>2. \A n \in DOMAIN job.plan : job.plan[n] \in PlanItems
        BY <2>1
    <2>3. QED
        BY <2>2 DEF PlanItems, PlanIds
<1>2. \A n \in DOMAIN job.plan : report[job.plan[n].id] # "none"
    BY <1>1 DEF Reported
<1>3. ASSUME NEW i \in Ideas \ job.spoilt PROVE Told(job, report[i], i, rows[i])
    <2>1. CASE i = Target(job)
        BY <1>3, <2>1 DEF Reported
    <2>2. CASE i # Target(job) /\ i \in PlanIds(job.plan)
        <3>1. report[i] = "skipped" /\ rows[i] = job.start[i]
            BY <1>3, <2>2 DEF Reported, AtWork, Settled
        <3>2. QED
            BY <3>1 DEF Told, Tells
    <2>3. CASE i # Target(job) /\ i \notin PlanIds(job.plan)
        BY <1>3, <2>3 DEF Reported, AtWork, Settled
    <2>4. QED
        BY <2>1, <2>2, <2>3
<1>4. QED
    BY <1>2, <1>3 DEF ReportsTold

LEMMA SoundIsAtWork ==
    ASSUME NEW job, Sound(job, rows)
    PROVE  /\ AtWork(job) /\ job \in Jobs
           /\ Target(job) \in Ideas /\ StepOf(job) \in Steps
           /\ job.phase = "served" /\ job.reply # None /\ Target(job) \notin job.spoilt =>
                 Answer(job, rows[Target(job)])
           /\ job.phase = "served" /\ job.reply = None /\ Target(job) \notin job.spoilt =>
                 Refusal(job, rows[Target(job)])
           /\ job.phase = "served" => job.mark \in Marks
<1>1. AtWork(job) /\ job \in Jobs
    BY DEF Sound, AtWork, Planful
<1>2. Target(job) \in Ideas
    BY <1>1, RunForms
<1>3. StepOf(job) \in Steps
    <2> DEFINE item == Head(job.plan)
    <2>1. /\ item.steps \in Seq(Steps) /\ job.step \in 0..Len(item.steps) /\ Len(item.steps) \in Nat
        BY <1>1, JobTyped, PlanHead DEF AtWork, Planful
    <2>2. StepOf(job) = IF job.step = 0 THEN MoveTo("archived") ELSE item.steps[job.step]
        BY DEF StepOf
    <2> HIDE DEF item
    <2>3. job.step # 0 => job.step \in 1..Len(item.steps)
        BY <2>1
    <2>4. QED
        BY <2>1, <2>2, <2>3, KnownSteps
<1>4. ASSUME job.phase = "served", Target(job) \notin job.spoilt
      PROVE  Working(job, job.start[Target(job)], rows[Target(job)])
    BY <1>2, <1>4 DEF Sound
<1>5. QED
    BY <1>1, <1>2, <1>3, <1>4 DEF Sound, Working, Answer, Refusal

LEMMA SameWorkAtWork ==
    ASSUME NEW job, AtWork(job), NEW other \in Jobs, SameWork(job, other)
    PROVE  /\ AtWork(other)
           /\ Target(other) = Target(job) /\ StepOf(other) = StepOf(job)
           /\ \A row : Answer(job, row) => Answer(other, row)
           /\ \A row : Refusal(job, row) => Refusal(other, row)
           /\ Outcome(other) = Outcome(job) /\ Setback(other) = Setback(job)
           /\ AtLast(other) <=> AtLast(job)
           /\ PastHelp(other) <=> PastHelp(job)
<1>1. /\ \A i, board : Settled(job, i, board) => Settled(other, i, board)
      /\ \A start, row : Reached(job, start, row) => Reached(other, start, row)
      /\ Target(other) = Target(job) /\ StepOf(other) = StepOf(job)
    BY SameWorkTells
<1>2. Planful(other)
    BY SameWorkPlans DEF AtWork
<1>3. AtWork(other)
    <2>1. \A i \in Ideas \ other.spoilt :
             IF i = Target(other) THEN other.report[i] = "none" ELSE Settled(other, i, rows)
        BY <1>1 DEF AtWork, SameWork
    <2>2. QED
        BY <1>2, <2>1 DEF AtWork, SameWork
<1>4. \A row : Answer(job, row) => Answer(other, row)
    BY <1>1 DEF Answer, SameWork
<1>5. \A row : Refusal(job, row) => Refusal(other, row)
    BY <1>1 DEF Refusal, SameWork
<1>6. QED
    BY <1>1, <1>3, <1>4, <1>5 DEF SameWork, Outcome, Setback, AtLast, PastHelp

\* What a job is known to have done, when its answer comes.
LEMMA DoneTyped ==
    ASSUME NEW job, Sound(job, rows), job.phase = "served"
    PROVE  /\ Done(job) \in Jobs /\ SameWork(job, Done(job))
           /\ Known(Done(job)) \in [Ideas -> Deeds] /\ Known(job) \in [Ideas -> Deeds]
           /\ Done(job).reply = job.reply /\ Done(job).inverse = job.inverse
           /\ Done(job).kind = job.kind
<1>1. /\ job \in Jobs /\ Target(job) \in Ideas /\ StepOf(job) \in Steps /\ job.mark \in Marks
      /\ job.deed \in [Ideas -> Deeds] /\ job.spoilt \subseteq Ideas
    BY SoundIsAtWork, JobTyped
<1> DEFINE i == Target(job)
           fields == {Field(StepOf(job))}
           done == IF job.deed[i] = None
                   THEN [was |-> job.mark.was, is |-> job.mark.is, wrote |-> fields,
                         noted |-> Keeps(job)]
                   ELSE [job.deed[i] EXCEPT !.is = job.mark.is, !.wrote = @ \cup fields,
                                            !.noted = @ /\ Keeps(job)]
<1>2. fields \in SUBSET Fields
    BY <1>1, StepForms
<1>3. done \in Deeds
    <2> HIDE DEF fields, i
    <2>0. Keeps(job) \in BOOLEAN
        BY DEF Keeps
    <2>1. job.mark.was \in Row \cup {Gone} /\ job.mark.is \in Row \cup {Gone}
        BY <1>1 DEF Marks
    <2>2. CASE job.deed[i] = None
        BY <1>2, <2>0, <2>1, <2>2 DEF Deeds, KnownDeeds, Fields
    <2>3. CASE job.deed[i] # None
        <3>1. job.deed[i] \in [was : Row \cup {Gone}, is : Row \cup {Gone},
                               wrote : SUBSET Fields, noted : BOOLEAN]
            BY <1>1, <2>3 DEF Deeds, KnownDeeds, Fields, i
        <3>2. QED
            BY <1>2, <2>0, <2>1, <2>3, <3>1 DEF Deeds, KnownDeeds, Fields
    <2>4. QED
        BY <2>2, <2>3
<1>4. Done(job) = [job EXCEPT !.deed[i] = done]
    BY DEF Done
<1> HIDE DEF done
<1>6. [job.deed EXCEPT ![i] = done] \in [Ideas -> Deeds]
    BY <1>1, <1>3
<1>7. Done(job) \in Jobs
    BY <1>1, <1>4, <1>6 DEF Jobs
<1>8. /\ SameWork(job, Done(job)) /\ Done(job).reply = job.reply /\ Done(job).inverse = job.inverse
      /\ Done(job).kind = job.kind
    BY <1>1, <1>4 DEF Jobs, SameWork
<1>9. \A any \in Jobs : Known(any) \in [Ideas -> Deeds]
    BY JobTyped DEF Known, Deeds
<1>10. QED
    BY <1>1, <1>7, <1>8, <1>9


\* Answered and Refused: the job goes on, and what it says at its end is true.
AfterAnswer(job) ==
    Continues([Done(job) EXCEPT !.reply = None, !.mark = None], Adopted(job.reply), undoing)
AfterRefusal(job) == Recovers([job EXCEPT !.mark = None], snapshot, undoing)

LEMMA AnsweredFollows ==
    ASSUME snapshot \in Views, NEW job, Sound(job, rows), job.phase = "served", job.reply # None
    PROVE  Follows(job, AfterAnswer(job)) /\ Adopted(job.reply) \in Views
<1> DEFINE done == Done(job)
           other == [done EXCEPT !.reply = None, !.mark = None]
           next == AfterAnswer(job)
           shown == Adopted(job.reply)
<1>1. done \in Jobs /\ SameWork(job, done)
    BY DoneTyped
<1>2. AtWork(job) /\ job \in Jobs
      /\ (Target(job) \notin job.spoilt => Answer(job, rows[Target(job)]))
    BY SoundIsAtWork
<1>3. shown \in Views
    BY <1>2, JobTyped DEF Adopted
<1>4. next = Continues(other, shown, undoing)
    BY DEF AfterAnswer
<1> HIDE DEF done, next, shown
<1>5. other \in Jobs /\ SameWork(job, other)
    BY <1>1 DEF Jobs, SameWork
<1> HIDE DEF other
<1>6. /\ AtWork(other) /\ Target(other) = Target(job) /\ Outcome(other) = Outcome(job)
      /\ \A row : Answer(job, row) => Answer(other, row)
      /\ AtLast(other) <=> AtLast(job)
    BY <1>2, <1>5, SameWorkAtWork
<1>7. Target(other) \notin other.spoilt => Answer(other, rows[Target(other)])
    BY <1>2, <1>5, <1>6 DEF SameWork
<1>8. GoesOn(other, Outcome(other), next) /\ (next.phase = "done" => AtLast(other))
    BY <1>3, <1>4, <1>6, <1>7, ContinuesSound
<1>9. ASSUME next.phase = "done" PROVE ReportsTold(job, next.report)
    <2>1. Reported(other, Outcome(other), next.report) /\ AtLast(job)
        BY <1>6, <1>8, <1>9 DEF GoesOn
    <2>2. Reported(job, Outcome(job), next.report)
        BY <1>5, <1>6, <2>1 DEF Reported, SameWork
    <2>3. Target(job) \notin job.spoilt => Told(job, Outcome(job), Target(job), rows[Target(job)])
        BY <1>2, <2>1, OutcomeTold
    <2>4. Outcome(job) # "none"
        BY DEF Outcome
    <2>5. QED
        BY <1>2, <2>2, <2>3, <2>4, ReportIsTold
<1>10. QED
    BY <1>3, <1>5, <1>8, <1>9 DEF Follows, GoesOn, SameWork, next, shown

LEMMA RefusedFollows ==
    ASSUME snapshot \in Views, NEW job, Sound(job, rows), job.phase = "served", job.reply = None
    PROVE  Follows(job, AfterRefusal(job))
<1> DEFINE other == [job EXCEPT !.mark = None]
           next == AfterRefusal(job)
<1>1. AtWork(job) /\ job \in Jobs
      /\ (Target(job) \notin job.spoilt => Refusal(job, rows[Target(job)]))
    BY SoundIsAtWork
<1>2. next = Recovers(other, snapshot, undoing)
    BY DEF AfterRefusal
<1> HIDE DEF next
<1>3. other \in Jobs /\ SameWork(job, other)
    BY <1>1 DEF Jobs, SameWork
<1> HIDE DEF other
<1>4. /\ AtWork(other) /\ Target(other) = Target(job) /\ Setback(other) = Setback(job)
      /\ \A row : Refusal(job, row) => Refusal(other, row)
      /\ PastHelp(other) <=> PastHelp(job)
    BY <1>1, <1>3, SameWorkAtWork
<1>5. Target(other) \notin other.spoilt => Refusal(other, rows[Target(other)])
    BY <1>1, <1>3, <1>4 DEF SameWork
<1>6. GoesOn(other, Setback(other), next) /\ (next.phase = "done" => PastHelp(other))
    BY <1>2, <1>4, <1>5, RecoversSound
<1>7. ASSUME next.phase = "done" PROVE ReportsTold(job, next.report)
    <2>1. Reported(other, Setback(other), next.report) /\ PastHelp(job)
        BY <1>4, <1>6, <1>7 DEF GoesOn
    <2>2. Reported(job, Setback(job), next.report)
        BY <1>3, <1>4, <2>1 DEF Reported, SameWork
    <2>3. Target(job) \notin job.spoilt => Told(job, Setback(job), Target(job), rows[Target(job)])
        BY <1>1, <2>1, SetbackTold
    <2>4. Setback(job) # "none"
        BY DEF Setback
    <2>5. QED
        BY <1>1, <2>2, <2>3, <2>4, ReportIsTold
<1>8. QED
    BY <1>3, <1>6, <1>7 DEF Follows, GoesOn, SameWork, next



----------------------------------------------------------------------------
(* The batch, the stack and the flag.                                      *)

LEMMA GreaterOfTwo ==
    ASSUME NEW a \in Int, NEW b \in Int
    PROVE  Max({a, b}) = IF a >= b THEN a ELSE b
<1> DEFINE greater == IF a >= b THEN a ELSE b
<1>1. greater \in {a, b} /\ \A k \in {a, b} : greater >= k
    OBVIOUS
<1>2. \A m \in {a, b} : (\A k \in {a, b} : m >= k) => m = greater
    OBVIOUS
<1> HIDE DEF greater
<1>3. Max({a, b}) = greater
    BY <1>1, <1>2 DEF Max
<1>4. QED
    BY <1>3 DEF greater

LEMMA PushedTyped ==
    ASSUME NEW T, NEW entries \in Seq(T), NEW entry \in T
    PROVE  Pushed(entries, entry) \in Seq(T) /\ Len(Pushed(entries, entry)) <= StackLimit
<1> DEFINE all == Append(entries, entry)
           from == Max({1, Len(all) - StackLimit + 1})
<1>1. all \in Seq(T) /\ Len(all) \in Nat /\ StackLimit \in Nat \ {0}
    BY ClientAssumption
<1>2. Pushed(entries, entry) = SubSeq(all, from, Len(all))
    BY DEF Pushed
<1> HIDE DEF all
<1>3. from \in Nat /\ from >= 1 /\ from >= Len(all) - StackLimit + 1 /\ from <= Len(all) + 1
    <2> DEFINE bottom == Len(all) - StackLimit + 1
    <2>1. bottom \in Int /\ bottom <= Len(all) + 1
        BY <1>1
    <2>2. from = IF 1 >= bottom THEN 1 ELSE bottom
        BY <2>1, GreaterOfTwo
    <2> HIDE DEF from, bottom
    <2>3. from \in Nat /\ from >= 1 /\ from >= bottom /\ from <= Len(all) + 1
        BY <1>1, <2>1, <2>2
    <2>4. QED
        BY <2>3 DEF bottom
<1> HIDE DEF from
<1>4. CASE from <= Len(all)
    <2>1. /\ SubSeq(all, from, Len(all)) \in Seq(T)
          /\ Len(SubSeq(all, from, Len(all))) = Len(all) - from + 1
        BY <1>1, <1>3, <1>4, SubSeqProperties
    <2>2. Len(all) - from + 1 <= StackLimit
        BY <1>1, <1>3
    <2>3. QED
        BY <1>2, <2>1, <2>2
<1>5. CASE from > Len(all)
    <2>1. from = Len(all) + 1
        BY <1>1, <1>3, <1>5
    <2>2. SubSeq(all, from, Len(all)) = <<>> /\ <<>> \in Seq(T) /\ Len(<<>>) = 0
        BY <1>1, <2>1, SubSeqProperties
    <2>3. QED
        BY <1>1, <1>2, <2>2
<1>6. QED
    BY <1>1, <1>3, <1>4, <1>5

LEMMA FrontTyped ==
    ASSUME NEW T, NEW entries \in Seq(T), entries # <<>>, Len(entries) <= StackLimit
    PROVE  /\ Front(entries) \in Seq(T) /\ Len(Front(entries)) <= StackLimit
           /\ Last(entries) \in T
<1>1. Len(entries) \in Nat /\ Len(entries) > 0 /\ StackLimit \in Nat
    BY ClientAssumption
<1>2. /\ Front(entries) = SubSeq(entries, 1, Len(entries) - 1)
      /\ Last(entries) = entries[Len(entries)]
    BY DEF Front, Last
<1>3. /\ SubSeq(entries, 1, Len(entries) - 1) \in Seq(T)
      /\ Len(SubSeq(entries, 1, Len(entries) - 1)) = Len(entries) - 1
    <2> DEFINE last == Len(entries) - 1
    <2>1. 1 \in 1..(Len(entries) + 1) /\ last \in 0..Len(entries) /\ last \in Nat
        BY <1>1
    <2> HIDE DEF last
    <2>2. /\ SubSeq(entries, 1, last) \in Seq(T)
          /\ Len(SubSeq(entries, 1, last)) = last
        BY <2>1, SubSeqProperties
    <2>3. QED
        BY <2>2 DEF last
<1>4. Len(entries) \in DOMAIN entries
    BY <1>1
<1>5. QED
    BY <1>1, <1>2, <1>3, <1>4

\* A job that begins or goes on leaves the desk, the stack and the flag in order.
LEMMA BecomesSound ==
    ASSUME ClientInv, NEW j \in Slots, NEW next, next \in Jobs,
           next.phase \in {"posted", "done"}, next.phase = "posted" => Sound(next, rows),
           next.phase = "done" => next.plan = <<>>,
           next.kind = "undo" <=> j # Desk,
           NEW deed \in [Ideas -> Deeds], NEW quiet \in BOOLEAN,
           quiet /\ next.kind # "undo" => undoing,
           NEW open \in {None} \cup Batches,
           j = Desk => (open # None <=> Runs(next.kind)), j # Desk => (open # None <=> batch # None),
           NEW entries \in Seq(Entries), Len(entries) <= StackLimit,
           Becomes(j, next, deed, quiet, open, entries), rows' = rows
    PROVE  /\ JobsSound'
           /\ (batch \in {None} \cup Batches)' /\ (batch # None <=> Runs(jobs[Desk].kind) /\ Busy(Desk))'
           /\ (undoing \in BOOLEAN)' /\ (undoing => \E u \in 1..Undos : Busy(u))'
           /\ (stack \in Seq(Entries))' /\ (Len(stack) <= StackLimit)'
           /\ (undoKey \in Nat \cup {None})'
<1>1. /\ jobs \in [Slots -> Jobs] /\ undoKey \in Nat \cup {None}
      /\ batch # None <=> Runs(jobs[Desk].kind) /\ Busy(Desk)
      /\ undoing => \E u \in 1..Undos : Busy(u)
      /\ \A k \in Slots : IF Busy(k) THEN Sound(jobs[k], rows) ELSE jobs[k].plan = <<>>
      /\ jobs[Desk].kind # "undo" /\ \A u \in 1..Undos : Busy(u) => jobs[u].kind = "undo"
    BY DEF ClientInv, TabSound, JobsSound
<1>2. jobs' = [jobs EXCEPT ![j] = next] /\ undoing' = (quiet /\ ~(next.kind = "undo" /\ next.phase = "done"))
    BY DEF Becomes
<1>3. /\ jobs' \in [Slots -> Jobs] /\ jobs'[j] = next
      /\ \A k \in Slots : k # j => jobs'[k] = jobs[k]
    BY <1>1, <1>2
<1>4. /\ Desk \in Slots /\ \A u \in 1..Undos : u \in Slots /\ u # Desk
      /\ j # Desk => j \in 1..Undos
    BY ClientAssumption DEF Desk, Slots
<1>5. JobsSound'
    <2>1. ASSUME NEW k \in Slots
          PROVE  IF jobs'[k].phase \in {"posted", "served"} THEN Sound(jobs'[k], rows')
                 ELSE jobs'[k].plan = <<>>
        <3>1. CASE k = j
            BY <1>3, <3>1
        <3>2. CASE k # j
            BY <1>1, <1>3, <3>2 DEF Busy
        <3>3. QED
            BY <3>1, <3>2
    <2>2. jobs'[Desk].kind # "undo"
        BY <1>1, <1>3, <1>4
    <2>3. \A u \in 1..Undos : Busy(u)' => jobs'[u].kind = "undo"
        <3> SUFFICES ASSUME NEW u \in 1..Undos, Busy(u)' PROVE jobs'[u].kind = "undo"
            OBVIOUS
        <3>1. u \in Slots /\ u # Desk
            BY <1>4
        <3>2. CASE u = j
            BY <1>3, <3>1, <3>2
        <3>3. CASE u # j
            BY <1>1, <1>3, <3>1, <3>3 DEF Busy
        <3>4. QED
            BY <3>2, <3>3
    <2>4. QED
        BY <1>3, <2>1, <2>2, <2>3 DEF JobsSound, Busy
<1>6. Busy(j)' <=> next.phase = "posted"
    BY <1>3 DEF Busy
<1>7. \A k \in Slots : k # j => (Busy(k)' <=> Busy(k))
    BY <1>3 DEF Busy
<1>8. (undoing => \E u \in 1..Undos : Busy(u))'
    <2> SUFFICES ASSUME undoing' PROVE \E u \in 1..Undos : Busy(u)'
        OBVIOUS
    <2>1. quiet /\ ~(next.kind = "undo" /\ next.phase = "done")
        BY <1>2
    <2>2. CASE next.kind = "undo"
        BY <1>4, <1>6, <2>1, <2>2
    <2>3. CASE next.kind # "undo"
        <3>1. PICK u \in 1..Undos : Busy(u)
            BY <1>1, <2>1, <2>3
        <3>2. u \in Slots /\ u # j
            BY <1>4, <2>3
        <3>3. QED
            BY <1>7, <3>1, <3>2
    <2>4. QED
        BY <2>2, <2>3
<1>9. undoing' \in BOOLEAN
    BY <1>2
<1>10. CASE Runs(next.kind) /\ next.phase = "done"
    <2>1. j = Desk /\ open \in Batches
        BY <1>10 DEF Runs
    <2>2. batch' = None
        BY <1>10 DEF Becomes, Runs
    <2>3. ~(Busy(Desk)')
        BY <1>6, <1>10, <2>1
    <2>4. CASE open.items = <<>>
        <3>1. stack' = entries /\ undoKey' = None
            BY <1>10, <2>4 DEF Becomes, Runs
        <3>2. QED
            BY <1>5, <1>8, <1>9, <2>2, <2>3, <3>1
    <2>5. CASE open.items # <<>>
        <3> DEFINE entry == [key |-> open.key, by |-> next.kind, items |-> open.items, deed |-> deed]
        <3>1. stack' = Pushed(entries, entry) /\ undoKey' = open.key
            BY <1>10, <2>5 DEF Becomes, Runs
        <3>2. entry \in Entries /\ open.key \in Nat
            BY <2>1, JobTyped DEF Batches, Entries
        <3> HIDE DEF entry
        <3>3. stack' \in Seq(Entries) /\ Len(stack') <= StackLimit
            BY <3>1, <3>2, PushedTyped
        <3>4. QED
            BY <1>5, <1>8, <1>9, <2>2, <2>3, <3>1, <3>2, <3>3
    <2>6. QED
        BY <2>4, <2>5
<1>11. CASE ~(Runs(next.kind) /\ next.phase = "done")
    <2>1. batch' = open /\ undoKey' = undoKey
          /\ stack' = IF next.kind = "restore" /\ next.phase = "done"
                      THEN Discarded(entries, undoKey) ELSE entries
        BY <1>11 DEF Becomes, Runs
    <2>2. Discarded(entries, undoKey) \in Seq(Entries) /\ Len(Discarded(entries, undoKey)) <= StackLimit
        BY FrontTyped DEF Discarded
    <2>3. stack' \in Seq(Entries) /\ Len(stack') <= StackLimit
        BY <2>1, <2>2
    <2>4. batch' # None <=> Runs(jobs'[Desk].kind) /\ Busy(Desk)'
        <3>1. CASE j = Desk
            BY <1>3, <1>6, <1>11, <2>1, <3>1
        <3>2. CASE j # Desk
            BY <1>1, <1>3, <1>4, <1>7, <2>1, <3>2
        <3>3. QED
            BY <3>1, <3>2
    <2>5. QED
        BY <1>1, <1>5, <1>8, <1>9, <2>1, <2>3, <2>4
<1>12. QED
    BY <1>10, <1>11



----------------------------------------------------------------------------
(* The actions.                                                            *)

\* A job that is over has told the truth about every idea it can vouch for.
StepTells ==
    \A j \in Slots : Finishes(j) =>
        /\ \A n \in DOMAIN jobs[j].plan : jobs'[j].report[jobs[j].plan[n].id] # "none"
        /\ \A i \in Ideas \ jobs[j].spoilt : Told(jobs[j], jobs'[j].report[i], i, rows'[i])

\* A job that begins: what it finds is what it starts from.
Begun(job) == [job EXCEPT !.start = rows, !.spoilt = {i \in Ideas : snapshot.rows[i] # rows[i]}]

FitsAtStart(job) == \A n \in DOMAIN job.plan : Fits(Begun(job), job.plan[n])

LEMMA BegunReady ==
    ASSUME rows \in Boards, NEW job \in Jobs, OneItemEach(job.plan), job.report = Idle.report,
           NEW begun, begun = Begun(job), FitsAtStart(job)
    PROVE  Ready(begun, rows) /\ begun.kind = job.kind
<1> DEFINE spoilt == {i \in Ideas : snapshot.rows[i] # rows[i]}
<1>1. spoilt \subseteq Ideas
    OBVIOUS
<1> HIDE DEF spoilt
<1>2. begun = [job EXCEPT !.start = rows, !.spoilt = spoilt]
    BY DEF spoilt, Begun
<1>3. begun \in Jobs /\ begun.start = rows /\ begun.kind = job.kind /\ begun.plan = job.plan
      /\ begun.report = job.report
    BY <1>1, <1>2 DEF Jobs
<1>4. \A i \in Ideas : begun.report[i] = "none"
    BY <1>3 DEF Idle
<1>5. Planful(begun)
    BY <1>3 DEF Planful, FitsAtStart
<1>6. \A i \in Ideas : Settled(begun, i, rows)
    BY <1>3, <1>4 DEF Settled, Told, Tells
<1>7. QED
    BY <1>3, <1>5, <1>6 DEF Ready

LEMMA StartsSound ==
    ASSUME ClientInv, NEW j \in Slots, ~Busy(j), NEW job \in Jobs, OneItemEach(job.plan),
           job.report = Idle.report, job.kind = "undo" <=> j # Desk,
           FitsAtStart(job),
           NEW quiet \in BOOLEAN, quiet /\ job.kind # "undo" => undoing,
           NEW open \in {None} \cup Batches,
           j = Desk => (open # None <=> Runs(job.kind)), j # Desk => (open # None <=> batch # None),
           NEW entries \in Seq(Entries), Len(entries) <= StackLimit,
           Starts(j, job, quiet, open, entries)
    PROVE  ClientInv' /\ StepTells
<1> DEFINE begun == Begun(job)
           next == Proceeds(begun, snapshot, quiet)
<1>1. /\ rows \in Boards /\ revision \in Nat /\ snapshot \in Views /\ poll \in {None} \cup Views
      /\ started \in 0..MaxEvents /\ faults \in 0..MaxEvents /\ restarted \in BOOLEAN
      /\ jobs \in [Slots -> Jobs]
    BY DEF ClientInv, TabSound, JobsSound
<1>2. /\ Starting /\ Becomes(j, next, Idle.deed, quiet, open, entries)
      /\ UNCHANGED <<rows, revision, snapshot, poll, faults, restarted>>
    BY DEF Starts, Begun
<1>3. Ready(begun, rows) /\ begun.kind = job.kind
    BY <1>1, BegunReady
<1> HIDE DEF begun
<1>4. /\ next \in Jobs /\ next.kind = job.kind /\ next.phase \in {"posted", "done"}
      /\ next.phase = "posted" => Sound(next, rows)
      /\ next.phase = "done" => next.plan = <<>>
    <2>1. next = Proceeds(begun, snapshot, quiet)
        OBVIOUS
    <2> HIDE DEF next
    <2>2. QED
        BY <1>1, <1>3, <2>1, ProceedsSound
<1> HIDE DEF next
<1>5. Idle.deed \in [Ideas -> Deeds]
    BY IdleTyped, JobTyped
<1>6. rows' = rows
    BY <1>2
<1>7. /\ JobsSound'
      /\ (batch \in {None} \cup Batches)' /\ (batch # None <=> Runs(jobs[Desk].kind) /\ Busy(Desk))'
      /\ (undoing \in BOOLEAN)' /\ (undoing => \E u \in 1..Undos : Busy(u))'
      /\ (stack \in Seq(Entries))' /\ (Len(stack) <= StackLimit)'
      /\ (undoKey \in Nat \cup {None})'
    BY <1>2, <1>4, <1>5, <1>6, BecomesSound
<1>8. started' \in 0..MaxEvents /\ faults' \in 0..MaxEvents
    <2>1. started + faults < MaxEvents /\ started' = started + 1
        BY <1>2 DEF Starting
    <2>2. faults' = faults /\ MaxEvents \in Nat
        BY <1>2, ClientAssumption
    <2>3. QED
        BY <1>1, <2>1, <2>2
<1>9. TabSound'
    BY <1>1, <1>2, <1>7, <1>8 DEF TabSound
<1>10. \A k \in Slots : ~Finishes(k)
    <2>1. jobs' = [jobs EXCEPT ![j] = next]
        BY <1>2 DEF Becomes
    <2>2. QED
        BY <1>1, <2>1 DEF Finishes, Busy
<1>11. QED
    BY <1>7, <1>9, <1>10 DEF ClientInv, StepTells


LEMMA AtTheDesk ==
    ASSUME ClientInv
    PROVE  /\ Desk \in Slots /\ \A u \in 1..Undos : u \in Slots /\ u # Desk
           /\ undoing \in BOOLEAN /\ batch \in {None} \cup Batches
           /\ ~Busy(Desk) => batch = None
           /\ stack \in Seq(Entries) /\ Len(stack) <= StackLimit
           /\ rows \in Boards /\ snapshot \in Views /\ started \in Nat
BY ClientAssumption DEF Desk, Slots, ClientInv, TabSound

\* But for a tag run, nothing at the desk takes more than one verb.
Short(job) == job.kind \notin {"undo", "tag"} => \A n \in DOMAIN job.plan : Len(job.plan[n].steps) <= 1

\* A job that has done nothing yet.
Fresh(job) ==
    /\ job \in Jobs /\ OneItemEach(job.plan) /\ Short(job) /\ FitsAtStart(job)
    /\ job.report = Idle.report /\ job.deed = Idle.deed

\* A job that has a kind, a plan and an entry to it, and nothing else yet.
Opens(job, kind, plan, entry) ==
    \/ job = [Idle EXCEPT !.kind = kind, !.plan = plan] /\ entry = None
    \/ job = [Idle EXCEPT !.kind = kind, !.plan = plan, !.entry = entry]

NotAsShown == {i \in Ideas : snapshot.rows[i] # rows[i]}

\* A job before its first post, whatever it was opened for.
LEMMA NewJob ==
    ASSUME NEW kind \in Kinds, NEW plan \in Seq(PlanItems), NEW entry \in {None} \cup Entries,
           NEW job, Opens(job, kind, plan, entry)
    PROVE  /\ job \in Jobs /\ job.kind = kind /\ job.plan = plan /\ job.entry = entry
           /\ job.report = Idle.report /\ job.deed = Idle.deed
           /\ Begun(job).kind = kind /\ Begun(job).plan = plan /\ Begun(job).start = rows
           /\ Begun(job).spoilt = NotAsShown
<1> DEFINE idle == Idle
           spoilt == {i \in Ideas : snapshot.rows[i] # rows[i]}
<1>1. idle \in Jobs /\ idle.entry = None
    BY IdleTyped DEF Idle
<1>2. \/ job = [idle EXCEPT !.kind = kind, !.plan = plan] /\ entry = None
      \/ job = [idle EXCEPT !.kind = kind, !.plan = plan, !.entry = entry]
    BY DEF Opens
<1>3. Begun(job) = [job EXCEPT !.start = rows, !.spoilt = spoilt]
    BY DEF Begun
<1>4. spoilt \subseteq Ideas /\ spoilt = NotAsShown
    BY DEF NotAsShown
<1> HIDE DEF idle, spoilt
<1>5. /\ job \in Jobs /\ job.kind = kind /\ job.plan = plan /\ job.entry = entry
      /\ job.report = idle.report /\ job.deed = idle.deed
    BY <1>1, <1>2 DEF Jobs
<1>6. /\ Begun(job).kind = kind /\ Begun(job).plan = plan /\ Begun(job).start = rows
      /\ Begun(job).spoilt = spoilt
    BY <1>3, <1>5, <1>4 DEF Jobs
<1>7. QED
    BY <1>5, <1>6, <1>4 DEF idle

\* What each of the actions that begin a job opens.
LEMMA EditBegins ==
    ASSUME ClientInv, NEW i \in Ideas, NEW step \in Steps, Edit(i, step)
    PROVE  /\ ~Busy(Desk)
           /\ \E job : Fresh(job) /\ job.kind = "edit" /\ Starts(Desk, job, undoing, batch, stack)
<1> DEFINE plan == <<[id |-> i, steps |-> <<step>>, round |-> FALSE]>>
           job == [Idle EXCEPT !.kind = "edit", !.plan = plan]
<1>1. /\ plan \in Seq(PlanItems) /\ OneItemEach(plan)
      /\ \A n \in DOMAIN plan : Len(plan[n].steps) <= 1
    <2>1. [id |-> i, steps |-> <<step>>, round |-> FALSE] \in PlanItems
        BY DEF PlanItems
    <2>2. DOMAIN plan = {1} /\ Len(plan[1].steps) <= 1
        <3>1. DOMAIN plan = {1} /\ plan[1].steps = <<step>>
            OBVIOUS
        <3>2. Len(<<step>>) = 1
            OBVIOUS
        <3> HIDE DEF plan
        <3>3. QED
            BY <3>1, <3>2
    <2>3. plan \in Seq(PlanItems)
        BY <2>1
    <2> HIDE DEF plan
    <2>4. \A n \in DOMAIN plan : n = 1
        BY <2>2
    <2>5. OneItemEach(plan)
        BY <2>4 DEF OneItemEach
    <2>6. \A n \in DOMAIN plan : Len(plan[n].steps) <= 1
        BY <2>2, <2>4
    <2>7. QED
        BY <2>3, <2>5, <2>6
<1>2. ~Busy(Desk) /\ Starts(Desk, job, undoing, batch, stack)
    BY DEF Edit
<1>3. PICK entry : /\ entry = None /\ entry \in {None} \cup Entries
                   /\ Opens(job, "edit", plan, entry) /\ "edit" \in Kinds
    BY DEF Opens, Kinds
<1> HIDE DEF plan, job
<1>4. /\ job \in Jobs /\ job.kind = "edit" /\ job.plan = plan
      /\ job.report = Idle.report /\ job.deed = Idle.deed /\ Begun(job).kind = "edit"
    BY <1>1, <1>3, NewJob
<1>5. FitsAtStart(job) /\ Short(job)
    BY <1>1, <1>4 DEF FitsAtStart, Fits, Short
<1>6. Fresh(job)
    BY <1>1, <1>4, <1>5 DEF Fresh
<1>7. QED
    BY <1>2, <1>4, <1>6

LEMMA BulkBegins ==
    ASSUME ClientInv, NEW kind \in {"tag", "archive"}, NEW chosen \in SUBSET Ideas, Bulk(kind, chosen),
           NEW open, open = [key |-> started + 1, items |-> <<>>]
    PROVE  /\ ~Busy(Desk)
           /\ \E job : Fresh(job) /\ job.kind = kind /\ Starts(Desk, job, undoing, open, stack)
<1> DEFINE plan == BulkPlan(kind, SetToSeq(chosen))
           job == [Idle EXCEPT !.kind = kind, !.plan = plan]
<1>1. /\ ~Busy(Desk) /\ \A i \in chosen : snapshot.rows[i] # Gone
      /\ Starts(Desk, job, undoing, open, stack)
    BY DEF Bulk
<1>2. rows \in Boards /\ snapshot \in Views
    BY AtTheDesk
<1>3. ASSUME NEW begun, begun.kind = kind, begun.start = rows, begun.plan = plan,
             begun.spoilt = {i \in Ideas : snapshot.rows[i] # rows[i]}
      PROVE  /\ plan \in Seq(PlanItems) /\ OneItemEach(plan)
             /\ \A n \in DOMAIN plan : Fits(begun, plan[n])
    <2>1. /\ begun.plan \in Seq(PlanItems) /\ OneItemEach(begun.plan)
          /\ \A n \in DOMAIN begun.plan : Fits(begun, begun.plan[n])
        BY <1>1, <1>2, <1>3, BulkPlanFits
    <2>2. QED
        BY <1>3, <2>1
<1>4. PICK entry : /\ entry = None /\ entry \in {None} \cup Entries
                   /\ Opens(job, kind, plan, entry) /\ kind \in Kinds
    BY DEF Opens, Kinds
<1> HIDE DEF plan, job
<1>5. plan \in Seq(PlanItems) /\ OneItemEach(plan)
    <2> DEFINE begun == [kind |-> kind, start |-> rows, plan |-> plan,
                         spoilt |-> {i \in Ideas : snapshot.rows[i] # rows[i]}]
    <2>1. /\ begun.kind = kind /\ begun.start = rows /\ begun.plan = plan
          /\ begun.spoilt = {i \in Ideas : snapshot.rows[i] # rows[i]}
        OBVIOUS
    <2> HIDE DEF begun
    <2>2. QED
        BY <1>3, <2>1
<1>6. /\ job \in Jobs /\ job.kind = kind /\ job.plan = plan
      /\ job.report = Idle.report /\ job.deed = Idle.deed
      /\ Begun(job).kind = kind /\ Begun(job).plan = plan /\ Begun(job).start = rows
      /\ Begun(job).spoilt = NotAsShown
    <2>1. PICK list, what : list = plan /\ what = kind
        OBVIOUS
    <2>2. /\ what \in Kinds /\ list \in Seq(PlanItems) /\ entry \in {None} \cup Entries
          /\ Opens(job, what, list, entry)
        BY <1>4, <1>5, <2>1
    <2>3. /\ job \in Jobs /\ job.kind = what /\ job.plan = list
          /\ job.report = Idle.report /\ job.deed = Idle.deed
          /\ Begun(job).kind = what /\ Begun(job).plan = list /\ Begun(job).start = rows
          /\ Begun(job).spoilt = NotAsShown
        BY <2>2, NewJob
    <2>4. QED
        BY <2>1, <2>3
<1>7. \A n \in DOMAIN plan : Fits(Begun(job), plan[n])
    BY <1>3, <1>6 DEF NotAsShown
<1>8. FitsAtStart(job)
    BY <1>6, <1>7 DEF FitsAtStart
<1>9. Short(job)
    <2> SUFFICES ASSUME job.kind \notin {"undo", "tag"}, NEW n \in DOMAIN job.plan
                 PROVE  Len(job.plan[n].steps) <= 1
        BY DEF Short
    <2>1. kind = "archive" /\ n \in DOMAIN plan
        BY <1>6
    <2>2. Fits(Begun(job), plan[n])
        BY <1>7, <2>1
    <2>3. PICK steps : steps = plan[n].steps /\ steps = job.plan[n].steps
        BY <1>6
    <2>4. steps \in {<<>>, <<MoveTo("archived")>>}
        BY <1>6, <2>1, <2>2, <2>3 DEF Fits
    <2>5. Len(<<>>) = 0 /\ Len(<<MoveTo("archived")>>) = 1
        OBVIOUS
    <2>6. Len(steps) <= 1
        <3>1. CASE steps = <<>>
            BY <2>5, <3>1
        <3>2. CASE steps = <<MoveTo("archived")>>
            BY <2>5, <3>2
        <3>3. QED
            BY <2>4, <3>1, <3>2
    <2>7. QED
        BY <2>3, <2>6
<1>10. Fresh(job)
    BY <1>5, <1>6, <1>8, <1>9 DEF Fresh
<1>11. QED
    BY <1>1, <1>6, <1>10

LEMMA RestoreArchivedBegins ==
    ASSUME ClientInv, RestoreArchived
    PROVE  /\ ~Busy(Desk)
           /\ \E job : Fresh(job) /\ job.kind = "restore" /\ Starts(Desk, job, undoing, batch, stack)
<1> DEFINE applied == {i \in Ideas : jobs[Desk].report[i] = "applied" /\ snapshot.rows[i] # Gone}
           order == SetToSeq(applied)
           plan == [n \in DOMAIN order |-> Planned(order[n], <<Restore>>)]
           stepsOf == [n \in DOMAIN order |-> <<Restore>>]
           job == [Idle EXCEPT !.kind = "restore", !.plan = plan]
<1>1. /\ jobs[Desk].phase = "done" /\ Starts(Desk, job, undoing, batch, stack)
    BY DEF RestoreArchived
<1>2. ~Busy(Desk)
    BY <1>1 DEF Busy
<1>3. /\ plan \in Seq(PlanItems) /\ OneItemEach(plan)
      /\ \A n \in DOMAIN plan : Len(plan[n].steps) <= 1
    <2>1. IsFiniteSet(applied) /\ applied \subseteq Ideas
        BY ClientAssumption, FS_Subset
    <2> HIDE DEF applied
    <2>2. Listed(order, applied)
        BY <2>1, SetIsListed
    <2> HIDE DEF order
    <2>3. Listed(order, Ideas)
        <3>1. order \in Seq(applied)
            BY <2>2 DEF Listed
        <3>2. order \in Seq(Ideas)
            BY <2>1, <3>1
        <3>3. QED
            BY <2>2, <3>2 DEF Listed
    <2>4. \A n \in DOMAIN order : stepsOf[n] \in Seq(Steps) /\ Len(stepsOf[n]) <= 1
        BY KnownSteps
    <2>5. plan = [n \in DOMAIN order |-> Planned(order[n], stepsOf[n])]
        OBVIOUS
    <2> HIDE DEF plan, stepsOf
    <2>6. /\ plan \in Seq(PlanItems) /\ OneItemEach(plan)
          /\ \A n \in DOMAIN plan : n \in DOMAIN order /\ plan[n].steps = stepsOf[n]
        BY <2>3, <2>4, <2>5, PlanOverList
    <2>7. QED
        BY <2>4, <2>6
<1>4. PICK entry : /\ entry = None /\ entry \in {None} \cup Entries
                   /\ Opens(job, "restore", plan, entry) /\ "restore" \in Kinds
    BY DEF Opens, Kinds
<1> HIDE DEF plan, job
<1>5. /\ job \in Jobs /\ job.kind = "restore" /\ job.plan = plan
      /\ job.report = Idle.report /\ job.deed = Idle.deed /\ Begun(job).kind = "restore"
    BY <1>3, <1>4, NewJob
<1>6. FitsAtStart(job) /\ Short(job)
    BY <1>3, <1>5 DEF FitsAtStart, Fits, Short
<1>7. Fresh(job)
    BY <1>3, <1>5, <1>6 DEF Fresh
<1>8. QED
    BY <1>1, <1>2, <1>5, <1>7

LEMMA UndoBegins ==
    ASSUME ClientInv, NEW u \in 1..Undos, Undo(u)
    PROVE  /\ ~Busy(u) /\ stack # <<>>
           /\ \E job : /\ Fresh(job) /\ job.kind = "undo"
                       /\ job.entry = Last(stack) /\ job.plan = UndoPlan(Last(stack))
                       /\ Starts(u, job, TRUE, batch, Front(stack))
<1> DEFINE entry == Last(stack)
           plan == UndoPlan(entry)
           job == [Idle EXCEPT !.kind = "undo", !.plan = plan, !.entry = entry]
<1>1. ~Busy(u) /\ stack # <<>> /\ Starts(u, job, TRUE, batch, Front(stack))
    BY DEF Undo
<1>2. entry \in Entries
    <2>1. stack \in Seq(Entries) /\ Len(stack) <= StackLimit
        BY AtTheDesk
    <2>2. QED
        BY <1>1, <2>1, FrontTyped
<1> HIDE DEF entry
<1>3. plan \in Seq(PlanItems) /\ OneItemEach(plan)
    <2>1. entry.items \in Seq(Items)
        BY <1>2 DEF Entries
    <2>2. QED
        BY <2>1, UndoPlanTyped
<1>4. /\ Opens(job, "undo", plan, entry) /\ "undo" \in Kinds
      /\ entry \in {None} \cup Entries
    BY <1>2 DEF Opens, Kinds
<1>5. plan = UndoPlan(entry)
    OBVIOUS
<1> HIDE DEF plan, job
<1>6. /\ job \in Jobs /\ job.kind = "undo" /\ job.plan = plan /\ job.entry = entry
      /\ job.report = Idle.report /\ job.deed = Idle.deed /\ Begun(job).kind = "undo"
    BY <1>3, <1>4, NewJob
<1>7. FitsAtStart(job) /\ Short(job)
    BY <1>6 DEF FitsAtStart, Fits, Short
<1>8. Fresh(job)
    BY <1>3, <1>6, <1>7 DEF Fresh
<1>9. QED
    BY <1>1, <1>5, <1>6, <1>8 DEF entry

\* A verb, or the restore button: no batch is open.
LEMMA DeskStartsSound ==
    ASSUME ClientInv, ~Busy(Desk), NEW job, Fresh(job), job.kind # "undo", ~Runs(job.kind),
           Starts(Desk, job, undoing, batch, stack)
    PROVE  ClientInv' /\ StepTells
<1>1. /\ Desk \in Slots /\ undoing \in BOOLEAN /\ batch \in {None} \cup Batches /\ batch = None
      /\ stack \in Seq(Entries) /\ Len(stack) <= StackLimit
    BY AtTheDesk
<1>2. job \in Jobs /\ OneItemEach(job.plan) /\ job.report = Idle.report /\ FitsAtStart(job)
    BY DEF Fresh
<1>3. QED
    BY <1>1, <1>2, StartsSound

LEMMA EditSound ==
    ASSUME ClientInv, NEW i \in Ideas, NEW step \in Steps, Edit(i, step)
    PROVE  ClientInv' /\ StepTells
<1>1. PICK job : ~Busy(Desk) /\ Fresh(job) /\ job.kind = "edit" /\ Starts(Desk, job, undoing, batch, stack)
    BY EditBegins
<1>2. job.kind # "undo" /\ ~Runs(job.kind)
    BY <1>1 DEF Runs
<1>3. QED
    BY <1>1, <1>2, DeskStartsSound

LEMMA BulkSound ==
    ASSUME ClientInv, NEW kind \in {"tag", "archive"}, NEW chosen \in SUBSET Ideas, Bulk(kind, chosen)
    PROVE  ClientInv' /\ StepTells
<1>1. PICK open : open = [key |-> started + 1, items |-> <<>>]
    OBVIOUS
<1>2. PICK job : ~Busy(Desk) /\ Fresh(job) /\ job.kind = kind /\ Starts(Desk, job, undoing, open, stack)
    BY <1>1, BulkBegins
<1>3. Runs(job.kind) /\ job.kind # "undo"
    BY <1>2 DEF Runs
<1>4. /\ Desk \in Slots /\ undoing \in BOOLEAN
      /\ stack \in Seq(Entries) /\ Len(stack) <= StackLimit
    BY AtTheDesk
<1>5. open \in {None} \cup Batches /\ open # None
    <2>1. open \in Batches
        BY <1>1, AtTheDesk DEF Batches
    <2>2. QED
        BY <2>1, NoneAssumption
<1>6. job \in Jobs /\ OneItemEach(job.plan) /\ job.report = Idle.report /\ FitsAtStart(job)
    BY <1>2 DEF Fresh
<1>7. QED
    BY <1>2, <1>3, <1>4, <1>5, <1>6, StartsSound

LEMMA RestoreArchivedSound ==
    ASSUME ClientInv, RestoreArchived
    PROVE  ClientInv' /\ StepTells
<1>1. PICK job : ~Busy(Desk) /\ Fresh(job) /\ job.kind = "restore" /\ Starts(Desk, job, undoing, batch, stack)
    BY RestoreArchivedBegins
<1>2. job.kind # "undo" /\ ~Runs(job.kind)
    BY <1>1 DEF Runs
<1>3. QED
    BY <1>1, <1>2, DeskStartsSound

LEMMA UndoSound ==
    ASSUME ClientInv, NEW u \in 1..Undos, Undo(u)
    PROVE  ClientInv' /\ StepTells
<1>1. PICK job : /\ ~Busy(u) /\ stack # <<>> /\ Fresh(job) /\ job.kind = "undo"
                 /\ Starts(u, job, TRUE, batch, Front(stack))
    BY UndoBegins
<1>2. /\ u \in Slots /\ u # Desk /\ batch \in {None} \cup Batches
      /\ stack \in Seq(Entries) /\ Len(stack) <= StackLimit
    BY AtTheDesk
<1>3. Front(stack) \in Seq(Entries) /\ Len(Front(stack)) <= StackLimit
    BY <1>1, <1>2, FrontTyped
<1>4. job \in Jobs /\ OneItemEach(job.plan) /\ job.report = Idle.report /\ FitsAtStart(job)
    BY <1>1 DEF Fresh
<1>5. QED
    BY <1>1, <1>2, <1>3, <1>4, StartsSound

\* The host has done what it does with a post, and the job is to hear of it.
LEMMA ServedSound ==
    ASSUME NEW job, Sound(job, rows), NEW board, \A i \in Ideas : i # Target(job) => board[i] = rows[i],
           NEW served \in Jobs, SameWork(job, served), served.phase = "served", served.mark \in Marks,
           Target(job) \notin job.spoilt =>
              Working(served, job.start[Target(job)], board[Target(job)])
    PROVE  Sound(served, board)
<1>1. /\ Target(served) = Target(job)
      /\ \A i, any : Settled(job, i, any) => Settled(served, i, any)
    BY SameWorkTells
<1>2. Planful(served)
    BY SameWorkPlans DEF Sound
<1>3. ASSUME NEW i \in Ideas \ served.spoilt
      PROVE  IF i = Target(served)
             THEN served.report[i] = "none" /\ Working(served, served.start[i], board[i])
             ELSE Settled(served, i, board)
    <2>1. i \in Ideas \ job.spoilt
        BY DEF SameWork
    <2>2. CASE i = Target(job)
        BY <1>1, <2>1, <2>2 DEF SameWork, Sound
    <2>3. CASE i # Target(job)
        <3>1. Settled(job, i, rows) /\ board[i] = rows[i]
            BY <2>1, <2>3 DEF Sound
        <3>2. Settled(job, i, board)
            BY <3>1 DEF Settled
        <3>3. QED
            BY <1>1, <2>3, <3>2
    <2>4. QED
        BY <2>2, <2>3
<1>4. QED
    BY <1>2, <1>3 DEF Sound, SameWork

\* Every other job is told that some ideas were written.
LEMMA SpoilsSound ==
    ASSUME ClientInv, NEW writer \in Slots \cup {None}, NEW changed \in SUBSET Ideas, NEW job,
           rows' \in Boards, \A i \in Ideas \ changed : rows'[i] = rows[i],
           writer \in Slots => /\ job \in Jobs /\ job.kind = jobs[writer].kind /\ Busy(writer)
                               /\ job.phase = "served" /\ Sound(job, rows'),
           jobs' = Spoils(changed, writer, job)
    PROVE  /\ JobsSound'
           /\ \A k \in Slots : (Busy(k)' <=> Busy(k)) /\ jobs'[k].kind = jobs[k].kind
           /\ \A k \in Slots : ~Finishes(k)
<1>1. /\ jobs \in [Slots -> Jobs]
      /\ \A k \in Slots : IF Busy(k) THEN Sound(jobs[k], rows) ELSE jobs[k].plan = <<>>
      /\ jobs[Desk].kind # "undo" /\ \A u \in 1..Undos : Busy(u) => jobs[u].kind = "undo"
    BY DEF ClientInv, JobsSound
<1>2. \A k \in Slots : jobs'[k] = IF k = writer THEN job
                                  ELSE IF Busy(k) THEN [jobs[k] EXCEPT !.spoilt = @ \cup changed]
                                  ELSE jobs[k]
    BY DEF Spoils
<1>3. ASSUME NEW k \in Slots
      PROVE  /\ jobs'[k] \in Jobs /\ jobs'[k].kind = jobs[k].kind
             /\ IF Busy(k) THEN Sound(jobs'[k], rows') /\ jobs'[k].phase \in {"posted", "served"}
                ELSE jobs'[k] = jobs[k]
    <2>1. CASE k = writer
        BY <1>2, <2>1
    <2>2. CASE k # writer /\ Busy(k)
        <3> DEFINE other == Warned(jobs[k], changed)
        <3>1. Sound(jobs[k], rows)
            BY <1>1, <2>2
        <3>2. /\ Sound(other, rows') /\ other \in Jobs
              /\ other.phase = jobs[k].phase /\ other.kind = jobs[k].kind
            <4>1. other = Warned(jobs[k], changed)
                OBVIOUS
            <4> HIDE DEF other
            <4>2. QED
                BY <3>1, <4>1, SpoilKeepsSound
        <3>3. jobs'[k] = other
            BY <1>2, <2>2 DEF Warned
        <3> HIDE DEF other
        <3>4. QED
            BY <2>2, <3>2, <3>3 DEF Busy
    <2>3. CASE k # writer /\ ~Busy(k)
        BY <1>1, <1>2, <2>3
    <2>4. QED
        BY <2>1, <2>2, <2>3
<1>4. \A k \in Slots : Busy(k)' <=> Busy(k)
    BY <1>3 DEF Busy
<1>5. jobs' \in [Slots -> Jobs]
    <2>1. jobs' = [k \in Slots |-> jobs'[k]]
        BY DEF Spoils
    <2>2. QED
        BY <1>3, <2>1
<1>6. Desk \in Slots /\ \A u \in 1..Undos : u \in Slots
    BY AtTheDesk
<1>7. JobsSound'
    <2>1. \A k \in Slots : IF Busy(k)' THEN Sound(jobs'[k], rows') ELSE jobs'[k].plan = <<>>
        BY <1>1, <1>3, <1>4
    <2>2. jobs'[Desk].kind # "undo"
        BY <1>1, <1>3, <1>6
    <2>3. ASSUME NEW u \in 1..Undos, Busy(u)' PROVE jobs'[u].kind = "undo"
        <3>1. u \in Slots
            BY <1>6
        <3>2. Busy(u) /\ jobs'[u].kind = jobs[u].kind
            BY <1>3, <1>4, <2>3, <3>1
        <3>3. QED
            BY <1>1, <3>2
    <2>4. QED
        BY <1>5, <2>1, <2>2, <2>3 DEF JobsSound
<1>8. \A k \in Slots : ~Finishes(k)
    BY <1>3 DEF Finishes
<1>9. QED
    BY <1>3, <1>4, <1>7, <1>8

\* What stays of the tab when its jobs only learn of a write.
LEMMA TabStays ==
    ASSUME ClientInv, rows' \in Boards, revision' \in Nat, snapshot' \in Views, poll' \in {None} \cup Views,
           started' \in 0..MaxEvents, faults' \in 0..MaxEvents, restarted' \in BOOLEAN,
           UNCHANGED <<undoing, batch, stack, undoKey>>, JobsSound',
           \A k \in Slots : (Busy(k)' <=> Busy(k)) /\ jobs'[k].kind = jobs[k].kind
    PROVE  ClientInv'
<1>1. Desk \in Slots /\ \A u \in 1..Undos : u \in Slots
    BY AtTheDesk
<1>2. /\ batch \in {None} \cup Batches /\ (batch # None <=> Runs(jobs[Desk].kind) /\ Busy(Desk))
      /\ undoing \in BOOLEAN /\ (undoing => \E u \in 1..Undos : Busy(u))
      /\ stack \in Seq(Entries) /\ Len(stack) <= StackLimit /\ undoKey \in Nat \cup {None}
    BY DEF ClientInv, TabSound
<1>3. (batch # None <=> Runs(jobs[Desk].kind) /\ Busy(Desk))'
    <2>1. Busy(Desk)' <=> Busy(Desk)
        BY <1>1
    <2>2. jobs'[Desk].kind = jobs[Desk].kind /\ batch' = batch
        BY <1>1
    <2>3. Runs(jobs'[Desk].kind) <=> Runs(jobs[Desk].kind)
        BY <2>2
    <2>4. batch' # None <=> Runs(jobs'[Desk].kind) /\ Busy(Desk)'
        BY <1>2, <2>1, <2>2, <2>3
    <2>5. QED
        BY <2>4
<1>4. (undoing => \E u \in 1..Undos : Busy(u))'
    BY <1>1, <1>2
<1>5. TabSound'
    BY <1>2, <1>3, <1>4 DEF TabSound
<1>6. QED
    BY <1>5 DEF ClientInv

LEMMA FaultCounted ==
    ASSUME ClientInv
    PROVE  /\ started \in 0..MaxEvents /\ faults \in 0..MaxEvents
           /\ Faulty => faults' \in 0..MaxEvents
<1>1. started \in 0..MaxEvents /\ faults \in 0..MaxEvents /\ MaxEvents \in Nat
    BY ClientAssumption DEF ClientInv, TabSound
<1>2. ASSUME Faulty PROVE faults' \in 0..MaxEvents
    <2>1. started + faults < MaxEvents /\ faults' = faults + 1
        BY <1>2 DEF Faulty
    <2>2. QED
        BY <1>1, <2>1
<1>3. QED
    BY <1>1, <1>2


\* What the host makes of a post: the row it writes, and what the job hears.
LEMMA PostKnows ==
    ASSUME NEW job, Sound(job, rows), job.phase = "posted", rows \in Boards, Target(job) \notin job.spoilt
    PROVE  Reached(job, job.start[Target(job)], rows[Target(job)])
<1>1. Target(job) \in Ideas
    BY SoundIsAtWork
<1>2. Working(job, job.start[Target(job)], rows[Target(job)])
    BY <1>1 DEF Sound
<1>3. QED
    BY <1>2 DEF Working

\* The first verb of a tag run leaves the column alone, but where it restores.
LEMMA FirstVerbKeepsColumn ==
    ASSUME NEW job, Sound(job, rows), job.kind = "tag", job.step = 1, ~Head(job.plan).round,
           rows[Target(job)] \in Row
    PROVE  Written(rows[Target(job)], StepOf(job)).status = rows[Target(job)].status
<1> DEFINE item == Head(job.plan)
<1>1. AtWork(job)
    BY SoundIsAtWork
<1>2. item.steps[1] = SetTag("tagged")
    BY <1>1, RunForms
<1>3. StepOf(job) = SetTag("tagged")
    BY <1>2 DEF StepOf
<1>4. QED
    BY <1>3, WrittenForms

ServedAs(job, reply, mark, blind) ==
    [job EXCEPT !.phase = "served", !.reply = reply, !.blind = blind, !.mark = mark]

LEMMA ServedTyped ==
    ASSUME NEW job \in Jobs, NEW reply \in {None} \cup Views, NEW mark \in Marks,
           NEW blind \in SUBSET Ideas, job.blind \subseteq blind,
           NEW served, served = ServedAs(job, reply, mark, blind)
    PROVE  /\ served \in Jobs /\ SameWork(job, served) /\ served.phase = "served"
           /\ served.mark = mark /\ served.reply = reply /\ served.blind = blind
           /\ served.kind = job.kind
BY DEF ServedAs, Jobs, Phases, SameWork

LEMMA ServeSound ==
    ASSUME ClientInv, NEW j \in Slots, Serve(j)
    PROVE  ClientInv' /\ StepTells
<1> DEFINE job == jobs[j]
           i == Target(job)
           row == rows[i]
           step == StepOf(job)
           changed == IF rows'[i] # row THEN {i} ELSE {}
           mark == [was |-> row, is |-> rows'[i]]
           Works == /\ row # Gone
                    /\ rows' = [rows EXCEPT ![i] = Written(row, step)]
                    /\ revision' = IF Commits(row, step) THEN revision + 1 ELSE revision
           Hears(reply, blind) == jobs' = Spoils(changed, j, ServedAs(job, reply, mark, blind))
           blinder == IF Head(job.plan).round /\ job.step = 1 THEN job.blind \cup {i} ELSE job.blind
<1>1. /\ job.phase = "posted" /\ Busy(j)
      /\ UNCHANGED <<snapshot, poll, undoing, batch, stack, undoKey, started, restarted>>
      /\ \/ Works /\ faults' = faults /\ Hears([revision |-> revision', rows |-> rows'], job.blind)
         \/ /\ row = Gone \/ Faulty
            /\ row = Gone => faults' = faults
            /\ rows' = rows /\ revision' = revision /\ Hears(None, job.blind)
         \/ Works /\ Faulty /\ Hears(None, blinder)
    BY DEF Serve, Busy, ServedAs
<1>2. /\ rows \in Boards /\ revision \in Nat /\ snapshot \in Views /\ poll \in {None} \cup Views
      /\ started \in 0..MaxEvents /\ faults \in 0..MaxEvents /\ restarted \in BOOLEAN
      /\ Faulty => faults' \in 0..MaxEvents
    BY FaultCounted DEF ClientInv, TabSound
<1>3. Sound(job, rows)
    BY <1>1 DEF ClientInv, JobsSound
<1>4. /\ job \in Jobs /\ i \in Ideas /\ step \in Steps /\ job.blind \in SUBSET Ideas
    BY <1>3, SoundIsAtWork, JobTyped
<1>5. row \in Row \cup {Gone} /\ blinder \in SUBSET Ideas /\ job.blind \subseteq blinder
    BY <1>2, <1>4 DEF Boards
<1>6. i \notin job.spoilt => Reached(job, job.start[i], row)
    BY <1>1, <1>2, <1>3, PostKnows
<1>7. j \in Slots \cup {None}
    OBVIOUS
<1> HIDE DEF job
<1>8. ASSUME Works
      PROVE  /\ row \in Row /\ Written(row, step) \in Row
             /\ rows' \in Boards /\ revision' \in Nat /\ rows'[i] = Written(row, step)
             /\ \A k \in Ideas : k # i => rows'[k] = rows[k]
    <2> HIDE DEF i, row, step
    <2>1. row \in Row /\ Written(row, step) \in Row
        BY <1>4, <1>5, <1>8, StepForms
    <2>2. rows' \in Boards /\ rows'[i] = Written(row, step) /\ \A k \in Ideas : k # i => rows'[k] = rows[k]
        BY <1>2, <1>4, <1>8, <2>1 DEF Boards
    <2>3. revision' \in Nat
        BY <1>2, <1>8
    <2>4. QED
        BY <2>1, <2>2, <2>3
<1>9. ASSUME NEW reply \in {None} \cup Views, NEW blind \in SUBSET Ideas, job.blind \subseteq blind,
             Hears(reply, blind), rows' \in Boards, revision' \in Nat, faults' \in 0..MaxEvents,
             \A k \in Ideas : k # i => rows'[k] = rows[k],
             \A served : SameWork(job, served) /\ served.phase = "served" /\ served.reply = reply
                         /\ served.blind = blind /\ i \notin job.spoilt
                 => Working(served, job.start[i], rows'[i])
      PROVE  ClientInv' /\ StepTells
    <2> DEFINE served == ServedAs(job, reply, mark, blind)
    <2>1. mark \in Marks /\ changed \in SUBSET Ideas /\ \A k \in Ideas \ changed : rows'[k] = rows[k]
        <3> HIDE DEF i, row
        <3>1. rows'[i] \in Row \cup {Gone} /\ row \in Row \cup {Gone}
            BY <1>4, <1>5, <1>9 DEF Boards
        <3>2. mark \in Marks
            BY <3>1 DEF Marks
        <3>3. QED
            BY <1>4, <1>9, <3>2 DEF row
    <2>2. served = ServedAs(job, reply, mark, blind)
        OBVIOUS
    <2>3. jobs' = Spoils(changed, j, served)
        BY <1>9
    <2> HIDE DEF served, mark, changed
    <2>4. /\ served \in Jobs /\ SameWork(job, served) /\ served.phase = "served"
          /\ served.mark = mark /\ served.reply = reply /\ served.blind = blind
          /\ served.kind = job.kind
        BY <1>4, <1>9, <2>1, <2>2, ServedTyped
    <2>5. Target(job) \notin job.spoilt => Working(served, job.start[Target(job)], rows'[Target(job)])
        BY <1>9, <2>4 DEF i
    <2>6. \A k \in Ideas : k # Target(job) => rows'[k] = rows[k]
        BY <1>9 DEF i
    <2>7. Sound(served, rows')
        BY <1>3, <2>1, <2>4, <2>5, <2>6, ServedSound
    <2>8. /\ served \in Jobs /\ served.kind = jobs[j].kind /\ Busy(j)
          /\ served.phase = "served" /\ Sound(served, rows')
        BY <1>1, <2>4, <2>7 DEF job
    <2>9. /\ JobsSound'
          /\ \A k \in Slots : (Busy(k)' <=> Busy(k)) /\ jobs'[k].kind = jobs[k].kind
          /\ \A k \in Slots : ~Finishes(k)
        BY <1>7, <1>9, <2>1, <2>3, <2>8, SpoilsSound
    <2>10. ClientInv'
        <3>1. /\ snapshot' \in Views /\ poll' \in {None} \cup Views
              /\ started' \in 0..MaxEvents /\ restarted' \in BOOLEAN
              /\ UNCHANGED <<undoing, batch, stack, undoKey>>
            BY <1>1, <1>2
        <3>2. QED
            BY <1>9, <2>9, <3>1, TabStays
    <2>11. QED
        BY <2>9, <2>10 DEF StepTells
<1>10. CASE Works /\ faults' = faults /\ Hears([revision |-> revision', rows |-> rows'], job.blind)
    <2> DEFINE reply == [revision |-> revision', rows |-> rows']
    <2>1. reply \in Views /\ reply # None
        <3>1. rows' \in Boards /\ revision' \in Nat
            BY <1>8, <1>10
        <3>2. reply \in Views
            BY <3>1 DEF Views
        <3> HIDE DEF reply
        <3>3. QED
            BY <3>2, NoneAssumption
    <2>2. ASSUME NEW served, SameWork(job, served), served.phase = "served", served.reply = reply,
                 i \notin job.spoilt
          PROVE  Working(served, job.start[i], rows'[i])
        <3> HIDE DEF reply
        <3>1. Reached(served, job.start[i], row) /\ StepOf(served) = step
            BY <1>6, <2>2, SameWorkTells DEF i, row, step
        <3>2. row \in Row /\ rows'[i] = Written(row, StepOf(served))
            BY <1>8, <1>10, <3>1
        <3>3. QED
            BY <2>1, <2>2, <3>1, <3>2 DEF Working
    <2>3. Hears(reply, job.blind)
        BY <1>10
    <2>4. faults' \in 0..MaxEvents
        BY <1>2, <1>10
    <2> HIDE DEF reply, Hears, i, row, step, mark, changed
    <2>5. QED
        BY <1>4, <1>8, <1>9, <1>10, <2>1, <2>2, <2>3, <2>4
<1>11. CASE /\ row = Gone \/ Faulty
            /\ row = Gone => faults' = faults
            /\ rows' = rows /\ revision' = revision /\ Hears(None, job.blind)
    <2>1. ASSUME NEW served, SameWork(job, served), served.phase = "served", served.reply = None,
                 i \notin job.spoilt
          PROVE  Working(served, job.start[i], rows'[i])
        <3>1. Reached(job, job.start[i], row) /\ rows'[i] = row
            BY <1>6, <1>11, <2>1
        <3>2. served.step = job.step
            BY <2>1 DEF SameWork
        <3>3. QED
            BY <2>1, <3>1, <3>2 DEF Working, Reached
    <2>2. faults' \in 0..MaxEvents /\ rows' \in Boards /\ revision' \in Nat
        BY <1>2, <1>11
    <2>3. Hears(None, job.blind) /\ rows' = rows
        BY <1>11
    <2> HIDE DEF Hears, i, row, step, mark, changed
    <2>4. QED
        BY <1>4, <1>9, <2>1, <2>2, <2>3
<1>12. CASE Works /\ Faulty /\ Hears(None, blinder)
    <2>1. ASSUME NEW served, SameWork(job, served), served.phase = "served", served.reply = None,
                 served.blind = blinder, i \notin job.spoilt
          PROVE  Working(served, job.start[i], rows'[i])
        <3>1. Reached(job, job.start[i], row) /\ row \in Row /\ rows'[i] = Written(row, step)
            BY <1>6, <1>8, <1>12, <2>1
        <3>2. /\ served.step = job.step /\ served.kind = job.kind /\ Target(served) = i
            BY <2>1, SameWorkTells DEF SameWork, i
        <3>3. ASSUME job.kind = "tag", job.step = 1, i \notin blinder
              PROVE  rows'[i].status = job.start[i].status
            <4>1. ~Head(job.plan).round
                BY <3>3
            <4>2. Written(row, step).status = row.status
                BY <1>3, <3>1, <3>3, <4>1, FirstVerbKeepsColumn
            <4>3. row = job.start[i]
                BY <3>1, <3>3 DEF Reached
            <4>4. QED
                BY <3>1, <4>2, <4>3
        <3> HIDE DEF blinder, i, row, step
        <3>4. QED
            BY <2>1, <3>2, <3>3 DEF Working
    <2>2. faults' \in 0..MaxEvents
        BY <1>2, <1>12
    <2>3. Hears(None, blinder)
        BY <1>12
    <2> HIDE DEF Hears, i, row, step, mark, changed, blinder
    <2>4. QED
        BY <1>5, <1>8, <1>9, <1>12, <2>1, <2>2, <2>3
<1>13. QED
    BY <1>1, <1>10, <1>11, <1>12


\* A job goes on after an answer or an error.
LEMMA GoingOnSound ==
    ASSUME ClientInv, NEW j \in Slots, Busy(j), NEW next, next \in Jobs, next.kind = jobs[j].kind,
           next.phase \in {"posted", "done"}, next.phase = "posted" => Sound(next, rows),
           next.phase = "done" => next.plan = <<>> /\ ReportsTold(jobs[j], next.report),
           NEW deed \in [Ideas -> Deeds],
           NEW open \in {None} \cup Batches, open # None <=> batch # None,
           NEW entries \in Seq(Entries), Len(entries) <= StackLimit,
           Becomes(j, next, deed, undoing, open, entries),
           snapshot' \in Views, UNCHANGED <<rows, revision, poll, started, faults, restarted>>
    PROVE  ClientInv' /\ StepTells
<1>1. /\ rows \in Boards /\ revision \in Nat /\ poll \in {None} \cup Views
      /\ started \in 0..MaxEvents /\ faults \in 0..MaxEvents /\ restarted \in BOOLEAN
      /\ undoing \in BOOLEAN
      /\ jobs \in [Slots -> Jobs] /\ (batch # None <=> Runs(jobs[Desk].kind) /\ Busy(Desk))
      /\ jobs[Desk].kind # "undo" /\ \A u \in 1..Undos : Busy(u) => jobs[u].kind = "undo"
    BY DEF ClientInv, TabSound, JobsSound
<1>2. rows' = rows
    OBVIOUS
<1>3. /\ JobsSound'
      /\ (batch \in {None} \cup Batches)' /\ (batch # None <=> Runs(jobs[Desk].kind) /\ Busy(Desk))'
      /\ (undoing \in BOOLEAN)' /\ (undoing => \E u \in 1..Undos : Busy(u))'
      /\ (stack \in Seq(Entries))' /\ (Len(stack) <= StackLimit)'
      /\ (undoKey \in Nat \cup {None})'
    <2>1. Desk \in Slots /\ (j # Desk => j \in 1..Undos)
        BY ClientAssumption DEF Desk, Slots
    <2>2. next.kind = "undo" <=> j # Desk
        BY <1>1, <2>1
    <2>3. j = Desk => (open # None <=> Runs(next.kind))
        BY <1>1
    <2>4. j # Desk => (open # None <=> batch # None)
        OBVIOUS
    <2>5. undoing /\ next.kind # "undo" => undoing
        OBVIOUS
    <2>6. next.phase = "done" => next.plan = <<>>
        OBVIOUS
    <2>7. QED
        BY <1>1, <1>2, <2>2, <2>3, <2>4, <2>5, <2>6, BecomesSound
<1>4. TabSound'
    BY <1>1, <1>3 DEF TabSound
<1>5. jobs' = [jobs EXCEPT ![j] = next]
    BY DEF Becomes
<1>6. StepTells
    <2> SUFFICES ASSUME NEW k \in Slots, Finishes(k)
                 PROVE  /\ \A n \in DOMAIN jobs[k].plan : jobs'[k].report[jobs[k].plan[n].id] # "none"
                        /\ \A i \in Ideas \ jobs[k].spoilt :
                              Told(jobs[k], jobs'[k].report[i], i, rows'[i])
        BY DEF StepTells
    <2>1. k = j /\ jobs'[k] = next /\ next.phase = "done"
        BY <1>1, <1>5 DEF Finishes, Busy
    <2>2. ReportsTold(jobs[k], jobs'[k].report)
        BY <2>1
    <2>3. QED
        BY <1>2, <2>2 DEF ReportsTold
<1>7. QED
    BY <1>3, <1>4, <1>6 DEF ClientInv

\* The item kept, and the batch it is kept in.
LEMMA ItemKeptTyped ==
    ASSUME NEW job \in Jobs, Target(job) \in Ideas, job.reply # None, Keeps(job),
           NEW item, item = ItemKept(job)
    PROVE  item \in Items
<1> DEFINE inverse == job.inverse
           i == Target(job)
           after == job.reply.rows[i]
<1>1. job.reply \in Views /\ inverse \in Inverses /\ job.kind \in Kinds
    BY JobTyped DEF Keeps
<1>2. inverse \in PlanItems /\ inverse.steps # <<>>
    BY <1>1 DEF Inverses
<1>3. inverse.steps \in Seq(Steps) \ {<<>>} /\ inverse.round \in BOOLEAN
    BY <1>2 DEF PlanItems
<1>4. after \in Row
    BY <1>1 DEF Keeps, Views, Boards
<1>5. item = [id |-> i, steps |-> inverse.steps, round |-> inverse.round,
              expect |-> Expectation(inverse.steps, after), by |-> job.kind]
    BY DEF ItemKept
<1> HIDE DEF inverse, i, after
<1>6. Expectation(inverse.steps, after) \in Expectations
    BY <1>3, <1>4, ExpectationTyped
<1>7. i \in Ideas
    BY DEF i
<1>8. QED
    BY <1>1, <1>3, <1>5, <1>6, <1>7 DEF Items

\* The batch with what a verb has left in it.
OpenWith(job, item) ==
    IF Keeps(job) /\ batch # None THEN [batch EXCEPT !.items = Append(@, item)] ELSE batch

LEMMA OpenForms ==
    ASSUME batch \in {None} \cup Batches, NEW job, NEW item, Keeps(job) => item \in Items,
           NEW open, open = OpenWith(job, item)
    PROVE  /\ open \in {None} \cup Batches /\ (open # None <=> batch # None)
           /\ batch # None => /\ batch.items \in Seq(Items)
                              /\ Keeps(job) => open.items = Append(batch.items, item)
                              /\ ~Keeps(job) => open.items = batch.items
<1>1. CASE Keeps(job) /\ batch # None
    <2>1. batch \in Batches /\ batch.key \in Nat /\ batch.items \in Seq(Items)
        BY <1>1 DEF Batches
    <2>2. Append(batch.items, item) \in Seq(Items)
        BY <1>1, <2>1
    <2>3. open = [batch EXCEPT !.items = Append(batch.items, item)]
        BY <1>1 DEF OpenWith
    <2>4. open \in Batches /\ open.items = Append(batch.items, item)
        BY <2>1, <2>2, <2>3 DEF Batches
    <2>5. QED
        BY <1>1, <2>1, <2>4, NoneAssumption
<1>2. CASE ~(Keeps(job) /\ batch # None)
    BY <1>2 DEF OpenWith, Batches
<1>3. QED
    BY <1>1, <1>2

LEMMA AnsweredSound ==
    ASSUME ClientInv, NEW j \in Slots, Answered(j)
    PROVE  ClientInv' /\ StepTells
<1> DEFINE job == jobs[j]
           done == Done(job)
           keeps == Keeps(job)
           item == ItemKept(job)
           open == IF keeps /\ batch # None THEN [batch EXCEPT !.items = Append(@, item)] ELSE batch
           entry == [key |-> None, by |-> done.kind, items |-> <<item>>,
                     deed |-> [k \in Ideas |-> IF k = item.id THEN Known(done)[k] ELSE None]]
           entries == IF keeps /\ batch = None THEN Pushed(stack, entry) ELSE stack
           next == AfterAnswer(job)
<1>1. /\ job.phase = "served" /\ job.reply # None
      /\ snapshot' = Adopted(done.reply)
      /\ Becomes(j, Continues([done EXCEPT !.reply = None, !.mark = None], Adopted(done.reply), undoing),
                 Known(done), undoing, open, entries)
      /\ UNCHANGED <<rows, revision, poll, started, faults, restarted>>
    BY DEF Answered
<1>2. /\ rows \in Boards /\ revision \in Nat /\ snapshot \in Views /\ poll \in {None} \cup Views
      /\ started \in 0..MaxEvents /\ faults \in 0..MaxEvents
      /\ undoing \in BOOLEAN /\ batch \in {None} \cup Batches
      /\ stack \in Seq(Entries) /\ Len(stack) <= StackLimit /\ jobs \in [Slots -> Jobs]
      /\ (batch # None <=> Runs(jobs[Desk].kind) /\ Busy(Desk))
      /\ jobs[Desk].kind # "undo" /\ \A u \in 1..Undos : Busy(u) => jobs[u].kind = "undo"
    BY DEF ClientInv, TabSound, JobsSound
<1>3. Busy(j) /\ Sound(job, rows)
    BY <1>1 DEF ClientInv, JobsSound, Busy
<1>4. /\ done \in Jobs /\ SameWork(job, done)
      /\ Known(done) \in [Ideas -> Deeds] /\ done.reply = job.reply /\ done.kind = job.kind
    BY <1>1, <1>3, DoneTyped
<1>5. Follows(job, next) /\ Adopted(job.reply) \in Views
    BY <1>1, <1>2, <1>3, AnsweredFollows
<1>6. snapshot' \in Views /\ Becomes(j, next, Known(done), undoing, open, entries)
    BY <1>1, <1>4, <1>5 DEF AfterAnswer
<1>7. Target(job) \in Ideas
    BY <1>3, SoundIsAtWork
<1> HIDE DEF next, done
<1>8. ASSUME keeps PROVE item \in Items
    <2>1. job \in Jobs
        BY <1>2
    <2>2. item = ItemKept(job)
        OBVIOUS
    <2> HIDE DEF item, job
    <2>3. QED
        BY <1>1, <1>7, <1>8, <2>1, <2>2, ItemKeptTyped
<1>9. open = OpenWith(job, item)
    BY DEF OpenWith
<1> HIDE DEF item, open
<1>10. open \in {None} \cup Batches /\ (open # None <=> batch # None)
    BY <1>2, <1>8, <1>9, OpenForms
<1>11. entries \in Seq(Entries) /\ Len(entries) <= StackLimit
    <2>1. CASE keeps /\ batch = None
        <3>1. <<item>> \in Seq(Items)
            BY <1>8, <2>1
        <3>2. [k \in Ideas |-> IF k = item.id THEN Known(done)[k] ELSE None] \in [Ideas -> Deeds]
            <4> DEFINE known == Known(done)
            <4>1. known \in [Ideas -> Deeds]
                BY <1>4
            <4> HIDE DEF known
            <4>2. [k \in Ideas |-> IF k = item.id THEN known[k] ELSE None] \in [Ideas -> Deeds]
                BY <4>1 DEF Deeds
            <4>3. QED
                BY <4>2 DEF known
        <3>3. done.kind \in Kinds
            BY <1>4, JobTyped
        <3>4. entry \in Entries
            BY <3>1, <3>2, <3>3 DEF Entries
        <3> HIDE DEF entry
        <3>5. QED
            BY <1>2, <2>1, <3>4, PushedTyped
    <2>2. CASE ~(keeps /\ batch = None)
        BY <1>2, <2>2
    <2>3. QED
        BY <2>1, <2>2
<1> HIDE DEF open, entries, keeps
<1>12. /\ next \in Jobs /\ next.kind = jobs[j].kind /\ next.phase \in {"posted", "done"}
       /\ next.phase = "posted" => Sound(next, rows)
       /\ next.phase = "done" => next.plan = <<>> /\ ReportsTold(jobs[j], next.report)
    BY <1>5 DEF Follows, job
<1> HIDE DEF job
<1>13. QED
    BY <1>1, <1>2, <1>3, <1>4, <1>6, <1>10, <1>11, <1>12, GoingOnSound

LEMMA RefusedSound ==
    ASSUME ClientInv, NEW j \in Slots, Refused(j)
    PROVE  ClientInv' /\ StepTells
<1> DEFINE job == jobs[j]
           next == AfterRefusal(job)
<1>1. /\ job.phase = "served" /\ job.reply = None
      /\ Becomes(j, next, Known(job), undoing, batch, stack)
      /\ UNCHANGED <<rows, revision, snapshot, poll, started, faults, restarted>>
    BY DEF Refused, AfterRefusal
<1>2. /\ snapshot \in Views /\ batch \in {None} \cup Batches
      /\ stack \in Seq(Entries) /\ Len(stack) <= StackLimit
    BY DEF ClientInv, TabSound
<1>3. Busy(j) /\ Sound(job, rows)
    BY <1>1 DEF ClientInv, JobsSound, Busy
<1>4. Known(job) \in [Ideas -> Deeds]
    BY <1>1, <1>3, DoneTyped
<1>5. Follows(job, next)
    BY <1>1, <1>2, <1>3, RefusedFollows
<1> HIDE DEF next
<1>6. /\ next \in Jobs /\ next.kind = jobs[j].kind /\ next.phase \in {"posted", "done"}
      /\ next.phase = "posted" => Sound(next, rows)
      /\ next.phase = "done" => next.plan = <<>> /\ ReportsTold(jobs[j], next.report)
    BY <1>5 DEF Follows, job
<1> HIDE DEF job
<1>7. QED
    BY <1>1, <1>2, <1>3, <1>4, <1>6, GoingOnSound

\* A tab that only reads, and a stack whose oldest entry has expired.
LEMMA ReadingSound ==
    ASSUME ClientInv, Expire \/ Poll \/ PollAnswered
    PROVE  ClientInv' /\ StepTells
<1>1. /\ rows \in Boards /\ revision \in Nat /\ snapshot \in Views /\ poll \in {None} \cup Views
      /\ stack \in Seq(Entries) /\ Len(stack) <= StackLimit /\ JobsSound /\ TabSound
    BY DEF ClientInv, TabSound
<1>2. UNCHANGED <<rows, revision, jobs, undoing, batch, undoKey, started, restarted>>
    BY DEF Expire, Poll, PollAnswered
<1>3. JobsSound'
    BY <1>1, <1>2 DEF JobsSound, Busy
<1>4. \A k \in Slots : ~Finishes(k)
    BY <1>2 DEF Finishes, Busy
<1>5. faults' \in 0..MaxEvents
    BY <1>2, FaultCounted DEF Expire, Poll, PollAnswered
<1>6. snapshot' \in Views /\ poll' \in {None} \cup Views
    BY <1>1 DEF Expire, Poll, PollAnswered, Adopted, View, Views
<1>7. stack' \in Seq(Entries) /\ Len(stack') <= StackLimit
    <2>1. stack' = stack \/ (stack # <<>> /\ stack' = Tail(stack))
        BY DEF Expire, Poll, PollAnswered
    <2>2. QED
        BY <1>1, <2>1, ClientAssumption
<1>8. TabSound'
    BY <1>1, <1>2, <1>5, <1>6, <1>7 DEF TabSound, Busy
<1>9. QED
    BY <1>3, <1>4, <1>8 DEF ClientInv, StepTells

\* Somebody else writes, or the document is set aside.
LEMMA OthersSound ==
    ASSUME ClientInv, NEW changed \in SUBSET Ideas, Faulty, rows' \in Boards, revision' \in Nat,
           \A i \in Ideas \ changed : rows'[i] = rows[i],
           jobs' = Spoils(changed, None, None), restarted' \in BOOLEAN,
           UNCHANGED <<snapshot, poll, undoing, batch, stack, undoKey, started>>
    PROVE  ClientInv' /\ StepTells
<1>1. None \in Slots \cup {None} /\ None \notin Slots
    BY NoneAssumption
<1>2. /\ JobsSound'
      /\ \A k \in Slots : (Busy(k)' <=> Busy(k)) /\ jobs'[k].kind = jobs[k].kind
      /\ \A k \in Slots : ~Finishes(k)
    BY <1>1, SpoilsSound
<1>3. /\ snapshot' \in Views /\ poll' \in {None} \cup Views
      /\ started' \in 0..MaxEvents /\ faults' \in 0..MaxEvents
    <2>1. snapshot \in Views /\ poll \in {None} \cup Views
        BY DEF ClientInv, TabSound
    <2>2. QED
        BY <2>1, FaultCounted
<1>4. ClientInv'
    <2>1. UNCHANGED <<undoing, batch, stack, undoKey>>
        OBVIOUS
    <2>2. QED
        BY <1>2, <1>3, <2>1, TabStays
<1>5. QED
    BY <1>2, <1>4 DEF StepTells

LEMMA OtherSound ==
    ASSUME ClientInv, NEW i \in Ideas, NEW row \in Row \cup {Gone}, Other(i, row)
    PROVE  ClientInv' /\ StepTells
<1>1. rows \in Boards /\ revision \in Nat /\ restarted \in BOOLEAN
    BY DEF ClientInv, TabSound
<1>2. /\ Faulty /\ rows' = [rows EXCEPT ![i] = row] /\ revision' = revision + 1
      /\ jobs' = Spoils({i}, None, None)
      /\ UNCHANGED <<snapshot, poll, undoing, batch, stack, undoKey, started, restarted>>
    BY DEF Other
<1>3. /\ rows' \in Boards /\ revision' \in Nat /\ {i} \in SUBSET Ideas
      /\ \A k \in Ideas \ {i} : rows'[k] = rows[k]
    BY <1>1, <1>2 DEF Boards
<1>4. QED
    BY <1>1, <1>2, <1>3, OthersSound

LEMMA QuarantineSound ==
    ASSUME ClientInv, Quarantine
    PROVE  ClientInv' /\ StepTells
<1>1. /\ Faulty /\ rows' = [i \in Ideas |-> Gone] /\ revision' = 0
      /\ jobs' = Spoils(Ideas, None, None) /\ restarted' = TRUE
      /\ UNCHANGED <<snapshot, poll, undoing, batch, stack, undoKey, started>>
    BY DEF Quarantine
<1>2. /\ rows' \in Boards /\ revision' \in Nat /\ Ideas \in SUBSET Ideas
      /\ \A k \in Ideas \ Ideas : rows'[k] = rows[k]
    BY <1>1 DEF Boards
<1>3. QED
    BY <1>1, <1>2, OthersSound

\* The invariant holds, and every step of it tells the truth.
LEMMA InitSound == Init => ClientInv
<1> SUFFICES ASSUME Init PROVE ClientInv
    OBVIOUS
<1>1. /\ rows \in FirstBoards /\ revision = 1 /\ snapshot = View /\ poll = None
      /\ jobs = [j \in Slots |-> Idle] /\ undoing = FALSE /\ batch = None
      /\ stack = <<>> /\ undoKey = None /\ started = 0 /\ faults = 0
      /\ restarted = FALSE
    BY DEF Init
<1>2. rows \in Boards
    <2>1. rows \in [Ideas -> [status : {"open", "underReview", "archived"}, tag : {"bare", "tagged"}]]
        BY <1>1, ClientAssumption
    <2>2. [status : {"open", "underReview", "archived"}, tag : {"bare", "tagged"}] \subseteq Row
        BY DEF Row, Columns, Tags
    <2>3. QED
        BY <2>1, <2>2 DEF Boards
<1>3. snapshot \in Views /\ revision \in Nat
    BY <1>1, <1>2 DEF Views, View
<1>4. Desk \in Slots /\ \A u \in 1..Undos : u \in Slots
    BY ClientAssumption DEF Desk, Slots
<1>5. \A j \in Slots : jobs[j] = Idle /\ jobs[j].kind = "none" /\ ~Busy(j)
    BY <1>1 DEF Busy, Idle
<1>6. jobs \in [Slots -> Jobs]
    <2> DEFINE idle == Idle
    <2>1. idle \in Jobs
        BY IdleTyped
    <2>2. jobs = [j \in Slots |-> idle]
        BY <1>1
    <2> HIDE DEF idle
    <2>3. QED
        BY <2>1, <2>2
<1>7. JobsSound
    <2>1. \A j \in Slots : jobs[j].plan = <<>>
        BY <1>5, IdleTyped
    <2>2. QED
        BY <1>4, <1>5, <1>6, <2>1 DEF JobsSound
<1>8. <<>> \in Seq(Entries) /\ Len(<<>>) <= StackLimit /\ 0 \in 0..MaxEvents
    BY ClientAssumption
<1>9. ~(batch # None) /\ ~Runs(jobs[Desk].kind)
    BY <1>1, <1>4, <1>5 DEF Runs
<1>10. TabSound
    BY <1>1, <1>2, <1>3, <1>8, <1>9 DEF TabSound
<1>11. QED
    BY <1>7, <1>10 DEF ClientInv

LEMMA StepSound == ClientInv /\ [Next]_vars => ClientInv' /\ (Next => StepTells)
<1> SUFFICES ASSUME ClientInv, [Next]_vars PROVE ClientInv' /\ (Next => StepTells)
    OBVIOUS
<1>1. ASSUME NEW i \in Ideas, NEW step \in Steps, Edit(i, step) PROVE ClientInv' /\ StepTells
    BY <1>1, EditSound
<1>2. ASSUME NEW kind \in {"tag", "archive"}, NEW chosen \in SUBSET Ideas, Bulk(kind, chosen)
      PROVE  ClientInv' /\ StepTells
    BY <1>2, BulkSound
<1>3. ASSUME RestoreArchived PROVE ClientInv' /\ StepTells
    BY <1>3, RestoreArchivedSound
<1>4. ASSUME NEW u \in 1..Undos, Undo(u) PROVE ClientInv' /\ StepTells
    BY <1>4, UndoSound
<1>5. ASSUME NEW j \in Slots, JobStep(j) PROVE ClientInv' /\ StepTells
    BY <1>5, ServeSound, AnsweredSound, RefusedSound DEF JobStep
<1>6. ASSUME Expire \/ Poll \/ PollAnswered PROVE ClientInv' /\ StepTells
    BY <1>6, ReadingSound
<1>7. ASSUME Quarantine PROVE ClientInv' /\ StepTells
    BY <1>7, QuarantineSound
<1>8. ASSUME NEW i \in Ideas, NEW row \in Row \cup {Gone}, Other(i, row) PROVE ClientInv' /\ StepTells
    BY <1>8, OtherSound
<1>9. CASE Next
    BY <1>1, <1>2, <1>3, <1>4, <1>5, <1>6, <1>7, <1>8, <1>9 DEF Next
<1>10. CASE ~Next
    <2>1. UNCHANGED vars
        BY <1>10
    <2>2. QED
        BY <1>10, <2>1 DEF vars, ClientInv, TabSound, JobsSound, Busy
<1>11. QED
    BY <1>9, <1>10

LEMMA ClientInvariant == Spec => []ClientInv
BY InitSound, StepSound, PTL DEF Spec


----------------------------------------------------------------------------
\* The types of the tab and of its jobs, and what goes together: a busy job has
\* a plan, an undo that is noted runs (undoInFlight), a batch is open only while
\* its run is, and the stack keeps to its limit (pushUndoEntry).
THEOREM ClientTypeCorrect == Spec => []TypeOK
<1>1. ClientInv => TypeOK
    <2> SUFFICES ASSUME ClientInv PROVE TypeOK
        OBVIOUS
    <2>1. /\ TabSound /\ jobs \in [Slots -> Jobs]
          /\ \A j \in Slots : IF Busy(j) THEN Sound(jobs[j], rows) ELSE jobs[j].plan = <<>>
        BY DEF ClientInv, JobsSound
    <2>2. ASSUME NEW j \in Slots
          PROVE  /\ jobs[j].phase \in {"idle", "posted", "served", "done"}
                 /\ jobs[j].kind \in Kinds
                 /\ Busy(j) <=> jobs[j].plan # <<>>
                 /\ Busy(j) => jobs[j].step \in 0..Len(Head(jobs[j].plan).steps)
                 /\ jobs[j].report \in [Ideas -> Results]
        <3>1. jobs[j] \in Jobs
            BY <2>1
        <3>2. Busy(j) => jobs[j].plan # <<>> /\ jobs[j].step \in 0..Len(Head(jobs[j].plan).steps)
            BY <2>1 DEF Sound
        <3>3. ~Busy(j) => jobs[j].plan = <<>>
            BY <2>1
        <3>4. QED
            BY <3>1, <3>2, <3>3, JobTyped DEF Phases
    <2>3. /\ snapshot.rows \in Boards /\ snapshot.revision \in Nat
          /\ poll # None => poll.rows \in Boards /\ poll.revision \in Nat
        BY <2>1 DEF TabSound, Views
    <2>4. batch # None <=> jobs[Desk].kind \in {"tag", "archive"} /\ Busy(Desk)
        BY <2>1 DEF TabSound, Runs
    <2>5. QED
        BY <2>1, <2>2, <2>3, <2>4 DEF TypeOK, TabSound
<1>2. QED
    BY <1>1, ClientInvariant, PTL

\* A job reports on each of its ideas, and says what became of it (runPlanItem,
\* runBulkPlan), whatever is lost, late or written by others: but for an idea
\* that is written by another, or not as shown, while the job runs.
THEOREM ReportsTell == Spec => ReportTells
<1>1. ClientInv /\ [Next]_vars => [\A j \in Slots : Finishes(j) =>
          /\ \A n \in DOMAIN jobs[j].plan : jobs'[j].report[jobs[j].plan[n].id] # "none"
          /\ \A i \in Ideas \ jobs[j].spoilt :
                Tells(jobs[j], jobs'[j].report[i], i, rows'[i])]_vars
    <2>1. ClientInv /\ [Next]_vars => UNCHANGED vars \/ StepTells
        BY StepSound
    <2>2. StepTells => \A j \in Slots : Finishes(j) =>
             /\ \A n \in DOMAIN jobs[j].plan : jobs'[j].report[jobs[j].plan[n].id] # "none"
             /\ \A i \in Ideas \ jobs[j].spoilt :
                   Tells(jobs[j], jobs'[j].report[i], i, rows'[i])
        BY DEF StepTells, Told
    <2>3. QED
        BY <2>1, <2>2
<1>2. QED
    BY <1>1, ClientInvariant, PTL DEF Spec, ReportTells

\* A tag run does not leave an archived idea open without a word: a round trip
\* that fails puts it back, or says "leftOpen" (runPlanItem).
THEOREM RunsLeaveNothingOpen == Spec => NothingElseLeftOpen
<1>1. ClientInv /\ ClientInv' /\ StepTells =>
        \A i \in Ideas : Finishes(Desk) /\ i \notin jobs[Desk].spoilt \cup jobs[Desk].blind
          => ~OpenByAccident(i)
    <2> SUFFICES ASSUME ClientInv, ClientInv', StepTells, NEW i \in Ideas, Finishes(Desk),
                        i \notin jobs[Desk].spoilt \cup jobs[Desk].blind, OpenByAccident(i)
                 PROVE  FALSE
        OBVIOUS
    <2> DEFINE job == jobs[Desk]
               result == jobs'[Desk].report[i]
               start == job.start[i]
    <2>1. Desk \in Slots
        BY AtTheDesk
    <2>2. Told(job, result, i, rows'[i])
        BY <2>1 DEF StepTells
    <2>3. result \in Results
        <3>1. jobs'[Desk] \in Jobs
            BY <2>1 DEF ClientInv, JobsSound
        <3>2. QED
            BY <3>1, JobTyped
    <2>4. /\ job.kind = "tag" /\ start.status = "archived" /\ rows'[i].status = "open"
          /\ result # "leftOpen"
        BY DEF OpenByAccident
    <2>5. start \in Row
        <3>1. Sound(job, rows)
            BY <2>1 DEF Finishes, ClientInv, JobsSound
        <3>2. start \in Row \cup {Gone}
            BY <3>1 DEF Sound, Planful, Boards
        <3>3. QED
            BY <2>4, <3>2 DEF Gone
    <2>6. [start EXCEPT !.tag = "tagged"].status = start.status
        BY <2>5 DEF Row
    <2> HIDE DEF result, start
    <2>7. CASE result \in {"none", "skipped"}
        BY <2>2, <2>4, <2>7 DEF Told, Tells, start
    <2>8. CASE result = "applied"
        BY <2>2, <2>4, <2>6, <2>8 DEF Told, Tells, start
    <2>9. CASE result = "failed"
        BY <2>2, <2>4, <2>9 DEF Told, start
    <2>10. CASE result = "rearchived"
        BY <2>2, <2>4, <2>10 DEF Told, Tells
    <2>11. QED
        BY <2>3, <2>4, <2>7, <2>8, <2>9, <2>10 DEF Results
<1>2. ClientInv /\ [Next]_vars => [\A i \in Ideas :
         Finishes(Desk) /\ i \notin jobs[Desk].spoilt \cup jobs[Desk].blind => ~OpenByAccident(i)]_vars
    BY <1>1, StepSound
<1>3. QED
    BY <1>2, ClientInvariant, PTL DEF Spec, NothingElseLeftOpen

----------------------------------------------------------------------------
(* What the steps of a plan make of a row.                                 *)

\* From the k-th on, the steps take the row to the goal.
Leads(steps, k, row, goal) ==
    \E path : /\ path[k - 1] = row /\ path[Len(steps)] = goal
              /\ \A n \in k..Len(steps) : path[n] = Written(path[n - 1], steps[n])

\* No steps lead from a row to itself, and one to what it writes.
LEMMA LeadsNowhere ==
    ASSUME NEW row
    PROVE  Leads(<<>>, 1, row, row)
<1> DEFINE path == [n \in {0} |-> row]
<1>1. path[1 - 1] = row /\ path[Len(<<>>)] = row /\ 1..Len(<<>>) = {}
    OBVIOUS
<1> HIDE DEF path
<1>2. QED
    BY <1>1 DEF Leads

\* What follows of a way that leads to a goal: the rest of it, and its end.
LEMMA LeadsOn ==
    ASSUME NEW steps \in Seq(Steps), NEW k \in 1..Len(steps), NEW row, NEW goal,
           Leads(steps, k, row, goal)
    PROVE  Leads(steps, k + 1, Written(row, steps[k]), goal)
<1>1. PICK path : /\ path[k - 1] = row /\ path[Len(steps)] = goal
                  /\ \A n \in k..Len(steps) : path[n] = Written(path[n - 1], steps[n])
    BY DEF Leads
<1>2. k \in k..Len(steps) /\ k + 1 - 1 = k /\ (k + 1)..Len(steps) \subseteq k..Len(steps)
    OBVIOUS
<1>3. path[k + 1 - 1] = Written(row, steps[k])
    BY <1>1, <1>2
<1>4. QED
    BY <1>1, <1>2, <1>3 DEF Leads

LEMMA LeadsThere ==
    ASSUME NEW steps \in Seq(Steps), NEW row, NEW goal, Leads(steps, Len(steps) + 1, row, goal)
    PROVE  row = goal
<1>1. Len(steps) + 1 - 1 = Len(steps)
    OBVIOUS
<1>2. QED
    BY <1>1 DEF Leads

LEMMA LeadsByOne ==
    ASSUME NEW row, NEW step
    PROVE  Leads(<<step>>, 1, row, Written(row, step))
<1> DEFINE path == [n \in 0..1 |-> IF n = 0 THEN row ELSE Written(row, step)]
<1>1. /\ path[1 - 1] = row /\ path[Len(<<step>>)] = Written(row, step)
      /\ \A n \in 1..Len(<<step>>) : path[n] = Written(path[n - 1], <<step>>[n])
    OBVIOUS
<1> HIDE DEF path
<1>2. QED
    BY <1>1 DEF Leads

\* One list of steps after another.
LEMMA LeadsAfter ==
    ASSUME NEW s \in Seq(Steps), NEW t \in Seq(Steps), NEW from, NEW via, NEW goal,
           Leads(s, 1, from, via), Leads(t, 1, via, goal)
    PROVE  Leads(s \o t, 1, from, goal)
<1>1. PICK p : /\ p[1 - 1] = from /\ p[Len(s)] = via
               /\ \A n \in 1..Len(s) : p[n] = Written(p[n - 1], s[n])
    BY DEF Leads
<1>2. PICK q : /\ q[1 - 1] = via /\ q[Len(t)] = goal
               /\ \A n \in 1..Len(t) : q[n] = Written(q[n - 1], t[n])
    BY DEF Leads
<1> DEFINE all == 0..(Len(s) + Len(t))
           path == [n \in all |-> IF n <= Len(s) THEN p[n] ELSE q[n - Len(s)]]
<1>3. /\ Len(s) \in Nat /\ Len(t) \in Nat /\ Len(s \o t) = Len(s) + Len(t)
      /\ \A n \in 1..Len(s) : (s \o t)[n] = s[n]
      /\ \A n \in 1..Len(t) : (s \o t)[Len(s) + n] = t[n]
    OBVIOUS
<1>4. path[1 - 1] = from
    BY <1>1, <1>3
<1>5. path[Len(s \o t)] = goal
    <2>1. CASE Len(t) = 0
        <3>1. Len(s \o t) = Len(s) /\ Len(s) \in all /\ q[0] = goal /\ via = goal
            BY <1>2, <1>3, <2>1
        <3>2. QED
            BY <1>1, <1>3, <3>1
    <2>2. CASE Len(t) # 0
        <3>1. /\ Len(s) + Len(t) \in all /\ ~(Len(s) + Len(t) <= Len(s))
              /\ Len(s) + Len(t) - Len(s) = Len(t)
            BY <1>3, <2>2
        <3>2. QED
            BY <1>2, <1>3, <3>1
    <2>3. QED
        BY <2>1, <2>2
<1>6. ASSUME NEW n \in 1..Len(s \o t) PROVE path[n] = Written(path[n - 1], (s \o t)[n])
    <2>1. n \in all /\ n - 1 \in all
        BY <1>3
    <2>2. CASE n <= Len(s)
        <3>1. n \in 1..Len(s) /\ n - 1 <= Len(s)
            BY <2>2
        <3>2. path[n] = p[n] /\ path[n - 1] = p[n - 1]
            BY <2>1, <2>2, <3>1
        <3>3. QED
            BY <1>1, <1>3, <3>1, <3>2
    <2>3. CASE n = Len(s) + 1
        <3>1. ~(n <= Len(s)) /\ n - 1 = Len(s) /\ n - Len(s) = 1 /\ 1 \in 1..Len(t)
            BY <1>3, <2>3
        <3>2. path[n] = q[1] /\ path[n - 1] = via
            BY <1>1, <2>1, <3>1
        <3>3. q[1] = Written(via, t[1]) /\ (s \o t)[n] = t[1]
            BY <1>2, <1>3, <2>3, <3>1
        <3>4. QED
            BY <3>2, <3>3
    <2>4. CASE n > Len(s) + 1
        <3> DEFINE m == n - Len(s)
        <3>1. /\ ~(n <= Len(s)) /\ ~(n - 1 <= Len(s)) /\ m \in 1..Len(t)
              /\ n - 1 - Len(s) = m - 1 /\ n = Len(s) + m
            BY <1>3, <2>4
        <3>2. path[n] = q[m] /\ path[n - 1] = q[m - 1]
            BY <2>1, <3>1
        <3>3. q[m] = Written(q[m - 1], t[m])
            BY <1>2, <3>1
        <3>4. (s \o t)[n] = t[m]
            <4> HIDE DEF m
            <4>1. QED
                BY <1>3, <3>1
        <3>5. QED
            BY <3>2, <3>3, <3>4
    <2>5. QED
        BY <1>3, <2>2, <2>3, <2>4
<1> HIDE DEF path
<1>7. QED
    BY <1>4, <1>5, <1>6 DEF Leads

\* The lists of a list, one after another.
LEMMA FlatLeads ==
    ASSUME NEW lists \in Seq(Seq(Steps)), Len(lists) # 0, NEW way,
           \A n \in 1..Len(lists) : Leads(lists[n], 1, way[n - 1], way[n])
    PROVE  Leads(FlattenSeq(lists), 1, way[0], way[Len(lists)])
<1>1. PICK flat : /\ DOMAIN flat = 1..Len(lists)
                  /\ \A n \in 1..Len(lists) :
                        flat[n] = IF n = 1 THEN lists[1] ELSE flat[n - 1] \o lists[n]
                  /\ FlattenSeq(lists) = flat[Len(lists)]
    BY FlatDefined
<1>2. Len(lists) \in Nat /\ \A n \in 1..Len(lists) : lists[n] \in Seq(Steps)
    OBVIOUS
<1> DEFINE led == {n \in Nat : n \in 1..Len(lists) =>
                       flat[n] \in Seq(Steps) /\ Leads(flat[n], 1, way[0], way[n])}
<1>3. 0 \in led
    OBVIOUS
<1>4. ASSUME NEW n \in led, n + 1 \in 1..Len(lists)
      PROVE  flat[n + 1] \in Seq(Steps) /\ Leads(flat[n + 1], 1, way[0], way[n + 1])
    <2>1. n \in Nat
        OBVIOUS
    <2>2. PICK m : m = n + 1
        OBVIOUS
    <2>3. m \in 1..Len(lists) /\ m - 1 = n
        BY <1>4, <2>1, <2>2
    <2>4. lists[m] \in Seq(Steps) /\ Leads(lists[m], 1, way[n], way[m])
        BY <1>2, <2>3
    <2>5. CASE n = 0
        <3> HIDE DEF led
        <3>1. m = 1 /\ 1 \in 1..Len(lists)
            BY <2>2, <2>3, <2>5
        <3>2. m = 1 /\ flat[m] = lists[m]
            BY <1>1, <3>1
        <3>3. QED
            BY <2>2, <2>4, <2>5, <3>2
    <2>6. CASE n # 0
        <3>1. n \in 1..Len(lists) /\ m # 1
            BY <1>2, <2>1, <2>2, <2>3, <2>6
        <3>2. flat[n] \in Seq(Steps) /\ Leads(flat[n], 1, way[0], way[n])
            BY <3>1
        <3>3. flat[m] = flat[n] \o lists[m]
            BY <1>1, <2>3, <3>1
        <3>4. flat[n] \o lists[m] \in Seq(Steps)
            BY <2>4, <3>2
        <3>5. Leads(flat[n] \o lists[m], 1, way[0], way[m])
            BY <2>4, <3>2, LeadsAfter
        <3>6. QED
            BY <2>2, <3>3, <3>4, <3>5
    <2>7. QED
        BY <2>5, <2>6
<1>5. led = Nat
    <2>1. led \in SUBSET Nat
        OBVIOUS
    <2>2. \A n \in led : n + 1 \in led
        <3> SUFFICES ASSUME NEW n \in led PROVE n + 1 \in led
            OBVIOUS
        <3>1. n + 1 \in Nat
            OBVIOUS
        <3>2. QED
            BY <1>4, <3>1
    <2> HIDE DEF led
    <2>3. QED
        BY <1>3, <2>1, <2>2, Counting
<1>6. Len(lists) \in led /\ Len(lists) \in 1..Len(lists)
    <2> HIDE DEF led
    <2>1. QED
        BY <1>2, <1>5
<1>7. QED
    BY <1>1, <1>6

----------------------------------------------------------------------------
(* What an entry holds of an action.                                       *)

\* Of each field, the last item that has it expects what the row shows.
Leaves(items, row) ==
    \A n \in DOMAIN items : \A f \in DOMAIN items[n].expect :
        (\A m \in (n + 1)..Len(items) : f \notin DOMAIN items[m].expect)
            => items[n].expect[f] = row[f]

\* An item of one step that expects something of the field it writes.
Simple(item) ==
    /\ ~item.round /\ item.steps = <<Head(item.steps)>>
    /\ DOMAIN item.expect = {Field(Head(item.steps))}

\* Inverses of one step each: the tag, and first of the moves the column, that
\* were before the action.
Plain(items, deed) ==
    /\ items # <<>>
    /\ \A n \in DOMAIN items :
          /\ Simple(items[n])
          /\ ~Moves(items[n]) => Head(items[n].steps) = SetTag(deed.was.tag)
          /\ Moves(items[n]) /\ (\A m \in 1..(n - 1) : ~Moves(items[m]))
                => Head(items[n].steps) = MoveTo(deed.was.status)
    /\ deed.wrote = Guarded(items)
    /\ deed.wrote = Fields => deed.was.status = "archived"

\* The inverse of an update of an idea of the archive that has a card.
Trip(tag) == <<Restore, SetTag(tag), MoveTo("archived")>>

\* The inverse of an update of an idea of the archive: one round trip.
Tripping(items, deed) ==
    /\ Len(items) = 1 /\ items[1].round /\ items[1].steps = Trip(deed.was.tag)
    /\ DOMAIN items[1].expect = Fields
    /\ deed.wrote = {"tag"} /\ deed.is.status = "archived"

\* The items are the inverse of the deed: undone together, they put it back.
Matches(items, deed) ==
    /\ deed.was \in Row /\ deed.is \in Row
    /\ Leaves(items, deed.is)
    /\ Plain(items, deed) \/ Tripping(items, deed)

\* The row with what the action wrote as it was before.
PutBack(row, deed) == [f \in DOMAIN row |-> IF f \in deed.wrote THEN deed.was[f] ELSE row[f]]

\* What is expected of the fields is what the action left in them.
LEMMA MergedIsLeft ==
    ASSUME NEW items \in Seq(Items), NEW row, Leaves(items, row)
    PROVE  /\ DOMAIN MergedExpectation(items) = Guarded(items)
           /\ \A f \in Guarded(items) : MergedExpectation(items)[f] = row[f]
<1>1. ASSUME NEW f \in Guarded(items) PROVE MergedExpectation(items)[f] = row[f]
    <2> DEFINE having == {n \in DOMAIN items : f \in DOMAIN items[n].expect}
    <2>1. having # {} /\ having \in SUBSET (1..Len(items)) /\ Len(items) \in Nat
        BY <1>1 DEF Guarded
    <2>2. PICK last : last = Max(having)
        OBVIOUS
    <2>3. last \in having /\ \A k \in having : last >= k
        <3> HIDE DEF having
        <3>1. QED
            BY <2>1, <2>2, GreatestIndex
    <2>4. \A m \in (last + 1)..Len(items) : f \notin DOMAIN items[m].expect
        <3> SUFFICES ASSUME NEW m \in (last + 1)..Len(items), f \in DOMAIN items[m].expect PROVE FALSE
            OBVIOUS
        <3>1. last \in 1..Len(items)
            BY <2>1, <2>3
        <3>2. m \in 1..Len(items) /\ ~(last >= m)
            BY <3>1
        <3>3. QED
            BY <2>3, <3>2
    <2>5. items[last].expect[f] = row[f]
        BY <2>3, <2>4 DEF Leaves
    <2>6. MergedExpectation(items)[f] = items[last].expect[f]
        BY <2>2 DEF MergedExpectation
    <2>7. QED
        BY <2>5, <2>6
<1>2. DOMAIN MergedExpectation(items) = Guarded(items)
    BY DEF MergedExpectation
<1>3. QED
    BY <1>1, <1>2

\* A row drifted if a field that is guarded is not as the action left it.
LEMMA DriftIsSeen ==
    ASSUME NEW items \in Seq(Items), NEW is, Leaves(items, is), NEW row
    PROVE  Drifted(MergedExpectation(items), row) <=> ~(\A f \in Guarded(items) : row[f] = is[f])
BY MergedIsLeft DEF Drifted

\* What becomes of a row under each of the verbs.
LEMMA RowFields ==
    ASSUME NEW row \in Row
    PROVE  /\ DOMAIN row = Fields
           /\ row = [status |-> row.status, tag |-> row.tag]
           /\ row.status \in Columns \cup {"declined"} /\ row.tag \in Tags
           /\ \A tag : Written(row, SetTag(tag)) = [status |-> row.status, tag |-> tag]
           /\ \A column : Written(row, MoveTo(column)) = [status |-> column, tag |-> row.tag]
           /\ Written(row, Restore) = [status |-> "open", tag |-> row.tag]
           /\ \A deed : PutBack(row, deed) =
                 [status |-> IF "status" \in deed.wrote THEN deed.was["status"] ELSE row.status,
                  tag |-> IF "tag" \in deed.wrote THEN deed.was["tag"] ELSE row.tag]
<1>1. /\ row.status \in Columns \cup {"declined"} /\ row.tag \in Tags
      /\ row = [status |-> row.status, tag |-> row.tag] /\ DOMAIN row = {"status", "tag"}
    BY DEF Row
<1>2. /\ \A tag : Field(SetTag(tag)) = "tag" /\ SetTag(tag).to = tag
      /\ \A column : Field(MoveTo(column)) = "status" /\ MoveTo(column).to = column
      /\ Field(Restore) = "status" /\ Restore.to = "open"
    BY DEF Field, SetTag, MoveTo, Restore
<1>3. \A tag : Written(row, SetTag(tag)) = [status |-> row.status, tag |-> tag]
    <2> SUFFICES ASSUME NEW tag PROVE Written(row, SetTag(tag)) = [status |-> row.status, tag |-> tag]
        OBVIOUS
    <2>1. Written(row, SetTag(tag)) = [row EXCEPT !["tag"] = tag]
        BY <1>2 DEF Written
    <2>2. QED
        BY <1>1, <2>1
<1>4. \A column : Written(row, MoveTo(column)) = [status |-> column, tag |-> row.tag]
    <2> SUFFICES ASSUME NEW column PROVE Written(row, MoveTo(column)) = [status |-> column, tag |-> row.tag]
        OBVIOUS
    <2>1. Written(row, MoveTo(column)) = [row EXCEPT !["status"] = column]
        BY <1>2 DEF Written
    <2>2. QED
        BY <1>1, <2>1
<1>5. Written(row, Restore) = [status |-> "open", tag |-> row.tag]
    <2>1. Written(row, Restore) = [row EXCEPT !["status"] = "open"]
        BY <1>2 DEF Written
    <2>2. QED
        BY <1>1, <2>1
<1>6. ASSUME NEW deed
      PROVE  PutBack(row, deed) =
                [status |-> IF "status" \in deed.wrote THEN deed.was["status"] ELSE row.status,
                 tag |-> IF "tag" \in deed.wrote THEN deed.was["tag"] ELSE row.tag]
    BY <1>1 DEF PutBack
<1>7. QED
    BY <1>1, <1>3, <1>4, <1>5, <1>6 DEF Fields

\* The round trip changes the tag of an idea of the archive, and nothing else.
LEMMA TripLeads ==
    ASSUME NEW row \in Row, NEW tag \in Tags, row.status = "archived"
    PROVE  Leads(Trip(tag), 1, row, [status |-> "archived", tag |-> tag])
<1> DEFINE second == [status |-> "open", tag |-> row.tag]
           third == [status |-> "open", tag |-> tag]
           goal == [status |-> "archived", tag |-> tag]
           path == [n \in 0..3 |-> IF n = 0 THEN row ELSE IF n = 1 THEN second
                                   ELSE IF n = 2 THEN third ELSE goal]
<1>1. second \in Row /\ third \in Row
    BY DEF Row, Columns
<1>2. second = Written(row, Restore)
    BY RowFields
<1>3. third = Written(second, SetTag(tag))
    <2>1. second.status = "open"
        OBVIOUS
    <2> HIDE DEF second
    <2>2. QED
        BY <1>1, <2>1, RowFields
<1>4. goal = Written(third, MoveTo("archived"))
    <2>1. third.tag = tag
        OBVIOUS
    <2> HIDE DEF third
    <2>2. QED
        BY <1>1, <2>1, RowFields
<1> HIDE DEF second, third, goal
<1>5. /\ path[0] = row /\ path[1] = second /\ path[2] = third /\ path[3] = goal
    OBVIOUS
<1> HIDE DEF path
<1>6. /\ Len(Trip(tag)) = 3
      /\ Trip(tag)[1] = Restore /\ Trip(tag)[2] = SetTag(tag) /\ Trip(tag)[3] = MoveTo("archived")
    BY DEF Trip
<1>7. \A n \in 1..Len(Trip(tag)) : path[n] = Written(path[n - 1], Trip(tag)[n])
    <2> SUFFICES ASSUME NEW n \in 1..3 PROVE path[n] = Written(path[n - 1], Trip(tag)[n])
        BY <1>6
    <2>1. CASE n = 1
        BY <1>2, <1>5, <1>6, <2>1
    <2>2. CASE n = 2
        BY <1>3, <1>5, <1>6, <2>2
    <2>3. CASE n = 3
        BY <1>4, <1>5, <1>6, <2>3
    <2>4. QED
        BY <2>1, <2>2, <2>3
<1>8. path[1 - 1] = row /\ path[Len(Trip(tag))] = goal
    BY <1>5, <1>6
<1>9. QED
    BY <1>7, <1>8 DEF Leads, goal

\* An update alone or through the open column leaves the column as it was.
LEMMA UpdateLeads ==
    ASSUME NEW i, NEW row \in Row, NEW from \in Row, NEW tag \in Tags,
           row.status = "archived" => from.status = "archived"
    PROVE  /\ UpdateSteps(i, row, tag) \in Seq(Steps)
           /\ Leads(UpdateSteps(i, row, tag), 1, from, [status |-> from.status, tag |-> tag])
<1>1. CASE UpdateSteps(i, row, tag) = <<SetTag(tag)>>
    <2>1. Leads(<<SetTag(tag)>>, 1, from, Written(from, SetTag(tag)))
        BY LeadsByOne
    <2>2. QED
        BY <1>1, <2>1, RowFields, UpdateForms
<1>2. CASE UpdateSteps(i, row, tag) = <<Restore, SetTag(tag), MoveTo("archived")>> /\ row.status = "archived"
    <2>1. Leads(Trip(tag), 1, from, [status |-> "archived", tag |-> tag])
        BY <1>2, TripLeads
    <2>2. QED
        BY <1>2, <2>1, UpdateForms DEF Trip
<1>3. QED
    BY <1>1, <1>2, UpdateForms

\* An item of one step moves the idea or updates it, and guards that field.
LEMMA SimpleForms ==
    ASSUME NEW item \in Items, Simple(item)
    PROVE  /\ Head(item.steps) \in Steps /\ item.steps \in Seq(Steps)
           /\ Moves(item) <=> Field(Head(item.steps)) = "status"
           /\ ~Moves(item) <=> Field(Head(item.steps)) = "tag"
           /\ DOMAIN item.expect = {IF Moves(item) THEN "status" ELSE "tag"}
<1>1. item.steps \in Seq(Steps) /\ item.steps # <<>>
    BY DEF Items
<1>2. Head(item.steps) \in Steps
    BY <1>1
<1>3. Moves(item) <=> Head(item.steps).verb # "update"
    BY DEF Moves, Simple
<1>4. /\ Head(item.steps).verb = "update" => Field(Head(item.steps)) = "tag"
      /\ Head(item.steps).verb # "update" => Field(Head(item.steps)) = "status"
    BY DEF Field
<1>5. QED
    BY <1>1, <1>2, <1>3, <1>4 DEF Simple

\* The row when so many of the items have been replayed.
Midway(items, deed, row, n) ==
    [status |-> IF \E m \in 1..n : Moves(items[m]) THEN deed.was.status ELSE row.status,
     tag |-> IF \E m \in 1..n : ~Moves(items[m]) THEN deed.was.tag ELSE row.tag]

\* What is replayed of one of the plain inverses.
LEMMA PlainReplays ==
    ASSUME NEW i, NEW items \in Seq(Items), NEW deed, deed.was \in Row, Plain(items, deed),
           NEW row \in Row, NEW n \in 1..Len(items)
    PROVE  /\ Replayed(i, items, n, row) \in Seq(Steps)
           /\ Leads(Replayed(i, items, n, row), 1,
                    Midway(items, deed, row, n - 1), Midway(items, deed, row, n))
<1> DEFINE item == items[n]
           step == Head(item.steps)
           from == Midway(items, deed, row, n - 1)
           to == Midway(items, deed, row, n)
<1>1. /\ item \in Items /\ Simple(item) /\ n \in DOMAIN items /\ n \in Nat /\ n > 0
      /\ 1..n = (1..(n - 1)) \cup {n}
    BY DEF Plain
<1>2. /\ step \in Steps /\ item.steps \in Seq(Steps) /\ item.steps = <<step>> /\ ~item.round
      /\ Moves(item) <=> step.verb # "update"
    <2>1. Moves(item) <=> step.verb # "update"
        BY <1>1 DEF Moves, Simple
    <2>2. QED
        BY <1>1, <2>1, SimpleForms DEF Simple
<1>3. deed.was.status \in Columns \cup {"declined"} /\ deed.was.tag \in Tags
    BY RowFields
<1>4. from \in Row
    <2>1. row.status \in Columns \cup {"declined"} /\ row.tag \in Tags
        BY RowFields
    <2>2. QED
        BY <1>3, <2>1 DEF Midway, Row
<1>5. CASE ~Moves(item)
    <2>1. step = SetTag(deed.was.tag) /\ step.to = deed.was.tag
        BY <1>1, <1>5 DEF Plain, SetTag
    <2>2. Replayed(i, items, n, row) = UpdateSteps(i, row, deed.was.tag)
        BY <1>2, <1>5, <2>1 DEF Replayed
    <2>3. row.status = "archived" => from.status = "archived"
        <3>1. CASE \E m \in 1..(n - 1) : Moves(items[m])
            <4>1. PICK m \in 1..(n - 1) : Moves(items[m])
                BY <3>1
            <4>2. m \in DOMAIN items /\ items[m] \in Items /\ Simple(items[m])
                BY <1>1 DEF Plain
            <4>3. "status" \in DOMAIN items[m].expect /\ "tag" \in DOMAIN item.expect
                BY <1>1, <1>5, <4>1, <4>2, SimpleForms
            <4>4. Fields \subseteq Guarded(items)
                BY <1>1, <4>2, <4>3 DEF Guarded, Fields
            <4>5. Guarded(items) \subseteq Fields
                <5>1. \A k \in DOMAIN items : items[k] \in Items /\ Simple(items[k])
                    BY DEF Plain
                <5>2. \A k \in DOMAIN items : DOMAIN items[k].expect \subseteq Fields
                    BY <5>1, SimpleForms DEF Fields
                <5>3. QED
                    BY <5>2 DEF Guarded
            <4>6. deed.was.status = "archived"
                BY <4>4, <4>5 DEF Plain
            <4>7. QED
                BY <3>1, <4>6 DEF Midway
        <3>2. CASE ~\E m \in 1..(n - 1) : Moves(items[m])
            BY <3>2 DEF Midway
        <3>3. QED
            BY <3>1, <3>2
    <2>4. to = [status |-> from.status, tag |-> deed.was.tag]
        <3>1. (\E m \in 1..n : Moves(items[m])) <=> \E m \in 1..(n - 1) : Moves(items[m])
            BY <1>1, <1>5
        <3>2. \E m \in 1..n : ~Moves(items[m])
            BY <1>1, <1>5
        <3>3. QED
            BY <3>1, <3>2 DEF Midway
    <2> HIDE DEF from, to
    <2>5. QED
        BY <1>3, <1>4, <2>2, <2>3, <2>4, UpdateLeads DEF from, to
<1>6. CASE Moves(item)
    <2>1. (\E m \in 1..n : ~Moves(items[m])) <=> \E m \in 1..(n - 1) : ~Moves(items[m])
        BY <1>1, <1>6
    <2>2. \E m \in 1..n : Moves(items[m])
        BY <1>1, <1>6
    <2>3. to.status = deed.was.status /\ to.tag = from.tag
        BY <2>1, <2>2 DEF Midway
    <2>4. to = [status |-> deed.was.status, tag |-> from.tag] /\ from = [status |-> from.status, tag |-> from.tag]
        BY <2>1, <2>2 DEF Midway
    <2>5. CASE \E m \in 1..(n - 1) : Moves(items[m])
        <3>1. from.status = deed.was.status
            BY <2>5 DEF Midway
        <3>2. from = to
            BY <2>4, <3>1
        <3>3. Replayed(i, items, n, row) = <<>>
            BY <1>2, <1>6, <2>5 DEF Replayed
        <3> HIDE DEF from, to
        <3>4. QED
            BY <3>2, <3>3, LeadsNowhere DEF from, to
    <2>6. CASE ~\E m \in 1..(n - 1) : Moves(items[m])
        <3>1. step = MoveTo(deed.was.status) /\ step.to = deed.was.status
            BY <1>1, <1>6, <2>6 DEF Plain, MoveTo
        <3>2. from.status = row.status
            BY <2>6 DEF Midway
        <3>3. CASE step.to = row.status
            <4>1. from = to
                BY <2>4, <3>1, <3>2, <3>3
            <4>2. Replayed(i, items, n, row) = <<>>
                BY <1>2, <1>6, <3>3 DEF Replayed
            <4> HIDE DEF from, to
            <4>3. QED
                BY <4>1, <4>2, LeadsNowhere DEF from, to
        <3>4. CASE step.to # row.status
            <4>1. Replayed(i, items, n, row) = <<step>>
                BY <1>2, <1>6, <2>6, <3>4 DEF Replayed
            <4>2. Written(from, step) = to
                <5> HIDE DEF from, to, step
                <5>1. Written(from, MoveTo(deed.was.status)) = [status |-> deed.was.status, tag |-> from.tag]
                    BY <1>4, RowFields
                <5>2. QED
                    BY <2>4, <3>1, <5>1
            <4>3. Leads(<<step>>, 1, from, Written(from, step))
                BY LeadsByOne
            <4> HIDE DEF from, to
            <4>4. QED
                BY <1>2, <4>1, <4>2, <4>3 DEF from, to
        <3>5. QED
            BY <3>3, <3>4
    <2>7. QED
        BY <2>5, <2>6
<1>7. QED
    BY <1>5, <1>6

\* The rebound plan of plain inverses: what was written is as it was.
LEMMA PlainLeads ==
    ASSUME NEW i, NEW items \in Seq(Items), NEW deed, deed.was \in Row, Plain(items, deed), NEW row \in Row
    PROVE  Leads(Rebound(i, items, row), 1, row, PutBack(row, deed))
<1> DEFINE lists == [n \in DOMAIN items |-> Replayed(i, items, n, row)]
           way == [n \in 0..Len(items) |-> Midway(items, deed, row, n)]
<1>1. Len(items) \in Nat /\ Len(items) # 0 /\ DOMAIN items = 1..Len(items)
    BY DEF Plain
<1>2. lists \in Seq(Seq(Steps)) /\ Len(lists) = Len(items)
    <2>1. \A n \in 1..Len(items) : Replayed(i, items, n, row) \in Seq(Steps)
        BY PlainReplays
    <2>2. QED
        BY <1>1, <2>1
<1>3. \A n \in 1..Len(items) : Leads(lists[n], 1, way[n - 1], way[n])
    <2> SUFFICES ASSUME NEW n \in 1..Len(items) PROVE Leads(lists[n], 1, way[n - 1], way[n])
        OBVIOUS
    <2>1. n \in DOMAIN items /\ n \in 0..Len(items) /\ n - 1 \in 0..Len(items)
        BY <1>1
    <2>2. /\ lists[n] = Replayed(i, items, n, row)
          /\ way[n - 1] = Midway(items, deed, row, n - 1) /\ way[n] = Midway(items, deed, row, n)
        BY <2>1
    <2> HIDE DEF lists, way
    <2>3. QED
        BY <2>2, PlainReplays
<1>4. way[0] = row
    <2>1. way[0] = Midway(items, deed, row, 0) /\ 1..0 = {}
        BY <1>1
    <2>2. Midway(items, deed, row, 0) = [status |-> row.status, tag |-> row.tag]
        BY <2>1 DEF Midway
    <2>3. QED
        BY <2>1, <2>2, RowFields
<1>5. way[Len(items)] = PutBack(row, deed)
    <2>1. way[Len(items)] = Midway(items, deed, row, Len(items))
        BY <1>1
    <2>2. \A n \in DOMAIN items : items[n] \in Items /\ Simple(items[n])
        BY DEF Plain
    <2>3. \A n \in DOMAIN items : DOMAIN items[n].expect = {IF Moves(items[n]) THEN "status" ELSE "tag"}
        BY <2>2, SimpleForms
    <2>4. ("status" \in deed.wrote) <=> \E m \in 1..Len(items) : Moves(items[m])
        BY <1>1, <2>3 DEF Guarded, Plain
    <2>5. ("tag" \in deed.wrote) <=> \E m \in 1..Len(items) : ~Moves(items[m])
        BY <1>1, <2>3 DEF Guarded, Plain
    <2>6. Midway(items, deed, row, Len(items)) =
             [status |-> IF "status" \in deed.wrote THEN deed.was["status"] ELSE row.status,
              tag |-> IF "tag" \in deed.wrote THEN deed.was["tag"] ELSE row.tag]
        BY <2>4, <2>5 DEF Midway
    <2>7. QED
        BY <2>1, <2>6, RowFields
<1>6. Rebound(i, items, row) = FlattenSeq(lists)
    BY DEF Rebound
<1> HIDE DEF lists, way
<1>7. QED
    BY <1>1, <1>2, <1>3, <1>4, <1>5, <1>6, FlatLeads

\* The same of the inverses of a round trip.
LEMMA TrippingLeads ==
    ASSUME NEW i, NEW items \in Seq(Items), NEW deed, deed.was \in Row, Tripping(items, deed),
           NEW row \in Row, row.status = "archived"
    PROVE  Leads(Rebound(i, items, row), 1, row, PutBack(row, deed))
<1> DEFINE lists == [n \in DOMAIN items |-> Replayed(i, items, n, row)]
<1>1. DOMAIN items = {1} /\ Len(items) = 1 /\ items[1].steps \in Seq(Steps)
    <2>1. Len(items) = 1 /\ DOMAIN items = 1..Len(items)
        BY DEF Tripping
    <2>2. items[1] \in Items
        <3>1. \A n \in 1..Len(items) : items[n] \in Items
            OBVIOUS
        <3>2. 1 \in 1..Len(items)
            BY <2>1
        <3>3. QED
            BY <3>1, <3>2
    <2>3. items[1].steps \in Seq(Steps)
        <3>1. \A item \in Items : item.steps \in Seq(Steps)
            BY DEF Items
        <3>2. QED
            BY <2>2, <3>1
    <2>4. 1..1 = {1}
        OBVIOUS
    <2>5. QED
        BY <2>1, <2>3, <2>4
<1>2. Replayed(i, items, 1, row) = Trip(deed.was.tag)
    BY DEF Replayed, Tripping
<1>3. Trip(deed.was.tag) \in Seq(Steps)
    BY <1>1 DEF Tripping
<1>4. lists \in Seq(Seq(Steps)) /\ Len(lists) = 1 /\ lists[1] = Trip(deed.was.tag)
    <2>1. lists = [n \in 1..1 |-> Trip(deed.was.tag)]
        BY <1>1, <1>2
    <2>2. QED
        BY <1>3, <2>1
<1>5. PICK way : way = [n \in 0..1 |-> IF n = 0 THEN row ELSE PutBack(row, deed)]
    OBVIOUS
<1>6. PutBack(row, deed) = [status |-> "archived", tag |-> deed.was.tag]
    <2>1. deed.wrote = {"tag"}
        BY DEF Tripping
    <2>2. QED
        BY <2>1, RowFields
<1>7. Leads(Trip(deed.was.tag), 1, row, PutBack(row, deed))
    BY <1>6, RowFields, TripLeads
<1>8. \A n \in 1..Len(lists) : Leads(lists[n], 1, way[n - 1], way[n])
    <2> HIDE DEF lists
    <2> SUFFICES ASSUME NEW n \in 1..1 PROVE Leads(lists[n], 1, way[n - 1], way[n])
        BY <1>4
    <2>1. n = 1 /\ way[n - 1] = row /\ way[n] = PutBack(row, deed)
        BY <1>5
    <2>2. QED
        BY <1>4, <1>7, <2>1
<1>9. Rebound(i, items, row) = FlattenSeq(lists)
    BY DEF Rebound
<1> HIDE DEF lists
<1>10. Leads(FlattenSeq(lists), 1, way[0], way[1])
    <2>1. lists \in Seq(Seq(Steps)) /\ Len(lists) # 0 /\ Len(lists) = 1
        BY <1>4
    <2>2. Leads(FlattenSeq(lists), 1, way[0], way[Len(lists)])
        BY <1>8, <2>1, FlatLeads
    <2>3. QED
        BY <2>1, <2>2
<1>11. way[0] = row /\ way[1] = PutBack(row, deed)
    BY <1>5
<1>12. QED
    BY <1>9, <1>10, <1>11

\* What planUndo makes of an idea: nothing if it drifted, and otherwise what it
\* takes to put back what the action wrote.
LEMMA MatchesLeads ==
    ASSUME NEW i, NEW items \in Seq(Items), NEW deed, Matches(items, deed), NEW row \in Row \cup {Gone}
    PROVE  Leads(IF Drifted(MergedExpectation(items), row) THEN <<>> ELSE Rebound(i, items, row), 1, row,
                 IF \A f \in Guarded(items) : row[f] = deed.is[f] THEN PutBack(row, deed) ELSE row)
<1>1. deed.was \in Row /\ deed.is \in Row /\ Leaves(items, deed.is)
    BY DEF Matches
<1>2. Drifted(MergedExpectation(items), row) <=> ~(\A f \in Guarded(items) : row[f] = deed.is[f])
    BY <1>1, DriftIsSeen
<1>3. CASE Drifted(MergedExpectation(items), row)
    BY <1>2, <1>3, LeadsNowhere
<1>4. CASE ~Drifted(MergedExpectation(items), row)
    <2>1. \A f \in Guarded(items) : row[f] = deed.is[f]
        BY <1>2, <1>4
    <2>2. \E f \in Guarded(items) : f \in Fields
        <3>1. CASE Plain(items, deed)
            <4>1. 1 \in DOMAIN items /\ items[1] \in Items /\ Simple(items[1])
                BY <3>1 DEF Plain
            <4>2. DOMAIN items[1].expect = {IF Moves(items[1]) THEN "status" ELSE "tag"}
                BY <4>1, SimpleForms
            <4>3. QED
                BY <4>1, <4>2 DEF Guarded, Fields
        <3>2. CASE Tripping(items, deed)
            <4>1. 1 \in DOMAIN items /\ DOMAIN items[1].expect = Fields
                BY <3>2 DEF Tripping
            <4>2. QED
                BY <4>1 DEF Guarded, Fields
        <3>3. QED
            BY <3>1, <3>2 DEF Matches
    <2>3. row \in Row
        <3>1. \A f \in Fields : deed.is[f] # "gone"
            BY <1>1 DEF Fields, Row, Columns, Tags
        <3>2. \A f \in Fields : Gone[f] = "gone"
            BY DEF Fields, Gone
        <3>3. QED
            BY <2>1, <2>2, <3>1, <3>2
    <2>4. CASE Plain(items, deed)
        BY <1>1, <1>4, <2>1, <2>3, <2>4, PlainLeads
    <2>5. CASE Tripping(items, deed)
        <3>1. 1 \in DOMAIN items /\ "status" \in DOMAIN items[1].expect /\ deed.is.status = "archived"
            BY <2>5 DEF Tripping, Fields
        <3>2. row["status"] = deed.is["status"]
            BY <2>1, <3>1 DEF Guarded
        <3>3. row.status = "archived"
            BY <3>1, <3>2
        <3>4. QED
            BY <1>1, <1>4, <2>1, <2>3, <2>5, <3>3, TrippingLeads
    <2>6. QED
        BY <2>4, <2>5 DEF Matches
<1>5. QED
    BY <1>3, <1>4

----------------------------------------------------------------------------
(* The items of an idea, in order.                                         *)

\* How many of a set a number has up to it.
Rank(S, m) == Cardinality({k \in S : k <= m})

\* The numbers of a set in order: each is where its rank says.
LEMMA InOrderRanks ==
    ASSUME NEW S, IsFiniteSet(S), \A m \in S : m \in Nat
    PROVE  /\ Cardinality(S) \in Nat /\ DOMAIN InOrder(S) = 1..Cardinality(S)
           /\ InOrder(S) \in Seq(S) /\ Len(InOrder(S)) = Cardinality(S)
           /\ \A n \in 1..Cardinality(S) : InOrder(S)[n] \in S /\ Rank(S, InOrder(S)[n]) = n
           /\ \A m \in S : Rank(S, m) \in 1..Cardinality(S)
           /\ \A m, n \in S : Rank(S, m) = Rank(S, n) => m = n
<1> DEFINE upto(m) == {k \in S : k <= m}
           at == [m \in S |-> Cardinality(upto(m))]
           order == InOrder(S)
<1>1. IsFiniteSet(S) /\ Cardinality(S) \in Nat /\ \A m \in S : m \in Nat
    BY FS_CardinalityType
<1>2. \A m \in S : IsFiniteSet(upto(m)) /\ at[m] = Cardinality(upto(m)) /\ at[m] \in 1..Cardinality(S)
    <2> SUFFICES ASSUME NEW m \in S
                 PROVE  /\ IsFiniteSet(upto(m)) /\ at[m] = Cardinality(upto(m))
                        /\ at[m] \in 1..Cardinality(S)
        OBVIOUS
    <2>1. upto(m) \in SUBSET S /\ m \in upto(m)
        BY <1>1
    <2> HIDE DEF upto
    <2>2. /\ IsFiniteSet(upto(m)) /\ Cardinality(upto(m)) \in Nat
          /\ Cardinality(upto(m)) <= Cardinality(S) /\ Cardinality(upto(m)) # 0
        BY <1>1, <2>1, FS_Subset, FS_CardinalityType, FS_EmptySet
    <2>3. QED
        BY <1>1, <2>2
<1>3. \A m, n \in S : at[m] = at[n] => m = n
    <2>1. \A m, n \in S : m < n => at[m] # at[n]
        <3> SUFFICES ASSUME NEW m \in S, NEW n \in S, m < n PROVE at[m] # at[n]
            OBVIOUS
        <3>1. m \in Nat /\ n \in Nat /\ n \in upto(n) /\ n \notin upto(m)
            BY <1>1
        <3>2. \A k \in S : k <= m => k <= n
            BY <1>1, <3>1
        <3>3. upto(m) \in SUBSET upto(n)
            BY <3>2
        <3> HIDE DEF upto, at
        <3>4. QED
            BY <1>2, <3>1, <3>3, FS_Subset
    <2> HIDE DEF at
    <2>2. QED
        BY <1>1, <2>1
<1>4. \A n \in 1..Cardinality(S) : \E m \in S : at[m] = n
    <2>1. IsFiniteSet(S) /\ \A x \in S : at[x] \in 1..Cardinality(S)
        BY <1>1, <1>2
    <2> HIDE DEF at
    <2>2. \A x, y \in S : at[x] = at[y] => x = y
        BY <1>3
    <2>3. QED
        BY <2>1, <2>2, NumbersAreUsed
<1>5. DOMAIN order = 1..Cardinality(S)
    BY DEF InOrder
<1>6. \A n \in 1..Cardinality(S) : order[n] \in S /\ at[order[n]] = n
    <2> SUFFICES ASSUME NEW n \in 1..Cardinality(S) PROVE order[n] \in S /\ at[order[n]] = n
        OBVIOUS
    <2>1. \E m \in S : Cardinality({k \in S : k <= m}) = n
        BY <1>4
    <2>2. order[n] = CHOOSE m \in S : Cardinality({k \in S : k <= m}) = n
        BY DEF InOrder
    <2> HIDE DEF order
    <2>3. order[n] \in S /\ Cardinality({k \in S : k <= order[n]}) = n
        BY <2>1, <2>2
    <2>4. QED
        BY <2>3
<1>7. order = [n \in 1..Cardinality(S) |-> order[n]]
    BY DEF InOrder
<1>8. \A m \in S : Rank(S, m) = at[m]
    BY DEF Rank
<1> HIDE DEF order, at
<1>9. order \in [1..Cardinality(S) -> S]
    BY <1>6, <1>7
<1>10. order \in Seq(S) /\ Len(order) = Cardinality(S)
    BY <1>1, <1>9
<1>11. \A n \in 1..Cardinality(S) : order[n] \in S /\ Rank(S, order[n]) = n
    BY <1>6, <1>8
<1>12. /\ \A m \in S : Rank(S, m) \in 1..Cardinality(S)
       /\ \A m, n \in S : Rank(S, m) = Rank(S, n) => m = n
    BY <1>2, <1>3, <1>8
<1>13. QED
    BY <1>1, <1>5, <1>10, <1>11, <1>12 DEF order

\* No number is left out.
LEMMA InOrderCovers ==
    ASSUME NEW S, IsFiniteSet(S), \A m \in S : m \in Nat, NEW m \in S
    PROVE  \E n \in DOMAIN InOrder(S) : InOrder(S)[n] = m
<1> DEFINE order == InOrder(S)
           n == Rank(S, m)
<1>1. /\ DOMAIN order = 1..Cardinality(S) /\ n \in 1..Cardinality(S)
      /\ \A k \in 1..Cardinality(S) : order[k] \in S /\ Rank(S, order[k]) = k
      /\ \A k, l \in S : Rank(S, k) = Rank(S, l) => k = l
    BY InOrderRanks
<1> HIDE DEF order
<1>2. order[n] \in S /\ Rank(S, order[n]) = Rank(S, m)
    BY <1>1
<1>3. order[n] = m
    BY <1>1, <1>2
<1>4. QED
    BY <1>1, <1>3 DEF order

\* A greater number comes last.
LEMMA InOrderGrows ==
    ASSUME NEW S, IsFiniteSet(S), \A m \in S : m \in Nat, NEW new \in Nat, \A m \in S : m < new
    PROVE  InOrder(S \cup {new}) = Append(InOrder(S), new)
<1> DEFINE T == S \cup {new}
           was == InOrder(S)
           order == InOrder(T)
           c == Cardinality(S)
<1>1. new \notin S /\ IsFiniteSet(T) /\ Cardinality(T) = c + 1 /\ c \in Nat
    BY FS_AddElement, FS_CardinalityType
<1>2. \A m \in T : m \in Nat
    OBVIOUS
<1>3. /\ DOMAIN was = 1..c /\ was \in Seq(S) /\ Len(was) = c
      /\ \A n \in 1..c : was[n] \in S /\ Rank(S, was[n]) = n
    BY InOrderRanks
<1>4. /\ DOMAIN order = 1..(c + 1) /\ order \in Seq(T) /\ Len(order) = c + 1
      /\ \A n \in 1..(c + 1) : order[n] \in T /\ Rank(T, order[n]) = n
      /\ \A k, l \in T : Rank(T, k) = Rank(T, l) => k = l
    <2> HIDE DEF T, c
    <2>1. QED
        BY <1>1, <1>2, InOrderRanks
<1>5. \A m \in S : Rank(T, m) = Rank(S, m)
    <2> SUFFICES ASSUME NEW m \in S PROVE Rank(T, m) = Rank(S, m)
        OBVIOUS
    <2>1. {k \in T : k <= m} = {k \in S : k <= m}
        OBVIOUS
    <2>2. QED
        BY <2>1 DEF Rank
<1>6. Rank(T, new) = c + 1
    <2>1. {k \in T : k <= new} = T
        OBVIOUS
    <2>2. QED
        BY <1>1, <2>1 DEF Rank
<1>7. new \in T /\ S \subseteq T
    OBVIOUS
<1> HIDE DEF T, was, order, c
<1>8. \A n \in 1..c : order[n] = was[n]
    <2> SUFFICES ASSUME NEW n \in 1..c PROVE order[n] = was[n]
        OBVIOUS
    <2>1. n \in 1..(c + 1)
        BY <1>1
    <2>2. order[n] \in T /\ was[n] \in T /\ Rank(T, order[n]) = n /\ Rank(T, was[n]) = n
        BY <1>3, <1>4, <1>5, <1>7, <2>1
    <2>3. QED
        BY <1>4, <2>2
<1>9. order[c + 1] = new
    <2>1. c + 1 \in 1..(c + 1)
        BY <1>1
    <2>2. QED
        BY <1>4, <1>6, <1>7, <2>1
<1>10. order = Append(was, new)
    <2>1. order = [n \in 1..(c + 1) |-> IF n = c + 1 THEN new ELSE was[n]]
        <3>1. order = [n \in 1..(c + 1) |-> order[n]]
            BY <1>4
        <3>2. \A n \in 1..(c + 1) : n # c + 1 => n \in 1..c
            BY <1>1
        <3>3. \A n \in 1..(c + 1) : order[n] = IF n = c + 1 THEN new ELSE was[n]
            BY <1>8, <1>9, <3>2
        <3>4. QED
            BY <3>1, <3>3
    <2>2. Append(was, new) = [n \in 1..(c + 1) |-> IF n = c + 1 THEN new ELSE was[n]]
        <3>1. was \in Seq(Nat) /\ Len(was) = c /\ c \in Nat
            BY <1>1, <1>3
        <3>2. /\ Append(was, new) \in Seq(Nat) /\ Len(Append(was, new)) = c + 1
              /\ \A n \in 1..c : Append(was, new)[n] = was[n]
              /\ Append(was, new)[c + 1] = new
            BY <3>1
        <3>3. \A n \in 1..(c + 1) : n # c + 1 => n \in 1..c
            BY <3>1
        <3>4. PICK grown : grown = Append(was, new)
            OBVIOUS
        <3> HIDE DEF c
        <3>5. grown \in Seq(Nat) /\ Len(grown) = c + 1
            BY <3>2, <3>4
        <3>6. grown = [n \in 1..(c + 1) |-> grown[n]]
            BY <3>5
        <3>7. \A n \in 1..(c + 1) : grown[n] = IF n = c + 1 THEN new ELSE was[n]
            BY <3>2, <3>3, <3>4
        <3>8. QED
            BY <3>4, <3>6, <3>7
    <2>3. QED
        BY <2>1, <2>2
<1>11. QED
    BY <1>10 DEF T, was, order

\* Which numbers of the items are those of an idea.
Places(items, i) == {n \in DOMAIN items : items[n].id = i}

\* The places of an idea are some of the numbers of the list.
LEMMA PlacesFinite ==
    ASSUME NEW items \in Seq(Items), NEW i
    PROVE  /\ IsFiniteSet(Places(items, i)) /\ \A m \in Places(items, i) : m \in Nat
           /\ Places(items, i) \in SUBSET (1..Len(items))
<1>1. Len(items) \in Nat /\ IsFiniteSet(1..Len(items))
    BY FS_Interval
<1>2. Places(items, i) \in SUBSET (1..Len(items))
    BY DEF Places
<1>3. IsFiniteSet(Places(items, i))
    BY <1>1, <1>2, FS_Subset
<1>4. QED
    BY <1>2, <1>3

\* The items of an idea, and whether there are any.
LEMMA ItemsOfPlaces ==
    ASSUME NEW entry, entry.items \in Seq(Items), NEW i
    PROVE  LET of == InOrder(Places(entry.items, i))
           IN  /\ ItemsOf(entry, i) = [n \in DOMAIN of |-> entry.items[of[n]]]
               /\ ItemsOf(entry, i) \in Seq(Items) /\ Len(ItemsOf(entry, i)) = Len(of)
               /\ DOMAIN ItemsOf(entry, i) = DOMAIN of
               /\ of \in Seq(Places(entry.items, i))
               /\ ItemsOf(entry, i) = <<>> <=> Places(entry.items, i) = {}
<1> DEFINE items == entry.items
           S == Places(items, i)
           of == InOrder(S)
           its == ItemsOf(entry, i)
<1>1. its = [n \in DOMAIN of |-> items[of[n]]]
    BY DEF ItemsOf, Places
<1>2. its \in Seq(Items)
    BY EntryLists
<1>3. IsFiniteSet(S) /\ \A m \in S : m \in Nat
    BY PlacesFinite
<1> HIDE DEF S, its
<1>4. of \in Seq(S) /\ DOMAIN of = 1..Cardinality(S) /\ Len(of) = Cardinality(S) /\ Cardinality(S) \in Nat
    BY <1>3, InOrderRanks
<1> HIDE DEF of
<1>5. Len(its) = Len(of) /\ DOMAIN its = DOMAIN of
    BY <1>1, <1>2, <1>4
<1>6. its = <<>> <=> S = {}
    <2>1. S = {} <=> Cardinality(S) = 0
        BY <1>3, FS_EmptySet
    <2>2. QED
        BY <1>2, <1>4, <1>5, <2>1
<1>7. QED
    BY <1>1, <1>2, <1>4, <1>5, <1>6 DEF of, S, its

\* An item more is the last of its idea, and none of any other.
LEMMA ItemsOfAppended ==
    ASSUME NEW entry, entry.items \in Seq(Items), NEW item \in Items,
           NEW longer, longer.items = Append(entry.items, item), NEW i
    PROVE  ItemsOf(longer, i) =
               IF item.id = i THEN Append(ItemsOf(entry, i), item) ELSE ItemsOf(entry, i)
<1> DEFINE items == entry.items
           c == Len(items)
           S == Places(items, i)
           T == Places(longer.items, i)
           of == InOrder(S)
           its == ItemsOf(entry, i)
<1>1. /\ longer.items \in Seq(Items) /\ c \in Nat /\ DOMAIN longer.items = 1..(c + 1)
      /\ DOMAIN items = 1..c
      /\ \A n \in 1..c : longer.items[n] = items[n]
      /\ longer.items[c + 1] = item
    OBVIOUS
<1>2. IsFiniteSet(S) /\ (\A m \in S : m \in Nat) /\ S \in SUBSET (1..c)
    BY PlacesFinite
<1>3. T = IF item.id = i THEN S \cup {c + 1} ELSE S
    <2>1. 1..(c + 1) = (1..c) \cup {c + 1}
        BY <1>1
    <2>2. QED
        BY <1>1, <2>1 DEF Places
<1>4. /\ its = [n \in DOMAIN of |-> items[of[n]]] /\ its \in Seq(Items) /\ Len(its) = Len(of)
      /\ DOMAIN its = DOMAIN of /\ of \in Seq(S)
    BY ItemsOfPlaces
<1>5. ItemsOf(longer, i) = [n \in DOMAIN InOrder(T) |-> longer.items[InOrder(T)[n]]]
    BY <1>1, ItemsOfPlaces
<1> HIDE DEF S, T, its
<1>6. CASE item.id # i
    <2>1. T = S
        BY <1>3, <1>6
    <2> HIDE DEF of
    <2>2. \A n \in DOMAIN of : of[n] \in 1..c
        <3>1. \A n \in DOMAIN of : of[n] \in S
            BY <1>4
        <3>2. QED
            BY <1>2, <3>1
    <2>3. ItemsOf(longer, i) = [n \in DOMAIN of |-> longer.items[of[n]]]
        BY <1>5, <2>1 DEF of
    <2>4. \A n \in DOMAIN of : longer.items[of[n]] = items[of[n]]
        BY <1>1, <2>2
    <2>5. ItemsOf(longer, i) = its
        BY <1>4, <2>3, <2>4
    <2>6. QED
        BY <1>6, <2>5 DEF its
<1>7. CASE item.id = i
    <2>1. InOrder(T) = Append(of, c + 1)
        <3>1. T = S \cup {c + 1} /\ c + 1 \in Nat
            BY <1>1, <1>3, <1>7
        <3>2. \A m \in S : m < c + 1
            BY <1>1, <1>2
        <3>3. QED
            BY <1>2, <3>1, <3>2, InOrderGrows
    <2> HIDE DEF of
    <2>2. \A n \in DOMAIN of : of[n] \in 1..c
        <3>1. \A n \in DOMAIN of : of[n] \in S
            BY <1>4
        <3>2. QED
            BY <1>2, <3>1
    <2>3. /\ DOMAIN Append(of, c + 1) = 1..(Len(of) + 1) /\ Len(of) \in Nat /\ DOMAIN of = 1..Len(of)
          /\ \A n \in 1..Len(of) : Append(of, c + 1)[n] = of[n]
          /\ Append(of, c + 1)[Len(of) + 1] = c + 1
        BY <1>4
    <2>4. \A n \in 1..(Len(of) + 1) : longer.items[Append(of, c + 1)[n]] =
              IF n = Len(of) + 1 THEN item ELSE its[n]
        <3> SUFFICES ASSUME NEW n \in 1..(Len(of) + 1)
                     PROVE  longer.items[Append(of, c + 1)[n]] = IF n = Len(of) + 1 THEN item ELSE its[n]
            OBVIOUS
        <3>1. CASE n = Len(of) + 1
            BY <1>1, <2>3, <3>1
        <3>2. CASE n # Len(of) + 1
            <4>1. n \in 1..Len(of) /\ n \in DOMAIN of
                BY <2>3, <3>2
            <4>2. longer.items[of[n]] = items[of[n]] /\ its[n] = items[of[n]]
                BY <1>1, <1>4, <2>2, <4>1
            <4>3. QED
                BY <2>3, <3>2, <4>1, <4>2
        <3>3. QED
            BY <3>1, <3>2
    <2>5. ItemsOf(longer, i) = [n \in 1..(Len(of) + 1) |-> IF n = Len(of) + 1 THEN item ELSE its[n]]
        BY <1>5, <2>1, <2>3, <2>4
    <2>6. Append(its, item) = [n \in 1..(Len(of) + 1) |-> IF n = Len(of) + 1 THEN item ELSE its[n]]
        BY <1>4, <2>3
    <2>7. QED
        BY <1>7, <2>5, <2>6 DEF its
<1>8. QED
    BY <1>6, <1>7

----------------------------------------------------------------------------
(* What an entry is the inverse of.                                        *)

\* An item is of this verb on this row: its inverse, and what it left.
ItemFor(item, i, before, step) ==
    /\ item.steps = InverseSteps(i, before, step)
    /\ item.round = RoundTrip(item.steps)
    /\ item.expect = Expectation(item.steps, Written(before, step))

\* The field that each verb writes, and no other.
LEMMA FieldForms ==
    /\ \A tag : Field(SetTag(tag)) = "tag" /\ SetTag(tag).verb = "update" /\ SetTag(tag).to = tag
    /\ \A column : /\ Field(MoveTo(column)) = "status" /\ MoveTo(column).verb # "update"
                   /\ MoveTo(column).to = column
    /\ Field(Restore) = "status" /\ Restore.verb # "update"
BY DEF Field, SetTag, MoveTo, Restore

LEMMA WritesOneField ==
    ASSUME NEW row \in Row, NEW step \in Steps
    PROVE  /\ Written(row, step) \in Row /\ DOMAIN row = Fields
           /\ \A f \in Fields : f # Field(step) => Written(row, step)[f] = row[f]
<1>1. Written(row, step) \in Row /\ Field(step) \in Fields
    BY StepForms
<1>2. DOMAIN row = Fields
    BY RowFields
<1>3. \A f \in Fields : f # Field(step) => Written(row, step)[f] = row[f]
    BY <1>2 DEF Written
<1>4. QED
    BY <1>1, <1>2, <1>3

\* The inverse is not a round trip.
StaysPut(i, before, step) ==
    step.verb = "update" => InverseSteps(i, before, step) = <<SetTag(before.tag)>>

\* One step that takes back what the verb does to its field.
StepsBack(item, before, step) ==
    /\ Simple(item)
    /\ item.steps = <<IF step.verb = "update" THEN SetTag(before.tag) ELSE MoveTo(before.status)>>
    /\ Moves(item) <=> step.verb # "update"
    /\ DOMAIN item.expect = {Field(step)}
    /\ \A f \in DOMAIN item.expect : item.expect[f] = Written(before, step)[f]

\* An inverse that is not a round trip is one step back.
LEMMA SimpleInverse ==
    ASSUME NEW i, NEW before \in Row, NEW step \in Steps, Invertible(before, step),
           NEW item, ItemFor(item, i, before, step),
           StaysPut(i, before, step)
    PROVE  StepsBack(item, before, step)
<1> DEFINE back == IF step.verb = "update" THEN SetTag(before.tag) ELSE MoveTo(before.status)
<1>1. item.steps = <<back>>
    BY DEF ItemFor, InverseSteps, StaysPut
<1>2. Field(back) = Field(step) /\ back # Restore /\ (back.verb = "update" <=> step.verb = "update")
    BY FieldForms, KnownSteps DEF Field
<1> HIDE DEF back
<1>3. Head(item.steps) = back
    BY <1>1
<1>4. ~item.round
    BY <1>1, <1>2, RoundTrips DEF ItemFor
<1>5. /\ DOMAIN item.expect = {Field(step)}
      /\ \A f \in DOMAIN item.expect : item.expect[f] = Written(before, step)[f]
    <2>1. {Field(<<back>>[n]) : n \in DOMAIN <<back>>} = {Field(back)}
        OBVIOUS
    <2>2. item.expect = [f \in {Field(back)} |-> Written(before, step)[f]]
        BY <1>1, <2>1 DEF ItemFor, Expectation
    <2>3. QED
        BY <1>2, <2>2
<1>6. Simple(item)
    BY <1>1, <1>2, <1>3, <1>4, <1>5 DEF Simple
<1>7. Moves(item) <=> step.verb # "update"
    BY <1>2, <1>3, <1>4 DEF Moves
<1>8. QED
    BY <1>1, <1>5, <1>6, <1>7 DEF StepsBack, back

\* A list of one item.
LEMMA OneItem ==
    ASSUME NEW item
    PROVE  /\ <<item>> # <<>> /\ DOMAIN <<item>> = {1} /\ Len(<<item>>) = 1 /\ <<item>>[1] = item
           /\ Guarded(<<item>>) = DOMAIN item.expect
           /\ \A row : (\A f \in DOMAIN item.expect : item.expect[f] = row[f]) => Leaves(<<item>>, row)
<1>1. /\ <<item>> # <<>> /\ DOMAIN <<item>> = {1} /\ Len(<<item>>) = 1 /\ <<item>>[1] = item
    OBVIOUS
<1>2. Guarded(<<item>>) = DOMAIN item.expect
    BY <1>1 DEF Guarded
<1>3. QED
    BY <1>1, <1>2 DEF Leaves

\* The entry of one verb.
LEMMA MatchesOne ==
    ASSUME NEW i, NEW before \in Row, NEW step \in Steps, Invertible(before, step),
           NEW item, ItemFor(item, i, before, step),
           NEW deed, deed.was = before, deed.is = Written(before, step), deed.wrote = {Field(step)}
    PROVE  Matches(<<item>>, deed)
<1>1. Written(before, step) \in Row
    BY StepForms
<1>2. before.tag \in Tags
    BY RowFields
<1>3. CASE StaysPut(i, before, step)
    <2>1. /\ Simple(item)
          /\ item.steps = <<IF step.verb = "update" THEN SetTag(before.tag) ELSE MoveTo(before.status)>>
          /\ Moves(item) <=> step.verb # "update"
          /\ DOMAIN item.expect = {Field(step)}
          /\ \A f \in DOMAIN item.expect : item.expect[f] = Written(before, step)[f]
        <3>1. StepsBack(item, before, step)
            BY <1>3, SimpleInverse
        <3>2. QED
            BY <3>1 DEF StepsBack
    <2>2. Leaves(<<item>>, deed.is)
        BY <2>1, OneItem
    <2>3. deed.wrote = Guarded(<<item>>)
        BY <2>1, OneItem
    <2>4. deed.wrote # Fields
        BY DEF Fields
    <2>5. /\ ~Moves(item) => Head(item.steps) = SetTag(deed.was.tag)
          /\ Moves(item) => Head(item.steps) = MoveTo(deed.was.status)
        BY <2>1
    <2>6. Plain(<<item>>, deed)
        BY <2>1, <2>3, <2>4, <2>5, OneItem DEF Plain
    <2>7. QED
        BY <1>1, <2>2, <2>6 DEF Matches
<1>4. CASE ~StaysPut(i, before, step)
    <2>1. step.verb = "update" /\ InverseSteps(i, before, step) # <<SetTag(before.tag)>>
        BY <1>4 DEF StaysPut
    <2>2. InverseSteps(i, before, step) = UpdateSteps(i, before, before.tag)
        BY <2>1 DEF InverseSteps
    <2>3. item.steps = Trip(before.tag) /\ before.status = "archived"
        BY <1>2, <2>1, <2>2, UpdateForms DEF ItemFor, Trip
    <2>4. item.round
        BY <2>3, RoundTrips DEF ItemFor, Trip
    <2>5. /\ DOMAIN item.expect = Fields
          /\ \A f \in DOMAIN item.expect : item.expect[f] = Written(before, step)[f]
        <3>1. DOMAIN Trip(before.tag) = {1, 2, 3}
            BY DEF Trip
        <3>2. /\ Field(Trip(before.tag)[1]) = "status" /\ Field(Trip(before.tag)[2]) = "tag"
              /\ Field(Trip(before.tag)[3]) = "status"
            BY FieldForms DEF Trip
        <3>3. {Field(Trip(before.tag)[n]) : n \in DOMAIN Trip(before.tag)} = Fields
            BY <3>1, <3>2 DEF Fields
        <3>4. item.expect = [f \in Fields |-> Written(before, step)[f]]
            BY <2>3, <3>3 DEF ItemFor, Expectation
        <3>5. QED
            BY <3>4
    <2>6. Field(step) = "tag"
        BY <2>1 DEF Field
    <2>7. deed.is.status = "archived"
        <3>1. Written(before, step)["status"] = before["status"]
            BY <2>6, WritesOneField DEF Fields
        <3>2. QED
            BY <2>3, <3>1
    <2>8. Tripping(<<item>>, deed)
        BY <2>3, <2>4, <2>5, <2>6, <2>7, OneItem DEF Tripping
    <2>9. Leaves(<<item>>, deed.is)
        BY <2>5, OneItem
    <2>10. QED
        BY <1>1, <2>8, <2>9 DEF Matches
<1>5. QED
    BY <1>3, <1>4

\* The entry of a round trip, one verb longer.
LEMMA MatchesMore ==
    ASSUME NEW i, NEW items \in Seq(Items), NEW deed, Matches(items, deed),
           "status" \in deed.wrote, deed.was.status = "archived",
           NEW before \in Row, NEW step \in Steps, Invertible(before, step),
           \A f \in deed.wrote : f # Field(step) => before[f] = deed.is[f],
           step.verb = "update" => before.status # "archived" /\ before.tag = deed.was.tag,
           NEW item \in Items, ItemFor(item, i, before, step),
           NEW more, more.was = deed.was, more.is = Written(before, step),
           more.wrote = deed.wrote \cup {Field(step)}
    PROVE  Matches(Append(items, item), more)
<1> DEFINE longer == Append(items, item)
           c == Len(items)
<1>1. /\ longer \in Seq(Items) /\ c \in Nat /\ Len(longer) = c + 1 /\ DOMAIN longer = 1..(c + 1)
      /\ DOMAIN items = 1..c /\ 1..(c + 1) = (1..c) \cup {c + 1}
      /\ \A n \in 1..c : longer[n] = items[n]
      /\ longer[c + 1] = item
    OBVIOUS
<1>2. /\ Simple(item)
      /\ item.steps = <<IF step.verb = "update" THEN SetTag(before.tag) ELSE MoveTo(before.status)>>
      /\ Moves(item) <=> step.verb # "update"
      /\ DOMAIN item.expect = {Field(step)}
      /\ \A f \in DOMAIN item.expect : item.expect[f] = Written(before, step)[f]
    <2>1. StaysPut(i, before, step)
        BY DEF StaysPut, InverseSteps, UpdateSteps
    <2>2. StepsBack(item, before, step)
        BY <2>1, SimpleInverse
    <2>3. QED
        BY <2>2 DEF StepsBack
<1>3. Plain(items, deed) /\ Leaves(items, deed.is) /\ deed.was \in Row /\ deed.is \in Row
    BY DEF Matches, Tripping
<1>4. \E m \in 1..c : Moves(items[m])
    <2>1. PICK m \in DOMAIN items : "status" \in DOMAIN items[m].expect
        BY <1>3 DEF Plain, Guarded
    <2>2. Simple(items[m]) /\ items[m] \in Items
        BY <1>3, <2>1 DEF Plain
    <2>3. Moves(items[m])
        BY <2>1, <2>2, SimpleForms
    <2>4. QED
        BY <1>1, <2>1, <2>3
<1> HIDE DEF longer, c
<1>5. Guarded(longer) = more.wrote
    <2>1. Guarded(items) = UNION {DOMAIN items[n].expect : n \in 1..c}
        BY <1>1 DEF Guarded
    <2>2. Guarded(longer) = Guarded(items) \cup DOMAIN item.expect
        BY <1>1, <2>1 DEF Guarded
    <2>3. QED
        BY <1>2, <1>3, <2>2 DEF Plain
<1>6. Leaves(longer, more.is)
    <2> SUFFICES ASSUME NEW n \in 1..(c + 1), NEW f \in DOMAIN longer[n].expect,
                        \A m \in (n + 1)..(c + 1) : f \notin DOMAIN longer[m].expect
                 PROVE  longer[n].expect[f] = more.is[f]
        BY <1>1 DEF Leaves
    <2>1. CASE n = c + 1
        BY <1>1, <1>2, <2>1
    <2>2. CASE n # c + 1
        <3>1. n \in 1..c /\ c + 1 \in (n + 1)..(c + 1) /\ longer[n] = items[n]
            BY <1>1, <2>2
        <3>2. f \notin DOMAIN item.expect
            BY <1>1, <3>1
        <3>3. f \in deed.wrote
            BY <1>1, <1>3, <3>1 DEF Plain, Guarded
        <3>4. \A m \in (n + 1)..c : f \notin DOMAIN items[m].expect
            <4> SUFFICES ASSUME NEW m \in (n + 1)..c PROVE f \notin DOMAIN items[m].expect
                OBVIOUS
            <4>1. m \in 1..c /\ m \in (n + 1)..(c + 1)
                BY <1>1, <3>1
            <4>2. QED
                BY <1>1, <4>1
        <3>5. items[n].expect[f] = deed.is[f]
            BY <1>1, <1>3, <3>1, <3>4 DEF Leaves, c
        <3>6. f # Field(step) /\ before[f] = deed.is[f]
            BY <1>2, <3>2, <3>3
        <3>7. f \in Fields
            <4>1. Simple(items[n]) /\ items[n] \in Items
                BY <1>1, <1>3, <3>1 DEF Plain
            <4>2. DOMAIN items[n].expect \subseteq Fields
                BY <4>1, SimpleForms DEF Fields
            <4>3. QED
                BY <3>1, <4>2
        <3>8. Written(before, step)[f] = before[f]
            BY <3>6, <3>7, WritesOneField
        <3>9. QED
            BY <3>1, <3>5, <3>6, <3>8
    <2>3. QED
        BY <2>1, <2>2
<1>7. Plain(longer, more)
    <2>1. longer # <<>>
        BY <1>1
    <2>2. ASSUME NEW n \in 1..(c + 1)
          PROVE  /\ Simple(longer[n])
                 /\ ~Moves(longer[n]) => Head(longer[n].steps) = SetTag(more.was.tag)
                 /\ Moves(longer[n]) /\ (\A m \in 1..(n - 1) : ~Moves(longer[m]))
                       => Head(longer[n].steps) = MoveTo(more.was.status)
        <3>1. CASE n = c + 1
            <4>1. longer[n] = item /\ n - 1 = c
                BY <1>1, <3>1
            <4>2. ~Moves(item) => Head(item.steps) = SetTag(more.was.tag)
                BY <1>2
            <4>3. ~\A m \in 1..(n - 1) : ~Moves(longer[m])
                BY <1>1, <1>4, <4>1
            <4>4. QED
                BY <1>2, <4>1, <4>2, <4>3
        <3>2. CASE n # c + 1
            <4>1. n \in 1..c /\ longer[n] = items[n] /\ \A m \in 1..(n - 1) : longer[m] = items[m]
                BY <1>1, <3>2
            <4>2. QED
                BY <1>1, <1>3, <4>1 DEF Plain
        <3>3. QED
            BY <3>1, <3>2
    <2>3. QED
        BY <1>1, <1>5, <2>1, <2>2 DEF Plain
<1>8. Written(before, step) \in Row
    BY StepForms
<1>9. QED
    BY <1>3, <1>6, <1>7, <1>8 DEF Matches, longer

\* What an entry holds of an idea, if it is all that one action did to it.
Honest(entry) ==
    \A i \in Ideas : ItemsOf(entry, i) # <<>> /\ Whole(entry, i)
        => Matches(ItemsOf(entry, i), entry.deed[i])

\* The ideas of an entry are those that have items in it.
LEMMA IdeasCovered ==
    ASSUME NEW entry, entry.items \in Seq(Items), NEW i
    PROVE  (\E n \in DOMAIN IdeasOf(entry) : IdeasOf(entry)[n] = i) <=> ItemsOf(entry, i) # <<>>
<1> DEFINE items == entry.items
           c == Len(items)
           firsts == {n \in DOMAIN items : \A m \in 1..(n - 1) : items[m].id # items[n].id}
           first == InOrder(firsts)
           S == Places(items, i)
<1>1. c \in Nat /\ DOMAIN items = 1..c
    OBVIOUS
<1>2. IdeasOf(entry) = [n \in DOMAIN first |-> items[first[n]].id]
    BY DEF IdeasOf
<1>3. ItemsOf(entry, i) = <<>> <=> S = {}
    BY ItemsOfPlaces
<1>4. firsts \in SUBSET (1..c)
    BY <1>1
<1>5. IsFiniteSet(firsts) /\ \A m \in firsts : m \in Nat
    <2>1. IsFiniteSet(1..c)
        BY <1>1, FS_Interval
    <2>2. \A m \in 1..c : m \in Nat
        BY <1>1
    <2> HIDE DEF firsts
    <2>3. IsFiniteSet(firsts)
        BY <1>4, <2>1, FS_Subset
    <2>4. QED
        BY <1>4, <2>2, <2>3
<1>6. ASSUME NEW n \in DOMAIN IdeasOf(entry), IdeasOf(entry)[n] = i PROVE S # {}
    <2>1. n \in DOMAIN first /\ items[first[n]].id = i
        BY <1>2, <1>6
    <2>2. first \in Seq(firsts) /\ DOMAIN first = 1..Cardinality(firsts)
        <3> HIDE DEF firsts
        <3>1. QED
            BY <1>5, InOrderRanks
    <2>3. first[n] \in 1..c
        <3> HIDE DEF first, firsts
        <3>1. first[n] \in firsts
            <4>1. \A s \in Seq(firsts) : \A k \in DOMAIN s : s[k] \in firsts
                OBVIOUS
            <4>2. QED
                BY <2>1, <2>2, <4>1
        <3>2. QED
            BY <1>4, <3>1
    <2>4. first[n] \in S
        <3> HIDE DEF first
        <3>1. QED
            BY <1>1, <2>1, <2>3 DEF Places
    <2>5. QED
        BY <2>4
<1>7. ASSUME S # {} PROVE \E n \in DOMAIN IdeasOf(entry) : IdeasOf(entry)[n] = i
    <2>1. S \in SUBSET Nat
        BY PlacesFinite
    <2>2. PICK m \in S : \A k \in S : m <= k
        <3> HIDE DEF S
        <3>1. QED
            BY <1>7, <2>1, LeastNumber
    <2>3. m \in 1..c /\ items[m].id = i
        BY <1>1 DEF Places
    <2>4. \A k \in 1..(m - 1) : items[k].id # i
        <3> SUFFICES ASSUME NEW k \in 1..(m - 1), items[k].id = i PROVE FALSE
            OBVIOUS
        <3>1. k \in 1..c /\ ~(m <= k)
            BY <1>1, <2>3
        <3>2. k \in S
            BY <1>1, <3>1 DEF Places
        <3>3. QED
            BY <2>2, <3>1, <3>2
    <2>5. m \in firsts
        BY <1>1, <2>3, <2>4
    <2>6. PICK n \in DOMAIN first : first[n] = m
        <3> HIDE DEF firsts
        <3>1. QED
            BY <1>5, <2>5, InOrderCovers
    <2> HIDE DEF first
    <2>7. n \in DOMAIN IdeasOf(entry) /\ IdeasOf(entry)[n] = i
        BY <1>2, <2>3, <2>6
    <2>8. QED
        BY <2>7
<1>8. QED
    BY <1>3, <1>6, <1>7

\* The plan of an undo, idea by idea.
LEMMA UndoPlanForms ==
    ASSUME NEW entry, entry.items \in Seq(Items), NEW plan, plan = UndoPlan(entry)
    PROVE  /\ \A i : i \in PlanIds(plan) <=> ItemsOf(entry, i) # <<>>
           /\ \A n \in DOMAIN plan :
                 plan[n].steps = IF Drifted(MergedExpectation(ItemsOf(entry, plan[n].id)),
                                            snapshot.rows[plan[n].id])
                                 THEN <<>>
                                 ELSE Rebound(plan[n].id, ItemsOf(entry, plan[n].id),
                                              snapshot.rows[plan[n].id])
<1> DEFINE order == IdeasOf(entry)
           StepsFor(i) ==
               IF Drifted(MergedExpectation(ItemsOf(entry, i)), snapshot.rows[i])
               THEN <<>> ELSE Rebound(i, ItemsOf(entry, i), snapshot.rows[i])
<1>1. plan = [n \in DOMAIN order |-> Planned(order[n], StepsFor(order[n]))]
    BY DEF UndoPlan
<1> HIDE DEF order
<1>2. \A n \in DOMAIN plan : n \in DOMAIN order /\ plan[n].id = order[n] /\ plan[n].steps = StepsFor(order[n])
    <2> HIDE DEF StepsFor
    <2>1. QED
        BY <1>1 DEF Planned
<1>3. DOMAIN plan = DOMAIN order
    BY <1>1
<1>4. \A i : i \in PlanIds(plan) <=> \E n \in DOMAIN order : order[n] = i
    BY <1>2, <1>3 DEF PlanIds
<1>5. \A i : i \in PlanIds(plan) <=> ItemsOf(entry, i) # <<>>
    BY <1>4, IdeasCovered DEF order
<1>6. \A n \in DOMAIN plan : plan[n].steps = StepsFor(plan[n].id)
    <2> HIDE DEF StepsFor
    <2>1. QED
        BY <1>2
<1>7. QED
    BY <1>5, <1>6

\* What the steps of an undo make of the rows they were planned on.
LEMMA PlanPutsBack ==
    ASSUME NEW entry, entry.items \in Seq(Items), Honest(entry), snapshot.rows \in Boards,
           NEW i \in Ideas, Whole(entry, i), NEW plan, plan = UndoPlan(entry)
    PROVE  /\ \A n \in DOMAIN plan : plan[n].id = i =>
                 Leads(plan[n].steps, 1, snapshot.rows[i], Undone(entry, snapshot.rows[i], i))
           /\ i \notin PlanIds(plan) => Undone(entry, snapshot.rows[i], i) = snapshot.rows[i]
<1> DEFINE items == ItemsOf(entry, i)
           deed == entry.deed[i]
           row == snapshot.rows[i]
           goal == Undone(entry, row, i)
<1>1. /\ i \in PlanIds(plan) <=> items # <<>>
      /\ \A n \in DOMAIN plan : plan[n].id = i =>
            plan[n].steps = IF Drifted(MergedExpectation(items), row) THEN <<>> ELSE Rebound(i, items, row)
    BY UndoPlanForms
<1>2. items \in Seq(Items) /\ row \in Row \cup {Gone}
    BY EntryLists DEF Boards
<1>3. items # <<>> => Matches(items, deed)
    BY DEF Honest
<1>4. goal = IF items # <<>> /\ (\A f \in Guarded(items) : row[f] = deed.is[f])
             THEN PutBack(row, deed) ELSE row
    BY DEF Undone, PutBack
<1>5. \A n \in DOMAIN plan : plan[n].id = i => i \in PlanIds(plan)
    BY DEF PlanIds
<1> HIDE DEF items, deed, row, goal
<1>6. ASSUME NEW n \in DOMAIN plan, plan[n].id = i PROVE Leads(plan[n].steps, 1, row, goal)
    <2>1. items # <<>> /\ Matches(items, deed)
        BY <1>1, <1>3, <1>5, <1>6
    <2>2. Leads(IF Drifted(MergedExpectation(items), row) THEN <<>> ELSE Rebound(i, items, row), 1, row,
                IF \A f \in Guarded(items) : row[f] = deed.is[f] THEN PutBack(row, deed) ELSE row)
        BY <1>2, <2>1, MatchesLeads
    <2>3. goal = IF \A f \in Guarded(items) : row[f] = deed.is[f] THEN PutBack(row, deed) ELSE row
        BY <1>4, <2>1
    <2>4. plan[n].steps = IF Drifted(MergedExpectation(items), row) THEN <<>> ELSE Rebound(i, items, row)
        BY <1>1, <1>6
    <2>5. QED
        BY <2>2, <2>3, <2>4
<1>7. i \notin PlanIds(plan) => goal = row
    BY <1>1, <1>4
<1>8. QED
    BY <1>6, <1>7 DEF row, goal

----------------------------------------------------------------------------
(* What a job knows, so that an undo puts back.                            *)

\* What the undo of an entry, begun on these rows, owes to an idea.
Owed(job, i) == Undone(job.entry, job.start[i], i)

\* The steps still to be posted lead there.
Heads(job, i, steps, k, row) == Whole(job.entry, i) => Leads(steps, k, row, Owed(job, i))

\* An idea of which the undo did not have to say that a post failed.
Clean(result) == result \in {"none", "applied", "skipped"}

\* The undo is done with the idea, and owes it nothing.
Closes(job, report, i, row) == Whole(job.entry, i) /\ Clean(report[i]) => row = Owed(job, i)

\* What a job knows of an idea that it is not at.
Pending(job, i, row) ==
    IF job.kind = "undo"
    THEN /\ \A n \in DOMAIN job.plan :
               job.plan[n].id = i => Heads(job, i, job.plan[n].steps, 1, row)
         /\ i \notin PlanIds(job.plan) => Closes(job, job.report, i, row)
    ELSE i \in PlanIds(job.plan) => job.deed[i] = None

\* What a job that is no undo has done to the idea it is at, before its next verb:
\* nothing, or the first verbs of a round trip.
DeedSoFar(job, step, deed, before, start) ==
    IF step = 1 THEN deed = None /\ before = start
    ELSE /\ job.kind = "tag" /\ deed # None
         /\ deed.was \in Row /\ deed.is \in Row /\ deed.was.status = "archived"
         /\ step = 2 => /\ deed.wrote = {"status"} /\ before = deed.is
                        /\ before.status = "open" /\ before.tag = deed.was.tag
         /\ step = 3 => deed.wrote = Fields /\ before = deed.is
         /\ step = 0 => "status" \in deed.wrote /\ ("tag" \in deed.wrote => before.tag = deed.is.tag)

\* What the idea at work is like, before the next verb.
Poised(job, row) ==
    LET i == Target(job)
    IN  IF job.kind = "undo"
        THEN job.step # 0 => Heads(job, i, Head(job.plan).steps, job.step, row)
        ELSE DeedSoFar(job, job.step, job.deed[i], row, job.start[i])

\* The inverse in hand is that of the verb, on the row it finds.
Captures(job, before) ==
    job.kind # "undo" /\ job.inverse # None =>
        /\ Invertible(before, StepOf(job))
        /\ job.inverse = Planned(Target(job), InverseSteps(Target(job), before, StepOf(job)))

\* What a job knows once its verb is served.
Hears(job, row) ==
    LET i == Target(job)
        before == job.mark.was
    IN  IF job.kind = "undo"
        THEN job.step # 0 /\ job.reply # None => Heads(job, i, Head(job.plan).steps, job.step + 1, row)
        ELSE /\ Poised(job, before) /\ Captures(job, before)
             /\ row = job.mark.is /\ row \in {before, Written(before, StepOf(job))}
             /\ job.reply # None =>
                   before \in Row /\ row = Written(before, StepOf(job)) /\ job.reply.rows[i] = row

\* What a job knows of the idea it is at, and of all of its ideas.
Minds(job, row) ==
    IF job.phase = "posted" THEN Poised(job, row) /\ Captures(job, row) ELSE Hears(job, row)

Mindful(job, board) ==
    /\ Short(job)
    /\ \A i \in Ideas \ job.spoilt :
          IF i = Target(job) THEN Minds(job, board[i]) ELSE Pending(job, i, board[i])

\* What a job remembers from one post to the next.
Remembers(job, next) ==
    /\ next.kind = job.kind /\ next.entry = job.entry /\ next.start = job.start /\ next.deed = job.deed
    /\ job.spoilt \subseteq next.spoilt

\* What a post changes of a job.
LEMMA PostsForms ==
    ASSUME NEW job \in Jobs, NEW shown, NEW quiet, NEW post, post = Posts(job, shown, quiet)
    PROVE  /\ Remembers(job, post) /\ post.phase = "posted" /\ post.step = job.step
           /\ post.plan = job.plan /\ post.report = job.report
           /\ Target(post) = Target(job) /\ StepOf(post) = StepOf(job)
           /\ post.inverse = Captured(job, shown, quiet)
           /\ job.kind # "undo" /\ Target(job) \notin post.spoilt => shown.rows[Target(job)] = rows[Target(job)]
<1> DEFINE captured == Captured(job, shown, quiet)
           differs == job.kind # "undo" /\ shown.rows[Target(job)] # rows[Target(job)]
           spoilt == IF differs THEN job.spoilt \cup {Target(job)} ELSE job.spoilt
<1>1. post = [job EXCEPT !.phase = "posted", !.inverse = captured, !.spoilt = spoilt]
    BY DEF Posts
<1>2. job.spoilt \subseteq spoilt /\ (differs => Target(job) \in spoilt)
    OBVIOUS
<1> HIDE DEF captured, spoilt
<1>3. /\ post.kind = job.kind /\ post.entry = job.entry /\ post.start = job.start
      /\ post.deed = job.deed /\ post.spoilt = spoilt /\ post.phase = "posted" /\ post.step = job.step
      /\ post.plan = job.plan /\ post.report = job.report /\ post.inverse = captured
    BY <1>1 DEF Jobs
<1>4. Target(post) = Target(job) /\ StepOf(post) = StepOf(job)
    BY <1>3 DEF Target, StepOf
<1>5. QED
    BY <1>2, <1>3, <1>4 DEF Remembers, captured

\* A post keeps what the job knows, and captures the inverse of its verb.
LEMMA PostsMindful ==
    ASSUME NEW job \in Jobs, NEW shown, NEW quiet, Short(job),
           \A i \in Ideas \ job.spoilt :
              IF i = Target(job) THEN Poised(job, rows[i]) ELSE Pending(job, i, rows[i]),
           NEW post, post = Posts(job, shown, quiet)
    PROVE  Mindful(post, rows) /\ Remembers(job, post)
<1>1. /\ Remembers(job, post) /\ post.phase = "posted" /\ post.step = job.step
      /\ post.plan = job.plan /\ post.report = job.report
      /\ Target(post) = Target(job) /\ StepOf(post) = StepOf(job)
      /\ post.inverse = Captured(job, shown, quiet)
      /\ job.kind # "undo" /\ Target(job) \notin post.spoilt => shown.rows[Target(job)] = rows[Target(job)]
    BY PostsForms
<1>2. Short(post)
    BY <1>1 DEF Short, Remembers
<1>3. ASSUME NEW i \in Ideas \ post.spoilt
      PROVE  IF i = Target(post) THEN Minds(post, rows[i]) ELSE Pending(post, i, rows[i])
    <2>1. i \in Ideas \ job.spoilt
        BY <1>1 DEF Remembers
    <2>2. CASE i = Target(job)
        <3>1. Poised(post, rows[i])
            BY <1>1, <2>1, <2>2 DEF Poised, Heads, Owed, DeedSoFar, Remembers
        <3>2. ASSUME post.kind # "undo", post.inverse # None
              PROVE  /\ Invertible(rows[i], StepOf(post))
                     /\ post.inverse = Planned(i, InverseSteps(i, rows[i], StepOf(post)))
            <4>1. shown.rows[i] = rows[i]
                BY <1>1, <2>2, <3>2 DEF Remembers
            <4>2. QED
                BY <1>1, <2>2, <3>2, <4>1 DEF Captured
        <3>3. Captures(post, rows[i])
            BY <1>1, <2>2, <3>2 DEF Captures
        <3>4. QED
            BY <1>1, <2>2, <3>1, <3>3 DEF Minds
    <2>3. CASE i # Target(job)
        BY <1>1, <2>1, <2>3 DEF Pending, Heads, Closes, Owed, Remembers
    <2>4. QED
        BY <1>1, <2>2, <2>3
<1>4. QED
    BY <1>1, <1>2, <1>3 DEF Mindful

\* The job goes on at the next idea that has steps.
Skips(job, begun) ==
    /\ begun \in Jobs /\ Remembers(job, begun) /\ begun.spoilt = job.spoilt /\ begun.step = 1
    /\ begun.plan # <<>> /\ OneItemEach(begun.plan) /\ Head(begun.plan).steps # <<>>
    /\ \A n \in DOMAIN begun.plan : \E m \in DOMAIN job.plan : begun.plan[n] = job.plan[m]
    /\ \A i \in Ideas : i \notin PlanIds(begun.plan) =>
          \/ i \notin PlanIds(job.plan) /\ begun.report[i] = job.report[i]
          \/ \E n \in DOMAIN job.plan : job.plan[n].id = i /\ job.plan[n].steps = <<>>

\* A job that proceeds is over, or posts for the next idea that has steps.
LEMMA ProceedsForms ==
    ASSUME NEW job \in Jobs, OneItemEach(job.plan), NEW shown, NEW quiet,
           NEW next, next = Proceeds(job, shown, quiet)
    PROVE  \/ /\ next.phase = "done" /\ next.kind = job.kind
              /\ \A n \in DOMAIN job.plan : job.plan[n].steps = <<>>
              /\ \A i \in Ideas : i \notin PlanIds(job.plan) => next.report[i] = job.report[i]
           \/ \E begun : Skips(job, begun) /\ next = Posts(begun, shown, quiet)
<1> DEFINE todo == {n \in DOMAIN job.plan : job.plan[n].steps # <<>>}
           first == IF todo = {} THEN Len(job.plan) + 1 ELSE Min(todo)
           passed == PassedBefore(job.plan, first)
           report == [i \in Ideas |-> IF i \in passed THEN "skipped" ELSE job.report[i]]
           rest == RestFrom(job.plan, first)
           begun == [job EXCEPT !.step = 1, !.plan = rest, !.report = report]
<1>1. next = IF todo = {} THEN Over(begun) ELSE Posts(begun, shown, quiet)
    BY DEF Proceeds, RestFrom, PassedBefore
<1>2. /\ job.plan \in Seq(PlanItems) /\ job.report \in [Ideas -> Results]
      /\ Len(job.plan) \in Nat /\ DOMAIN job.plan = 1..Len(job.plan)
    BY JobTyped
<1>3. report \in [Ideas -> Results]
    BY <1>2 DEF Results
<1>4. \A i \in Ideas : report[i] = IF i \in passed THEN "skipped" ELSE job.report[i]
    OBVIOUS
<1>5. CASE todo = {}
    <2>1. first = Len(job.plan) + 1 /\ first - 1 = Len(job.plan)
        BY <1>2, <1>5
    <2>2. passed = PlanIds(job.plan)
        BY <1>2, <2>1 DEF PlanIds, PassedBefore
    <2>3. rest \in Seq(PlanItems)
        <3>1. SubSeq(job.plan, Len(job.plan) + 1, Len(job.plan)) \in Seq(PlanItems)
            BY <1>2, SubSeqProperties
        <3>2. QED
            BY <2>1, <3>1 DEF RestFrom
    <2>4. \A n \in DOMAIN job.plan : job.plan[n].steps = <<>>
        BY <1>5
    <2> HIDE DEF rest, report, passed, todo, first
    <2>5. begun \in Jobs /\ begun.kind = job.kind /\ begun.report = report
        BY <1>2, <1>3, <2>3 DEF Jobs
    <2> HIDE DEF begun
    <2>6. next = Over(begun)
        BY <1>1, <1>5
    <2>7. next.phase = "done" /\ next.kind = job.kind /\ next.report = report
        BY <2>5, <2>6, OverTyped
    <2>8. QED
        BY <1>4, <2>2, <2>4, <2>7
<1>6. CASE todo # {}
    <2>1. first \in todo /\ first \in DOMAIN job.plan /\ job.plan[first].steps # <<>>
          /\ \A n \in todo : first <= n
        <3>1. todo \in SUBSET Nat
            BY <1>2
        <3>2. \E m \in todo : \A k \in todo : m <= k
            <4> HIDE DEF todo
            <4>1. QED
                BY <1>6, <3>1, LeastNumber
        <3>3. Min(todo) \in todo /\ \A n \in todo : Min(todo) <= n
            <4> HIDE DEF todo
            <4>1. QED
                BY <3>2 DEF Min
        <3>4. QED
            BY <1>6, <3>3
    <2>2. \A n \in 1..(first - 1) : n \in DOMAIN job.plan /\ job.plan[n].steps = <<>>
        <3> SUFFICES ASSUME NEW n \in 1..(first - 1) PROVE n \in DOMAIN job.plan /\ n \notin todo
            OBVIOUS
        <3> HIDE DEF todo, first
        <3>1. QED
            BY <1>2, <2>1
    <2> HIDE DEF todo, first
    <2>3. /\ rest \in Seq(PlanItems) /\ rest # <<>> /\ Head(rest) = job.plan[first]
          /\ OneItemEach(rest)
          /\ \A i : i \in PlanIds(rest) <=> i \in PlanIds(job.plan) /\ i \notin passed
          /\ \A n \in DOMAIN rest : \E m \in DOMAIN job.plan : rest[n] = job.plan[m]
          /\ passed \subseteq PlanIds(job.plan)
        BY <1>2, <2>1, PlanRest
    <2>4. \A i \in passed : \E n \in DOMAIN job.plan : job.plan[n].id = i /\ job.plan[n].steps = <<>>
        BY <2>2 DEF PassedBefore
    <2> HIDE DEF rest, passed, report
    <2>5. /\ begun \in Jobs /\ begun.kind = job.kind /\ begun.report = report /\ begun.step = 1
          /\ begun.plan = rest /\ begun.start = job.start /\ begun.spoilt = job.spoilt
          /\ begun.entry = job.entry /\ begun.deed = job.deed
        BY <1>2, <1>3, <2>3 DEF Jobs
    <2> HIDE DEF begun
    <2>6. \A i \in Ideas : i \notin PlanIds(begun.plan) =>
             \/ i \notin PlanIds(job.plan) /\ begun.report[i] = job.report[i]
             \/ \E n \in DOMAIN job.plan : job.plan[n].id = i /\ job.plan[n].steps = <<>>
        BY <1>4, <2>3, <2>4, <2>5
    <2>7. Skips(job, begun)
        BY <2>1, <2>3, <2>5, <2>6 DEF Skips, Remembers
    <2>8. next = Posts(begun, shown, quiet)
        BY <1>1, <1>6
    <2>9. QED
        BY <2>7, <2>8
<1>7. QED
    BY <1>5, <1>6

\* What becomes of a job at work: it knows what it knew, or an undo has kept its word.
LivesOn(job, next) ==
    /\ next.phase = "posted" => Mindful(next, rows) /\ Remembers(job, next)
    /\ next.phase = "done" /\ job.kind = "undo" =>
          \A i \in Ideas \ job.spoilt : Closes(job, next.report, i, rows[i])

\* Between two ideas: what is known of the others is known still.
LEMMA ProceedsMindful ==
    ASSUME NEW job \in Jobs, OneItemEach(job.plan), Short(job), NEW shown, NEW quiet,
           \A i \in Ideas \ job.spoilt :
              Pending(job, i, rows[i]) /\ (i \in PlanIds(job.plan) => rows[i] = job.start[i]),
           NEW next, next = Proceeds(job, shown, quiet)
    PROVE  LivesOn(job, next)
<1>1. ASSUME NEW i \in Ideas \ job.spoilt, NEW n \in DOMAIN job.plan, job.plan[n].id = i,
             job.plan[n].steps = <<>>, job.kind = "undo", Whole(job.entry, i)
      PROVE  rows[i] = Owed(job, i)
    <2>1. Leads(<<>>, 1, rows[i], Owed(job, i))
        BY <1>1 DEF Pending, Heads
    <2>2. <<>> \in Seq(Steps) /\ Len(<<>>) + 1 = 1
        OBVIOUS
    <2>3. Leads(<<>>, Len(<<>>) + 1, rows[i], Owed(job, i))
        BY <2>1, <2>2
    <2>4. QED
        BY <2>2, <2>3, LeadsThere
<1>2. CASE /\ next.phase = "done" /\ next.kind = job.kind
           /\ \A n \in DOMAIN job.plan : job.plan[n].steps = <<>>
           /\ \A i \in Ideas : i \notin PlanIds(job.plan) => next.report[i] = job.report[i]
    <2>1. ASSUME job.kind = "undo", NEW i \in Ideas \ job.spoilt PROVE Closes(job, next.report, i, rows[i])
        <3>1. CASE i \in PlanIds(job.plan)
            <4>1. PICK n \in DOMAIN job.plan : job.plan[n].id = i
                BY <3>1 DEF PlanIds
            <4>2. QED
                BY <1>1, <1>2, <2>1, <4>1 DEF Closes
        <3>2. CASE i \notin PlanIds(job.plan)
            BY <1>2, <2>1, <3>2 DEF Pending, Closes
        <3>3. QED
            BY <3>1, <3>2
    <2>2. QED
        BY <1>2, <2>1 DEF LivesOn
<1>3. ASSUME NEW begun, Skips(job, begun), next = Posts(begun, shown, quiet)
      PROVE  Mindful(next, rows) /\ Remembers(job, next) /\ next.phase = "posted"
    <2>1. /\ begun \in Jobs /\ Remembers(job, begun) /\ begun.spoilt = job.spoilt /\ begun.step = 1
          /\ begun.plan \in Seq(PlanItems) /\ begun.plan # <<>> /\ OneItemEach(begun.plan)
          /\ \A n \in DOMAIN begun.plan : \E m \in DOMAIN job.plan : begun.plan[n] = job.plan[m]
        BY <1>3, JobTyped DEF Skips
    <2>2. Short(begun)
        BY <2>1 DEF Short, Remembers
    <2>3. Head(begun.plan) = begun.plan[1] /\ 1 \in DOMAIN begun.plan /\ Target(begun) \in PlanIds(begun.plan)
        BY <2>1, PlanHead DEF Target
    <2>4. PlanIds(begun.plan) \subseteq PlanIds(job.plan)
        BY <2>1 DEF PlanIds
    <2>5. ASSUME NEW i \in Ideas \ begun.spoilt
          PROVE  IF i = Target(begun) THEN Poised(begun, rows[i]) ELSE Pending(begun, i, rows[i])
        <3>1. i \in Ideas \ job.spoilt /\ Pending(job, i, rows[i])
            BY <2>1
        <3>2. CASE job.kind = "undo"
            <4>1. \A n \in DOMAIN begun.plan : begun.plan[n].id = i => Heads(begun, i, begun.plan[n].steps, 1, rows[i])
                BY <2>1, <3>1, <3>2 DEF Pending, Heads, Owed, Remembers
            <4>2. ASSUME i \notin PlanIds(begun.plan) PROVE Closes(begun, begun.report, i, rows[i])
                <5>1. CASE i \notin PlanIds(job.plan) /\ begun.report[i] = job.report[i]
                    BY <2>1, <3>1, <3>2, <5>1 DEF Pending, Closes, Owed, Remembers
                <5>2. CASE \E n \in DOMAIN job.plan : job.plan[n].id = i /\ job.plan[n].steps = <<>>
                    <6>1. Whole(job.entry, i) => rows[i] = Owed(job, i)
                        BY <1>1, <3>1, <3>2, <5>2
                    <6>2. QED
                        BY <2>1, <6>1 DEF Closes, Owed, Remembers
                <5>3. QED
                    BY <1>3, <3>1, <4>2, <5>1, <5>2 DEF Skips
            <4>3. i = Target(begun) => Heads(begun, i, Head(begun.plan).steps, 1, rows[i])
                BY <2>3, <4>1 DEF Target
            <4>4. QED
                BY <2>1, <3>2, <4>1, <4>2, <4>3 DEF Pending, Poised, Remembers
        <3>3. CASE job.kind # "undo"
            <4>1. i \in PlanIds(begun.plan) => begun.deed[i] = None
                BY <2>1, <2>4, <3>1, <3>3 DEF Pending, Remembers
            <4>2. i \in PlanIds(begun.plan) => rows[i] = begun.start[i]
                BY <2>1, <2>4, <3>1 DEF Remembers
            <4>3. QED
                BY <2>1, <2>3, <3>3, <4>1, <4>2 DEF Pending, Poised, DeedSoFar, Remembers
        <3>4. QED
            BY <3>2, <3>3
    <2>6. Mindful(next, rows) /\ Remembers(begun, next) /\ next.phase = "posted"
        BY <1>3, <2>1, <2>2, <2>5, PostsMindful, PostsForms
    <2>7. QED
        BY <2>1, <2>6 DEF Remembers
<1>4. QED
    BY <1>2, <1>3, ProceedsForms DEF LivesOn

\* The idea at work is settled.
LEMMA SettlesMindful ==
    ASSUME NEW job, AtWork(job), Short(job), NEW shown, NEW quiet, NEW result \in Results,
           \A i \in Ideas \ job.spoilt : i # Target(job) => Pending(job, i, rows[i]),
           job.kind = "undo" /\ Clean(result) /\ Target(job) \notin job.spoilt
               /\ Whole(job.entry, Target(job)) => rows[Target(job)] = Owed(job, Target(job)),
           NEW next, next = Settles(job, result, shown, quiet)
    PROVE  LivesOn(job, next)
<1> DEFINE target == Target(job)
           ahead == [job EXCEPT !.report[target] = result, !.plan = Tail(@)]
<1>1. /\ job \in Jobs /\ job.plan \in Seq(PlanItems) /\ job.plan # <<>> /\ OneItemEach(job.plan)
      /\ job.report \in [Ideas -> Results]
    BY JobTyped DEF AtWork, Planful
<1>2. /\ target \in Ideas /\ target \in PlanIds(job.plan)
      /\ Tail(job.plan) \in Seq(PlanItems) /\ OneItemEach(Tail(job.plan))
      /\ \A i : i \in PlanIds(Tail(job.plan)) <=> i \in PlanIds(job.plan) /\ i # target
      /\ \A n \in DOMAIN Tail(job.plan) : n + 1 \in DOMAIN job.plan /\ Tail(job.plan)[n] = job.plan[n + 1]
    BY <1>1, PlanHead DEF Target
<1>3. next = Proceeds(ahead, shown, quiet)
    BY DEF Settles
<1>4. ASSUME NEW i \in Ideas \ job.spoilt, i # target
      PROVE  Pending(job, i, rows[i]) /\ (i \in PlanIds(job.plan) => rows[i] = job.start[i])
    BY <1>4 DEF AtWork, Settled
<1>5. job.kind = "undo" /\ Clean(result) /\ target \notin job.spoilt /\ Whole(job.entry, target)
          => rows[target] = Owed(job, target)
    OBVIOUS
<1> HIDE DEF target
<1>6. /\ ahead \in Jobs /\ ahead.kind = job.kind /\ ahead.plan = Tail(job.plan)
      /\ ahead.report = [job.report EXCEPT ![target] = result]
      /\ ahead.start = job.start /\ ahead.spoilt = job.spoilt /\ ahead.entry = job.entry
      /\ ahead.deed = job.deed
    BY <1>1, <1>2 DEF Jobs
<1> HIDE DEF ahead
<1>7. /\ ahead.report[target] = result
      /\ \A i \in Ideas : i # target => ahead.report[i] = job.report[i]
    BY <1>1, <1>2, <1>6
<1>8. Short(ahead) /\ Remembers(job, ahead)
    BY <1>2, <1>6 DEF Short, Remembers
<1>9. ASSUME NEW i \in Ideas \ ahead.spoilt
      PROVE  Pending(ahead, i, rows[i]) /\ (i \in PlanIds(ahead.plan) => rows[i] = ahead.start[i])
    <2>1. CASE i = target
        <3>1. i \notin PlanIds(ahead.plan)
            BY <1>2, <1>6, <2>1
        <3>2. \A n \in DOMAIN ahead.plan : ahead.plan[n].id # i
            BY <3>1 DEF PlanIds
        <3>3. Closes(ahead, ahead.report, i, rows[i]) \/ ahead.kind # "undo"
            BY <1>5, <1>6, <1>7, <2>1 DEF Closes, Owed
        <3>4. QED
            BY <3>1, <3>2, <3>3 DEF Pending
    <2>2. CASE i # target
        <3>1. Pending(job, i, rows[i]) /\ (i \in PlanIds(job.plan) => rows[i] = job.start[i])
            BY <1>4, <1>6, <2>2
        <3>2. i \in PlanIds(ahead.plan) <=> i \in PlanIds(job.plan)
            BY <1>2, <1>6, <2>2
        <3>3. CASE job.kind = "undo"
            <4>1. \A n \in DOMAIN ahead.plan : ahead.plan[n].id = i
                      => Heads(ahead, i, ahead.plan[n].steps, 1, rows[i])
                BY <1>2, <1>6, <3>1, <3>3 DEF Pending, Heads, Owed
            <4>2. i \notin PlanIds(ahead.plan) => Closes(ahead, ahead.report, i, rows[i])
                BY <1>6, <1>7, <2>2, <3>1, <3>2, <3>3 DEF Pending, Closes, Owed
            <4>3. QED
                BY <1>6, <3>1, <3>2, <3>3, <4>1, <4>2 DEF Pending
        <3>4. CASE job.kind # "undo"
            BY <1>6, <3>1, <3>2, <3>4 DEF Pending
        <3>5. QED
            BY <3>3, <3>4
    <2>3. QED
        BY <2>1, <2>2
<1>10. OneItemEach(ahead.plan)
    BY <1>2, <1>6
<1>11. LivesOn(ahead, next)
    BY <1>3, <1>6, <1>8, <1>9, <1>10, ProceedsMindful
<1>12. QED
    BY <1>6, <1>8, <1>11 DEF LivesOn, Remembers, Closes, Owed

\* The same for a job that posts another verb for the idea it is at.
LEMMA AnotherPostMindful ==
    ASSUME NEW job, AtWork(job), Short(job), NEW shown, NEW quiet, NEW step \in Nat,
           \A i \in Ideas \ job.spoilt : i # Target(job) => Pending(job, i, rows[i]),
           Target(job) \notin job.spoilt =>
              IF job.kind = "undo"
              THEN step # 0 => Heads(job, Target(job), Head(job.plan).steps, step, rows[Target(job)])
              ELSE DeedSoFar(job, step, job.deed[Target(job)], rows[Target(job)], job.start[Target(job)]),
           NEW moved, moved = [job EXCEPT !.step = step],
           NEW next, next = Posts(moved, shown, quiet)
    PROVE  LivesOn(job, next)
<1>1. job \in Jobs
    BY DEF AtWork, Planful
<1>2. /\ moved \in Jobs /\ moved.step = step /\ moved.plan = job.plan /\ moved.kind = job.kind
      /\ moved.entry = job.entry /\ moved.start = job.start /\ moved.deed = job.deed
      /\ moved.spoilt = job.spoilt /\ moved.report = job.report
    BY <1>1 DEF Jobs
<1>3. Target(moved) = Target(job) /\ Short(moved) /\ Remembers(job, moved)
    BY <1>2 DEF Target, Short, Remembers
<1>4. ASSUME NEW i \in Ideas \ moved.spoilt
      PROVE  IF i = Target(moved) THEN Poised(moved, rows[i]) ELSE Pending(moved, i, rows[i])
    <2>1. CASE i = Target(job)
        <3>1. IF job.kind = "undo" THEN step # 0 => Heads(job, i, Head(job.plan).steps, step, rows[i])
              ELSE DeedSoFar(job, step, job.deed[i], rows[i], job.start[i])
            BY <1>2, <2>1
        <3>2. QED
            BY <1>2, <1>3, <2>1, <3>1 DEF Poised, DeedSoFar, Heads, Owed
    <2>2. CASE i # Target(job)
        <3>1. Pending(job, i, rows[i])
            BY <1>2, <2>2
        <3>2. QED
            BY <1>2, <1>3, <2>2, <3>1 DEF Pending, Heads, Closes, Owed
    <2>3. QED
        BY <2>1, <2>2
<1>5. Mindful(next, rows) /\ Remembers(moved, next) /\ next.phase = "posted"
    <2>1. Mindful(next, rows) /\ Remembers(moved, next)
        BY <1>2, <1>3, <1>4, PostsMindful
    <2>2. next.phase = "posted"
        BY <1>2, PostsForms
    <2>3. QED
        BY <2>1, <2>2
<1>6. QED
    BY <1>3, <1>5 DEF LivesOn, Remembers

\* What the idea at work is like when its verb is answered.
Ripe(job, row) ==
    IF job.kind = "undo"
    THEN job.step # 0 => Heads(job, Target(job), Head(job.plan).steps, job.step + 1, row)
    ELSE ~AtLast(job) =>
            DeedSoFar(job, job.step + 1, job.deed[Target(job)], row, job.start[Target(job)])

\* After an answer, the next verb, the next idea, or the end.
LEMMA ContinuesMindful ==
    ASSUME NEW job, AtWork(job), Short(job), NEW shown, NEW quiet,
           \A i \in Ideas \ job.spoilt : i # Target(job) => Pending(job, i, rows[i]),
           Target(job) \notin job.spoilt => Ripe(job, rows[Target(job)]),
           NEW next, next = Continues(job, shown, quiet)
    PROVE  LivesOn(job, next)
<1> DEFINE c == Len(Head(job.plan).steps)
<1>1. c \in Nat /\ c > 0 /\ job.step \in Nat /\ job.step \in 0..c /\ Head(job.plan).steps \in Seq(Steps)
    <2>1. Len(Head(job.plan).steps) \in Nat /\ Len(Head(job.plan).steps) > 0 /\ job.step \in Nat
        BY RunForms
    <2>2. Head(job.plan).steps \in Seq(Steps)
        BY JobTyped, PlanHead DEF AtWork, Planful
    <2>3. QED
        BY <2>1, <2>2 DEF AtWork
<1>2. {"rearchived", "applied"} \subseteq Results
    BY DEF Results
<1>3. CASE job.step = 0
    <2>1. next = Settles(job, "rearchived", shown, quiet)
        BY <1>1, <1>3 DEF Continues
    <2>2. ~Clean("rearchived")
        BY DEF Clean
    <2>3. QED
        BY <1>2, <2>1, <2>2, SettlesMindful
<1>4. CASE job.step # 0 /\ job.step = c
    <2>1. next = Settles(job, "applied", shown, quiet)
        <3>1. job.step # 0 /\ job.step = Len(Head(job.plan).steps)
            BY <1>4
        <3>2. Continues(job, shown, quiet) = Settles(job, "applied", shown, quiet)
            BY ONLY <3>1 DEF Continues
        <3>3. QED
            BY <3>2
    <2>2. ASSUME job.kind = "undo", Target(job) \notin job.spoilt, Whole(job.entry, Target(job))
          PROVE  rows[Target(job)] = Owed(job, Target(job))
        <3>1. Leads(Head(job.plan).steps, Len(Head(job.plan).steps) + 1, rows[Target(job)], Owed(job, Target(job)))
            BY <1>4, <2>2 DEF Ripe, Heads
        <3>2. QED
            BY <1>1, <3>1, LeadsThere
    <2>3. QED
        BY <1>2, <2>1, <2>2, SettlesMindful
<1>5. CASE job.step # 0 /\ job.step # c
    <2> DEFINE step == job.step + 1
               moved == [job EXCEPT !.step = step]
    <2>1. step \in Nat /\ step # 0 /\ ~AtLast(job)
        BY <1>1, <1>5 DEF AtLast
    <2>2. next = Posts(moved, shown, quiet)
        BY <1>5 DEF Continues
    <2>3. Target(job) \notin job.spoilt =>
              IF job.kind = "undo"
              THEN step # 0 => Heads(job, Target(job), Head(job.plan).steps, step, rows[Target(job)])
              ELSE DeedSoFar(job, step, job.deed[Target(job)], rows[Target(job)], job.start[Target(job)])
        BY <1>5, <2>1 DEF Ripe
    <2>4. moved = [job EXCEPT !.step = step]
        OBVIOUS
    <2> HIDE DEF step, moved
    <2>5. QED
        BY <2>1, <2>2, <2>3, <2>4, AnotherPostMindful
<1>6. QED
    BY <1>3, <1>4, <1>5

\* The same after an error.
LEMMA RecoversMindful ==
    ASSUME NEW job, AtWork(job), Short(job), NEW shown, NEW quiet,
           \A i \in Ideas \ job.spoilt : i # Target(job) => Pending(job, i, rows[i]),
           Target(job) \notin job.spoilt /\ job.kind # "undo" /\ ~PastHelp(job) =>
              DeedSoFar(job, 0, job.deed[Target(job)], rows[Target(job)], job.start[Target(job)]),
           NEW next, next = Recovers(job, shown, quiet)
    PROVE  LivesOn(job, next)
<1>1. CASE PastHelp(job)
    <2>1. next = Settles(job, "leftOpen", shown, quiet) \/ next = Settles(job, "failed", shown, quiet)
        BY <1>1 DEF PastHelp, Recovers
    <2>2. ~Clean("leftOpen") /\ ~Clean("failed") /\ {"leftOpen", "failed"} \subseteq Results
        BY DEF Clean, Results
    <2>3. QED
        BY <2>1, <2>2, SettlesMindful
<1>2. CASE ~PastHelp(job)
    <2> DEFINE moved == [job EXCEPT !.step = 0]
    <2>1. next = Posts(moved, shown, quiet)
        BY <1>2 DEF PastHelp, Recovers
    <2>2. Target(job) \notin job.spoilt =>
              IF job.kind = "undo"
              THEN 0 # 0 => Heads(job, Target(job), Head(job.plan).steps, 0, rows[Target(job)])
              ELSE DeedSoFar(job, 0, job.deed[Target(job)], rows[Target(job)], job.start[Target(job)])
        BY <1>2
    <2>3. moved = [job EXCEPT !.step = 0] /\ 0 \in Nat
        OBVIOUS
    <2> HIDE DEF moved
    <2>4. QED
        BY <2>1, <2>2, <2>3, AnotherPostMindful
<1>3. QED
    BY <1>1, <1>2

\* What a job is known to have done, once it hears of a verb.
DeedDone(job) ==
    LET deed == job.deed[Target(job)]
    IN  IF deed = None
        THEN [was |-> job.mark.was, is |-> job.mark.is, wrote |-> {Field(StepOf(job))},
              noted |-> Keeps(job)]
        ELSE [was |-> deed.was, is |-> job.mark.is, wrote |-> deed.wrote \cup {Field(StepOf(job))},
              noted |-> deed.noted /\ Keeps(job)]

\* The deed of the idea at work, once its verb is answered.
LEMMA DeedChanged ==
    ASSUME NEW old \in KnownDeeds, NEW is, NEW wrote, NEW noted
    PROVE  [old EXCEPT !.is = is, !.wrote = wrote, !.noted = noted]
               = [was |-> old.was, is |-> is, wrote |-> wrote, noted |-> noted]
<1> DEFINE names == {"was", "is", "wrote", "noted"}
           new == [old EXCEPT !.is = is, !.wrote = wrote, !.noted = noted]
           same == [was |-> old.was, is |-> is, wrote |-> wrote, noted |-> noted]
<1>1. DOMAIN old = names /\ new = [f \in DOMAIN old |-> new[f]]
    BY DEF KnownDeeds
<1>2. \A f \in names : new[f] = same[f]
    <2>1. new.was = old.was /\ new.is = is /\ new.wrote = wrote
        BY <1>1
    <2>2. new.noted = noted
        BY <1>1
    <2>3. same.was = old.was /\ same.is = is /\ same.wrote = wrote /\ same.noted = noted
        OBVIOUS
    <2> HIDE DEF new, same
    <2>4. QED
        BY <2>1, <2>2, <2>3
<1>3. same = [f \in names |-> same[f]]
    OBVIOUS
<1> HIDE DEF names, new, same
<1>4. new = same
    BY <1>1, <1>2, <1>3
<1>5. QED
    BY <1>4 DEF new, same

LEMMA DoneForms ==
    ASSUME NEW job \in Jobs, Target(job) \in Ideas, NEW done, done = Done(job)
    PROVE  /\ done.deed[Target(job)] = DeedDone(job)
           /\ \A i \in Ideas : i # Target(job) => done.deed[i] = job.deed[i]
           /\ done.kind = job.kind /\ done.plan = job.plan /\ done.step = job.step
           /\ done.entry = job.entry /\ done.start = job.start /\ done.spoilt = job.spoilt
           /\ done.report = job.report
<1> DEFINE i == Target(job)
           old == job.deed[i]
           new == IF old = None
                  THEN [was |-> job.mark.was, is |-> job.mark.is, wrote |-> {Field(StepOf(job))},
                        noted |-> Keeps(job)]
                  ELSE [old EXCEPT !.is = job.mark.is, !.wrote = @ \cup {Field(StepOf(job))},
                                   !.noted = @ /\ Keeps(job)]
<1>1. done = [job EXCEPT !.deed[i] = new]
    BY DEF Done
<1>2. job.deed \in [Ideas -> Deeds] /\ i \in Ideas
    BY JobTyped
<1>3. new = DeedDone(job)
    <2>1. CASE old = None
        BY <2>1 DEF DeedDone
    <2>2. CASE old # None
        <3>1. old \in KnownDeeds
            BY <1>2, <2>2 DEF Deeds
        <3>2. DeedDone(job) = [was |-> old.was, is |-> job.mark.is, wrote |-> old.wrote \cup {Field(StepOf(job))},
                               noted |-> old.noted /\ Keeps(job)]
            BY <2>2 DEF DeedDone
        <3>3. new = [old EXCEPT !.is = job.mark.is, !.wrote = @ \cup {Field(StepOf(job))},
                                !.noted = @ /\ Keeps(job)]
            BY <2>2
        <3> HIDE DEF old, new
        <3>4. \A wrote, noted :
                 [old EXCEPT !.is = job.mark.is, !.wrote = wrote, !.noted = noted]
                    = [was |-> old.was, is |-> job.mark.is, wrote |-> wrote, noted |-> noted]
            BY <3>1, DeedChanged
        <3>5. PICK wrote, noted : wrote = old.wrote \cup {Field(StepOf(job))}
                                  /\ noted = (old.noted /\ Keeps(job))
            OBVIOUS
        <3>6. new = [old EXCEPT !.is = job.mark.is, !.wrote = wrote, !.noted = noted]
            BY <3>3, <3>5
        <3>7. DeedDone(job) = [was |-> old.was, is |-> job.mark.is, wrote |-> wrote, noted |-> noted]
            BY <3>2, <3>5
        <3>8. QED
            BY <3>4, <3>6, <3>7
    <2>3. QED
        BY <2>1, <2>2
<1> HIDE DEF new, i
<1>4. /\ done.deed = [job.deed EXCEPT ![i] = new]
      /\ done.kind = job.kind /\ done.plan = job.plan /\ done.step = job.step
      /\ done.entry = job.entry /\ done.start = job.start /\ done.spoilt = job.spoilt
      /\ done.report = job.report
    BY <1>1 DEF Jobs
<1>5. done.deed[i] = new /\ \A k \in Ideas : k # i => done.deed[k] = job.deed[k]
    BY <1>2, <1>4
<1>6. QED
    BY <1>3, <1>4, <1>5 DEF i

LEMMA DeedDoneKnown ==
    ASSUME NEW job \in Jobs, Target(job) \in Ideas, StepOf(job) \in Steps, job.mark \in Marks
    PROVE  DeedDone(job) \in KnownDeeds /\ DeedDone(job) # None
<1> DEFINE deed == job.deed[Target(job)]
<1>1. Keeps(job) \in BOOLEAN
    BY DEF Keeps
<1>2. Field(StepOf(job)) \in Fields
    BY StepForms
<1>3. job.mark.was \in Row \cup {Gone} /\ job.mark.is \in Row \cup {Gone}
    BY DEF Marks
<1>4. DeedDone(job) \in KnownDeeds
    <2>1. CASE deed = None
        BY <1>1, <1>2, <1>3, <2>1 DEF DeedDone, KnownDeeds, Fields
    <2>2. CASE deed # None
        <3>1. deed \in KnownDeeds
            BY <2>2, JobTyped DEF Deeds
        <3>2. QED
            BY <1>1, <1>2, <1>3, <2>2, <3>1 DEF DeedDone, KnownDeeds, Fields
    <2>3. QED
        BY <2>1, <2>2
<1>5. QED
    BY <1>4, NoneAssumption

\* The verb in hand of a run that has another one after it.
LEMMA MiddleOfTrip ==
    ASSUME NEW job, Sound(job, rows), Short(job), Target(job) \notin job.spoilt,
           job.kind # "undo", ~AtLast(job)
    PROVE  /\ job.kind = "tag" /\ job.step \in {1, 2} /\ Head(job.plan).round
           /\ job.start[Target(job)].status = "archived"
           /\ job.step = 1 => StepOf(job) = Restore
           /\ job.step = 2 => StepOf(job) = SetTag("tagged")
<1> DEFINE item == Head(job.plan)
           c == Len(item.steps)
<1>1. AtWork(job) /\ job \in Jobs /\ job.plan \in Seq(PlanItems) /\ job.plan # <<>> /\ OneItemEach(job.plan)
    BY SoundIsAtWork, JobTyped DEF Sound, Planful
<1>2. /\ c \in Nat /\ job.step \in Nat /\ job.step \in 0..c
      /\ item = job.plan[1] /\ 1 \in DOMAIN job.plan
    BY <1>1, RunForms, PlanHead DEF AtWork
<1>3. job.step # 0 /\ job.step # c
    BY DEF AtLast
<1>4. StepOf(job) = item.steps[job.step]
    BY <1>3 DEF StepOf
<1>5. job.kind = "tag" =>
         \/ ~item.round /\ c = 1 /\ item.steps[1] = SetTag("tagged")
         \/ /\ item.round /\ c = 3
            /\ item.steps[1] = Restore /\ item.steps[2] = SetTag("tagged")
            /\ job.start[Target(job)].status = "archived"
    BY <1>1, RunForms
<1>6. job.kind # "tag" => c <= 1
    BY <1>2 DEF Short
<1> HIDE DEF item, c
<1>7. c > 1
    BY <1>2, <1>3
<1>8. job.kind = "tag" /\ c = 3
    BY <1>2, <1>5, <1>6, <1>7
<1>9. job.step \in {1, 2}
    BY <1>2, <1>3, <1>8
<1>10. QED
    BY <1>4, <1>5, <1>8, <1>9 DEF item

\* A verb that is answered ripens the idea for what comes next.
LEMMA AnswerRipens ==
    ASSUME NEW job, Sound(job, rows), Mindful(job, rows), job.phase = "served", job.reply # None,
           Target(job) \notin job.spoilt, NEW done \in Jobs, done = Done(job),
           NEW other, other = [done EXCEPT !.reply = None, !.mark = None]
    PROVE  Ripe(other, rows[Target(job)])
<1> DEFINE i == Target(job)
           row == rows[i]
           before == job.mark.was
           deed == job.deed[i]
<1>1. job \in Jobs /\ i \in Ideas /\ StepOf(job) \in Steps
    BY SoundIsAtWork
<1>2. /\ done.deed[i] = DeedDone(job)
      /\ done.kind = job.kind /\ done.plan = job.plan /\ done.step = job.step
      /\ done.entry = job.entry /\ done.start = job.start
    BY <1>1, DoneForms
<1>3. /\ other.deed[i] = DeedDone(job)
      /\ other.kind = job.kind /\ other.plan = job.plan /\ other.step = job.step
      /\ other.entry = job.entry /\ other.start = job.start
    <2>1. /\ other.deed = done.deed /\ other.kind = done.kind /\ other.plan = done.plan
          /\ other.step = done.step /\ other.entry = done.entry /\ other.start = done.start
        BY DEF Jobs
    <2>2. QED
        BY <1>2, <2>1
<1>4. Target(other) = i /\ (AtLast(other) <=> AtLast(job))
    BY <1>3 DEF Target, AtLast
<1>5. Hears(job, row) /\ Short(job)
    BY <1>1 DEF Mindful, Minds
<1>6. CASE job.kind = "undo"
    BY <1>3, <1>4, <1>5, <1>6 DEF Ripe, Hears, Heads, Owed
<1>7. CASE job.kind # "undo"
    <2> SUFFICES ASSUME ~AtLast(job) PROVE DeedSoFar(other, job.step + 1, other.deed[i], row, other.start[i])
        BY <1>3, <1>4, <1>7 DEF Ripe
    <2>1. /\ job.kind = "tag" /\ job.step \in {1, 2}
          /\ job.start[i].status = "archived"
          /\ job.step = 1 => StepOf(job) = Restore
          /\ job.step = 2 => StepOf(job) = SetTag("tagged")
        BY <1>5, <1>7, MiddleOfTrip
    <2>2. /\ DeedSoFar(job, job.step, deed, before, job.start[i])
          /\ before \in Row /\ row = Written(before, StepOf(job)) /\ row = job.mark.is
        BY <1>5, <1>7 DEF Hears, Poised
    <2>3. row \in Row
        BY <1>1, <2>2, StepForms
    <2>4. DeedDone(job) # None
        BY <1>1, DeedDoneKnown, SoundIsAtWork
    <2>5. CASE job.step = 1
        <3>1. deed = None /\ before = job.start[i] /\ StepOf(job) = Restore
            BY <2>1, <2>2, <2>5 DEF DeedSoFar
        <3>2. row = [status |-> "open", tag |-> before.tag]
            BY <2>2, <3>1, RowFields
        <3>3. PICK new : new = DeedDone(job)
            OBVIOUS
        <3>4. new # None /\ new.was = before /\ new.is = row /\ new.wrote = {"status"}
            BY <2>2, <2>4, <3>1, <3>3, FieldForms DEF DeedDone
        <3>5. DeedSoFar(other, 2, new, row, other.start[i])
            BY <1>3, <2>1, <2>2, <2>3, <3>1, <3>2, <3>4 DEF DeedSoFar
        <3>6. QED
            BY <1>3, <2>5, <3>3, <3>5
    <2>6. CASE job.step = 2
        <3>1. /\ deed # None /\ deed.was \in Row /\ deed.is \in Row /\ deed.was.status = "archived"
              /\ deed.wrote = {"status"} /\ StepOf(job) = SetTag("tagged")
            BY <2>1, <2>2, <2>6 DEF DeedSoFar
        <3>2. PICK new : new = DeedDone(job)
            OBVIOUS
        <3>3. new # None /\ new.was = deed.was /\ new.is = row /\ new.wrote = Fields
            BY <2>2, <2>4, <3>1, <3>2, FieldForms DEF DeedDone, Fields
        <3>4. DeedSoFar(other, 3, new, row, other.start[i])
            BY <1>3, <2>1, <2>3, <3>1, <3>3 DEF DeedSoFar
        <3>5. QED
            BY <1>3, <2>6, <3>2, <3>4
    <2>7. QED
        BY <2>1, <2>5, <2>6
<1>8. QED
    BY <1>6, <1>7

\* A round trip that fails past its restore has the restore to its name.
LEMMA RefusalRecalls ==
    ASSUME NEW job, Sound(job, rows), Mindful(job, rows), job.phase = "served", job.reply = None,
           Target(job) \notin job.spoilt, job.kind # "undo", ~PastHelp(job)
    PROVE  DeedSoFar(job, 0, job.deed[Target(job)], rows[Target(job)], job.start[Target(job)])
<1> DEFINE i == Target(job)
           row == rows[i]
           before == job.mark.was
           deed == job.deed[i]
           item == Head(job.plan)
<1>1. AtWork(job) /\ i \in Ideas /\ job.step \in Nat
    BY SoundIsAtWork, RunForms
<1>2. Hears(job, row)
    BY <1>1 DEF Mindful, Minds
<1>3. /\ DeedSoFar(job, job.step, deed, before, job.start[i])
      /\ row \in {before, Written(before, StepOf(job))}
    BY <1>2 DEF Hears, Poised
<1>4. job.step # 0 /\ job.step # 1
    BY DEF PastHelp
<1>5. job.kind = "tag" /\ deed # None /\ deed.was \in Row /\ deed.is \in Row /\ deed.was.status = "archived"
    BY <1>3, <1>4 DEF DeedSoFar
<1>6. Len(item.steps) = 3 /\ item.steps[3] = MoveTo("archived") /\ job.step \in 0..3
    <2>1. \/ ~item.round
          \/ Len(item.steps) = 3 /\ item.steps[3] = MoveTo("archived")
        BY <1>1, <1>5, RunForms
    <2>2. job.step \in 0..Len(item.steps) /\ item.round
        BY <1>1 DEF AtWork, PastHelp
    <2>3. QED
        BY <2>1, <2>2
<1>7. CASE job.step = 2
    BY <1>3, <1>5, <1>7 DEF DeedSoFar
<1>8. CASE job.step = 3
    <2>1. deed.wrote = Fields /\ before = deed.is /\ StepOf(job) = MoveTo("archived")
        BY <1>3, <1>6, <1>8 DEF DeedSoFar, StepOf
    <2>2. row.tag = deed.is.tag
        <3>1. Written(before, MoveTo("archived")) = [status |-> "archived", tag |-> before.tag]
            BY <1>5, <2>1, RowFields
        <3>2. QED
            BY <1>3, <2>1, <3>1
    <2>3. QED
        BY <1>5, <2>1, <2>2 DEF DeedSoFar, Fields
<1>9. job.step \in {2, 3}
    BY <1>1, <1>4, <1>6
<1>10. QED
    BY <1>7, <1>8, <1>9

----------------------------------------------------------------------------
(* What the batch and the stack hold.                                      *)

\* Items that no undo has left, and the deed they are the inverse of.
Accounted(items, deed) ==
    (\A n \in DOMAIN items : items[n].by # "undo") =>
        /\ deed = None => items = <<>>
        /\ deed # None /\ deed.noted => Matches(items, deed)

\* The batch that is open holds the inverse of what its run has done.
Tallied(open, job) == \A i \in Ideas \ job.spoilt : Accounted(ItemsOf(open, i), job.deed[i])

\* The entries that hold the inverse of what they say was done.
HonestEntries == {entry \in Entries : Honest(entry)}

\* The items of an idea in no list, and in a list of one.
LEMMA ItemsOfNone ==
    ASSUME NEW entry, entry.items = <<>>, NEW i
    PROVE  ItemsOf(entry, i) = <<>>
<1>1. Places(entry.items, i) = {} /\ entry.items \in Seq(Items)
    BY DEF Places
<1>2. QED
    BY <1>1, ItemsOfPlaces

LEMMA ItemsOfOne ==
    ASSUME NEW item \in Items, NEW entry, entry.items = <<item>>, NEW i
    PROVE  ItemsOf(entry, i) = IF item.id = i THEN <<item>> ELSE <<>>
<1> DEFINE empty == [items |-> <<>>]
<1>1. empty.items = <<>> /\ empty.items \in Seq(Items) /\ entry.items = Append(empty.items, item)
    OBVIOUS
<1> HIDE DEF empty
<1>2. ItemsOf(empty, i) = <<>>
    BY <1>1, ItemsOfNone
<1>3. PICK short : short = empty
    OBVIOUS
<1>4. ItemsOf(entry, i) = IF item.id = i THEN Append(ItemsOf(short, i), item) ELSE ItemsOf(short, i)
    <2>1. short.items \in Seq(Items) /\ entry.items = Append(short.items, item)
        BY <1>1, <1>3
    <2>2. QED
        BY <2>1, ItemsOfAppended
<1>5. PICK none : none = ItemsOf(short, i)
    OBVIOUS
<1>6. none = <<>> /\ Append(none, item) = <<item>>
    BY <1>2, <1>3, <1>5
<1>7. CASE item.id = i
    BY <1>4, <1>5, <1>6, <1>7
<1>8. CASE item.id # i
    BY <1>4, <1>5, <1>6, <1>8
<1>9. QED
    BY <1>7, <1>8

\* The item that is kept is the inverse of the verb on the row it found.
LEMMA ItemKeptForms ==
    ASSUME NEW job, Sound(job, rows), Mindful(job, rows), job.phase = "served", job.reply # None,
           Target(job) \notin job.spoilt, job.kind # "undo", Keeps(job),
           NEW item, item = ItemKept(job)
    PROVE  /\ item.id = Target(job) /\ item.by = job.kind
           /\ job.mark.was \in Row /\ Invertible(job.mark.was, StepOf(job))
           /\ job.mark.is = Written(job.mark.was, StepOf(job))
           /\ ItemFor(item, Target(job), job.mark.was, StepOf(job))
           /\ DeedSoFar(job, job.step, job.deed[Target(job)], job.mark.was, job.start[Target(job)])
<1> DEFINE i == Target(job)
           before == job.mark.was
           step == StepOf(job)
           steps == InverseSteps(i, before, step)
<1>1. i \in Ideas
    BY SoundIsAtWork
<1>2. Hears(job, rows[i])
    BY <1>1 DEF Mindful, Minds
<1>3. /\ Poised(job, before) /\ Captures(job, before)
      /\ rows[i] = job.mark.is /\ before \in Row /\ rows[i] = Written(before, step)
      /\ job.reply.rows[i] = rows[i]
    BY <1>2 DEF Hears
<1>4. job.inverse # None
    BY DEF Keeps
<1>5. Invertible(before, step) /\ job.inverse = Planned(i, steps)
    BY <1>3, <1>4 DEF Captures
<1>6. job.inverse.steps = steps /\ job.inverse.round = RoundTrip(steps)
    BY <1>5 DEF Planned
<1>7. /\ item.id = i /\ item.by = job.kind /\ item.steps = job.inverse.steps
      /\ item.round = job.inverse.round
      /\ item.expect = Expectation(job.inverse.steps, job.reply.rows[i])
    BY DEF ItemKept
<1>8. ItemFor(item, i, before, step)
    BY <1>3, <1>6, <1>7 DEF ItemFor
<1>9. DeedSoFar(job, job.step, job.deed[i], before, job.start[i])
    BY <1>3 DEF Poised
<1>10. QED
    BY <1>3, <1>5, <1>7, <1>8, <1>9

\* The inverse that is kept accounts for the verb, with what was kept before it.
LEMMA AnswerAccounts ==
    ASSUME NEW job, Sound(job, rows), Mindful(job, rows), job.phase = "served", job.reply # None,
           Target(job) \notin job.spoilt, job.kind # "undo",
           NEW items \in Seq(Items), Accounted(items, job.deed[Target(job)]),
           NEW item, item = ItemKept(job), Keeps(job) => item \in Items,
           NEW done, done = Done(job)
    PROVE  Accounted(IF Keeps(job) THEN Append(items, item) ELSE items, done.deed[Target(job)])
<1> DEFINE i == Target(job)
           before == job.mark.was
           step == StepOf(job)
           deed == job.deed[i]
           all == IF Keeps(job) THEN Append(items, item) ELSE items
<1>1. /\ job \in Jobs /\ i \in Ideas /\ step \in Steps /\ job.mark \in Marks /\ AtWork(job)
      /\ deed # None => deed \in KnownDeeds
    <2>1. /\ job \in Jobs /\ i \in Ideas /\ step \in Steps /\ job.mark \in Marks /\ AtWork(job)
        BY SoundIsAtWork
    <2>2. QED
        BY <2>1, JobTyped DEF Deeds
<1>2. done.deed[i] = DeedDone(job) /\ DeedDone(job) # None
    BY <1>1, DoneForms, DeedDoneKnown
<1>3. PICK new : new = DeedDone(job)
    OBVIOUS
<1>4. /\ new # None /\ new.is = job.mark.is
      /\ new.was = IF deed = None THEN before ELSE deed.was
      /\ new.wrote = IF deed = None THEN {Field(step)} ELSE deed.wrote \cup {Field(step)}
      /\ new.noted => Keeps(job) /\ (deed # None => deed.noted)
    <2>1. CASE deed = None
        BY <1>2, <1>3, <2>1 DEF DeedDone
    <2>2. CASE deed # None
        BY <1>2, <1>3, <2>2 DEF DeedDone
    <2>3. QED
        BY <2>1, <2>2
<1> HIDE DEF deed, all
<1>5. ASSUME \A n \in DOMAIN all : all[n].by # "undo", new.noted PROVE Matches(all, new)
    <2>1. Keeps(job) /\ item \in Items /\ all = Append(items, item)
        BY <1>4, <1>5 DEF all
    <2>2. /\ before \in Row /\ Invertible(before, step) /\ job.mark.is = Written(before, step)
          /\ ItemFor(item, i, before, step)
          /\ DeedSoFar(job, job.step, deed, before, job.start[i])
        BY <2>1, ItemKeptForms DEF deed
    <2>3. \A n \in DOMAIN items : items[n].by # "undo"
        <3>1. \A n \in DOMAIN items : n \in DOMAIN all /\ all[n] = items[n]
            BY <2>1
        <3>2. QED
            BY <1>5, <3>1
    <2>4. CASE deed = None
        <3>1. items = <<>>
            BY <2>3, <2>4 DEF Accounted, deed
        <3>2. all = <<item>>
            BY <2>1, <3>1
        <3>3. new.was = before /\ new.is = Written(before, step) /\ new.wrote = {Field(step)}
            BY <1>4, <2>2, <2>4
        <3> HIDE DEF i, before, step
        <3>4. Matches(<<item>>, new)
            BY <1>1, <2>2, <3>3, MatchesOne
        <3>5. QED
            BY <3>2, <3>4
    <2>5. CASE deed # None
        <3>1. Matches(items, deed)
            BY <1>4, <1>5, <2>3, <2>5 DEF Accounted, deed
        <3>2. /\ job.step # 1 /\ job.kind = "tag" /\ deed.was.status = "archived"
              /\ job.step = 2 => /\ deed.wrote = {"status"} /\ before = deed.is
                                 /\ before.status = "open" /\ before.tag = deed.was.tag
              /\ job.step = 3 => deed.wrote = Fields /\ before = deed.is
              /\ job.step = 0 => /\ "status" \in deed.wrote
                                 /\ "tag" \in deed.wrote => before.tag = deed.is.tag
            BY <2>2, <2>5 DEF DeedSoFar
        <3>3. /\ job.step \in {0, 2, 3}
              /\ job.step = 2 => step = SetTag("tagged")
              /\ job.step # 2 => step = MoveTo("archived")
            <4>1. /\ Len(Head(job.plan).steps) \in Nat /\ job.step \in 0..Len(Head(job.plan).steps)
                  /\ job.step = 0 => Head(job.plan).round
                  /\ \/ ~Head(job.plan).round /\ Len(Head(job.plan).steps) = 1
                     \/ /\ Len(Head(job.plan).steps) = 3
                        /\ Head(job.plan).steps[2] = SetTag("tagged")
                        /\ Head(job.plan).steps[3] = MoveTo("archived")
                BY <1>1, <3>2, RunForms DEF AtWork
            <4>2. job.step \in {0, 2, 3} /\ (job.step # 0 => Len(Head(job.plan).steps) = 3)
                <5>1. PICK k, c : k = job.step /\ c = Len(Head(job.plan).steps)
                    OBVIOUS
                <5>2. /\ c \in Nat /\ k \in 0..c /\ k # 1
                      /\ k = 0 => Head(job.plan).round
                      /\ (~Head(job.plan).round /\ c = 1) \/ c = 3
                    BY <3>2, <4>1, <5>1
                <5>3. k \in {0, 2, 3} /\ (k # 0 => c = 3)
                    BY <5>2
                <5>4. QED
                    BY <5>1, <5>3
            <4>3. CASE job.step = 0
                BY <3>2, <4>3 DEF StepOf
            <4>4. CASE job.step # 0
                <5>1. /\ Head(job.plan).steps[2] = SetTag("tagged")
                      /\ Head(job.plan).steps[3] = MoveTo("archived")
                    BY <4>1, <4>2, <4>4
                <5>2. step = Head(job.plan).steps[job.step]
                    BY <4>4 DEF StepOf
                <5>3. QED
                    BY <4>2, <4>4, <5>1, <5>2
            <4>5. QED
                BY <4>3, <4>4
        <3>4. "status" \in deed.wrote
            BY <3>2, <3>3 DEF Fields
        <3>5. deed.wrote \subseteq Fields /\ Field(SetTag("tagged")) = "tag" /\ Field(MoveTo("archived")) = "status"
              /\ MoveTo("archived").verb # "update"
            BY <1>1, <2>5, FieldForms DEF KnownDeeds, Fields
        <3>6. \A f \in deed.wrote : f # Field(step) => before[f] = deed.is[f]
            BY <3>2, <3>3, <3>5 DEF Fields
        <3>7. step.verb = "update" => before.status # "archived" /\ before.tag = deed.was.tag
            BY <3>2, <3>3, <3>5
        <3>8. new.was = deed.was /\ new.is = Written(before, step) /\ new.wrote = deed.wrote \cup {Field(step)}
            BY <1>4, <2>2, <2>5
        <3> HIDE DEF i, before, step
        <3>9. Matches(Append(items, item), new)
            BY <1>1, <2>1, <2>2, <3>1, <3>2, <3>4, <3>6, <3>7, <3>8, MatchesMore
        <3>10. QED
            BY <2>1, <3>9
    <2>6. QED
        BY <2>4, <2>5
<1>6. Accounted(all, new)
    BY <1>4, <1>5 DEF Accounted
<1>7. QED
    BY <1>2, <1>3, <1>6 DEF all

\* The entry of a run that is over, and that of one verb.
LEMMA RunIsHonest ==
    ASSUME NEW open, NEW job, Tallied(open, job),
           NEW entry, entry.items = open.items, entry.deed = Known(job)
    PROVE  Honest(entry)
<1> SUFFICES ASSUME NEW i \in Ideas, ItemsOf(entry, i) # <<>>, Whole(entry, i)
             PROVE  Matches(ItemsOf(entry, i), entry.deed[i])
    BY DEF Honest
<1>1. PICK items : items = ItemsOf(entry, i)
    OBVIOUS
<1>2. items = ItemsOf(open, i)
    BY <1>1 DEF ItemsOf
<1>3. PICK deed : deed = entry.deed[i]
    OBVIOUS
<1>4. deed # None /\ deed.noted /\ \A n \in DOMAIN items : items[n].by # "undo"
    BY <1>1, <1>3 DEF Whole
<1>5. i \notin job.spoilt /\ deed = job.deed[i]
    BY <1>3, <1>4 DEF Known
<1>6. Accounted(items, deed)
    BY <1>2, <1>5 DEF Tallied
<1>7. QED
    BY <1>1, <1>3, <1>4, <1>6 DEF Accounted

LEMMA VerbIsHonest ==
    ASSUME NEW job, Sound(job, rows), Mindful(job, rows), job.phase = "served", job.reply # None,
           job.kind # "tag", Keeps(job), NEW item \in Items, item = ItemKept(job),
           NEW done, done = Done(job),
           NEW entry, entry.items = <<item>>,
           \A i \in Ideas : entry.deed[i] = IF i = item.id THEN Known(done)[i] ELSE None
    PROVE  Honest(entry)
<1> SUFFICES ASSUME NEW i \in Ideas, ItemsOf(entry, i) # <<>>, Whole(entry, i)
             PROVE  Matches(ItemsOf(entry, i), entry.deed[i])
    BY DEF Honest
<1>1. item.id = i /\ ItemsOf(entry, i) = <<item>>
    BY ItemsOfOne
<1>2. PICK deed : deed = entry.deed[i]
    OBVIOUS
<1>3. deed # None /\ deed.noted /\ item.by # "undo"
    BY <1>1, <1>2 DEF Whole
<1>4. job \in Jobs /\ Target(job) \in Ideas
    BY SoundIsAtWork
<1>5. i = Target(job) /\ item.by = job.kind
    BY <1>1 DEF ItemKept
<1>6. i \notin done.spoilt /\ deed = done.deed[i]
    BY <1>1, <1>2, <1>3 DEF Known
<1>7. i \notin job.spoilt
    BY <1>4, <1>6, DoneForms
<1>8. job.deed[i] = None
    BY <1>3, <1>5, <1>7, ItemKeptForms DEF DeedSoFar
<1>9. PICK empty : empty = <<>> /\ empty \in Seq(Items)
    <2>1. <<>> \in Seq(Items)
        OBVIOUS
    <2>2. QED
        BY <2>1
<1>10. Accounted(empty, job.deed[i])
    BY <1>8, <1>9 DEF Accounted
<1>11. Accounted(IF Keeps(job) THEN Append(empty, item) ELSE empty, done.deed[i])
    <2>1. job.kind # "undo" /\ Target(job) \notin job.spoilt /\ Accounted(empty, job.deed[Target(job)])
        BY <1>3, <1>5, <1>7, <1>10
    <2>2. (Keeps(job) => item \in Items) /\ item = ItemKept(job) /\ done = Done(job) /\ empty \in Seq(Items)
        BY <1>9
    <2>3. Accounted(IF Keeps(job) THEN Append(empty, item) ELSE empty, done.deed[Target(job)])
        BY <2>1, <2>2, AnswerAccounts
    <2>4. QED
        BY <1>5, <2>3
<1>12. Accounted(<<item>>, deed)
    <2>1. Append(empty, item) = <<item>>
        BY <1>9
    <2>2. QED
        BY <1>6, <1>11, <2>1
<1>13. Matches(<<item>>, deed)
    BY <1>3, <1>12 DEF Accounted
<1>14. QED
    BY <1>1, <1>2, <1>13

\* The invariant: the entries of the stack are honest, every job minds what it
\* does, and the batch that is open tallies with its run.
UndoInv ==
    /\ stack \in Seq(HonestEntries)
    /\ \A j \in Slots : Busy(j) => Mindful(jobs[j], rows)
    /\ batch # None => Tallied(batch, jobs[Desk])

\* An undo that is over has kept its word.
WordKept(j, report) ==
    jobs[j].kind = "undo" => \A i \in Ideas \ jobs[j].spoilt : Closes(jobs[j], report, i, rows[i])

\* No undo is over in this step that has not.
StepKeepsWord ==
    \A j \in Slots : Finishes(j) /\ jobs[j].kind = "undo" =>
        \A i \in Ideas \ jobs[j].spoilt : Closes(jobs[j], jobs'[j].report, i, rows'[i])

\* The entry of a run that is over.
RunEntry(open, kind, deed) ==
    [key |-> open.key, by |-> kind, items |-> open.items, deed |-> deed]

\* What a job leaves of the batch when it goes on, or is over.
InTally(j, next, open, deed) ==
    /\ Runs(next.kind) => j = Desk /\ open # None
    /\ open # None /\ j # Desk => Tallied(open, jobs[Desk])
    /\ open # None /\ j = Desk /\ next.phase = "posted" => Tallied(open, next)
    /\ Runs(next.kind) /\ next.phase = "done" /\ open.items # <<>> => Honest(RunEntry(open, next.kind, deed))

\* A job that goes on or is over leaves the entries honest.
LEMMA BecomesHonest ==
    ASSUME ClientInv, ClientInv', UndoInv, NEW j \in Slots, NEW next \in Jobs,
           next.phase \in {"posted", "done"}, next.phase = "posted" => Mindful(next, rows),
           Busy(j) /\ next.phase = "done" => WordKept(j, next.report),
           NEW deed \in [Ideas -> Deeds], NEW quiet, NEW open \in {None} \cup Batches,
           InTally(j, next, open, deed),
           NEW entries \in Seq(HonestEntries), Len(entries) <= StackLimit,
           Becomes(j, next, deed, quiet, open, entries), rows' = rows
    PROVE  UndoInv' /\ StepKeepsWord
<1>1. /\ jobs \in [Slots -> Jobs] /\ jobs' = [jobs EXCEPT ![j] = next] /\ Desk \in Slots
    BY AtTheDesk DEF Becomes, ClientInv, JobsSound
<1>2. jobs'[j] = next /\ \A k \in Slots : k # j => jobs'[k] = jobs[k]
    BY <1>1
<1>3. ASSUME NEW k \in Slots, Busy(k)' PROVE Mindful(jobs'[k], rows')
    <2>1. CASE k = j
        BY <1>2, <1>3, <2>1 DEF Busy
    <2>2. CASE k # j
        <3>1. jobs'[k] = jobs[k]
            BY <1>2, <2>2
        <3>2. Busy(k)
            BY <1>3, <3>1 DEF Busy
        <3>3. Mindful(jobs[k], rows)
            BY <3>2 DEF UndoInv
        <3>4. QED
            BY <3>1, <3>3
    <2>3. QED
        BY <2>1, <2>2
<1>4. StepKeepsWord
    <2> SUFFICES ASSUME NEW k \in Slots, Finishes(k), jobs[k].kind = "undo", NEW i \in Ideas \ jobs[k].spoilt
                 PROVE  Closes(jobs[k], jobs'[k].report, i, rows'[i])
        BY DEF StepKeepsWord
    <2>1. k = j
        BY <1>2 DEF Finishes, Busy
    <2>2. Busy(j) /\ next.phase = "done" /\ jobs'[k] = next
        BY <1>2, <2>1 DEF Finishes
    <2>3. QED
        BY <2>1, <2>2 DEF WordKept
<1>5. stack' \in Seq(HonestEntries)
    <2>1. CASE Runs(next.kind) /\ next.phase = "done"
        <3>1. stack' = IF open.items = <<>> THEN entries
                       ELSE Pushed(entries, RunEntry(open, next.kind, deed))
            BY <2>1 DEF Becomes, Runs, RunEntry
        <3>2. CASE open.items = <<>>
            BY <3>1, <3>2
        <3>3. CASE open.items # <<>>
            <4> DEFINE entry == RunEntry(open, next.kind, deed)
            <4>1. open \in Batches /\ Honest(entry)
                BY <2>1, <3>3 DEF InTally
            <4>2. entry \in Entries
                BY <4>1, JobTyped DEF Batches, Entries, RunEntry
            <4>3. entry \in HonestEntries
                BY <4>1, <4>2 DEF HonestEntries
            <4>4. stack' = Pushed(entries, entry)
                BY <3>1, <3>3
            <4> HIDE DEF entry
            <4>5. QED
                BY <4>3, <4>4, PushedTyped
        <3>4. QED
            BY <3>2, <3>3
    <2>2. CASE ~(Runs(next.kind) /\ next.phase = "done")
        <3>1. stack' = entries \/ stack' = Discarded(entries, undoKey)
            BY <2>2 DEF Becomes, Runs
        <3>2. Discarded(entries, undoKey) \in Seq(HonestEntries)
            BY FrontTyped DEF Discarded
        <3>3. QED
            BY <3>1, <3>2
    <2>3. QED
        BY <2>1, <2>2
<1>6. ASSUME batch' # None PROVE Tallied(batch', jobs'[Desk])
    <2>1. batch' = open /\ open # None
        BY <1>6 DEF Becomes
    <2>2. CASE j = Desk
        <3>1. Busy(Desk)'
            BY <1>6 DEF ClientInv, TabSound
        <3>2. next.phase = "posted"
            BY <1>2, <2>2, <3>1 DEF Busy
        <3>3. Tallied(open, next)
            BY <2>1, <2>2, <3>2 DEF InTally
        <3>4. QED
            BY <1>2, <2>1, <2>2, <3>3
    <2>3. CASE j # Desk
        <3>1. Tallied(open, jobs[Desk]) /\ jobs'[Desk] = jobs[Desk]
            BY <1>1, <1>2, <2>1, <2>3 DEF InTally
        <3>2. QED
            BY <2>1, <3>1
    <2>4. QED
        BY <2>2, <2>3
<1>7. QED
    BY <1>3, <1>4, <1>5, <1>6 DEF UndoInv

\* What the plan of an undo makes of the board it was made on.
PutsBack(job) ==
    job.kind = "undo" => \A i \in Ideas : Whole(job.entry, i) =>
        /\ \A n \in DOMAIN job.plan : job.plan[n].id = i =>
              Leads(job.plan[n].steps, 1, snapshot.rows[i], Undone(job.entry, snapshot.rows[i], i))
        /\ i \notin PlanIds(job.plan) => Undone(job.entry, snapshot.rows[i], i) = snapshot.rows[i]

\* A job that begins knows its ideas as they were shown.
LEMMA BegunLivesOn ==
    ASSUME rows \in Boards, NEW job, Fresh(job), PutsBack(job), NEW quiet,
           NEW begun, begun = Begun(job), NEW next, next = Proceeds(begun, snapshot, quiet)
    PROVE  LivesOn(begun, next) /\ begun.deed = Idle.deed
<1> DEFINE spoilt == {i \in Ideas : snapshot.rows[i] # rows[i]}
<1>1. spoilt \subseteq Ideas /\ \A i \in Ideas \ spoilt : snapshot.rows[i] = rows[i]
    OBVIOUS
<1>2. begun = [job EXCEPT !.start = rows, !.spoilt = spoilt]
    BY DEF Begun
<1> HIDE DEF spoilt
<1>3. /\ begun \in Jobs /\ begun.start = rows /\ begun.kind = job.kind /\ begun.plan = job.plan
      /\ begun.entry = job.entry /\ begun.deed = Idle.deed /\ begun.spoilt = spoilt
    BY <1>1, <1>2 DEF Fresh, Jobs
<1>4. OneItemEach(begun.plan) /\ Short(begun)
    BY <1>3 DEF Fresh, Short
<1>5. ASSUME NEW i \in Ideas \ begun.spoilt
      PROVE  Pending(begun, i, rows[i]) /\ (i \in PlanIds(begun.plan) => rows[i] = begun.start[i])
    <2>1. snapshot.rows[i] = rows[i] /\ i \in Ideas
        BY <1>1, <1>3, <1>5
    <2>2. CASE job.kind = "undo"
        <3>1. Whole(job.entry, i) =>
                /\ \A n \in DOMAIN job.plan : job.plan[n].id = i =>
                      Leads(job.plan[n].steps, 1, rows[i], Undone(job.entry, rows[i], i))
                /\ i \notin PlanIds(job.plan) => Undone(job.entry, rows[i], i) = rows[i]
            BY <2>1, <2>2 DEF PutsBack
        <3>2. Owed(begun, i) = Undone(job.entry, rows[i], i)
            BY <1>3 DEF Owed
        <3>3. \A n \in DOMAIN begun.plan : begun.plan[n].id = i => Heads(begun, i, begun.plan[n].steps, 1, rows[i])
            BY <1>3, <3>1, <3>2 DEF Heads
        <3>4. i \notin PlanIds(begun.plan) => Closes(begun, begun.report, i, rows[i])
            BY <1>3, <3>1, <3>2 DEF Closes
        <3>5. QED
            BY <1>3, <2>2, <3>3, <3>4 DEF Pending
    <2>3. CASE job.kind # "undo"
        BY <1>3, <2>1, <2>3 DEF Pending, Idle
    <2>4. QED
        BY <2>2, <2>3
<1>6. LivesOn(begun, next)
    BY <1>3, <1>4, <1>5, ProceedsMindful
<1>7. QED
    BY <1>3, <1>6

\* A batch with nothing in it, for a job that has done nothing.
LEMMA NothingToTally ==
    ASSUME NEW open, open.items = <<>>, NEW job, job.deed = Idle.deed
    PROVE  Tallied(open, job)
<1> SUFFICES ASSUME NEW i \in Ideas PROVE Accounted(ItemsOf(open, i), job.deed[i])
    BY DEF Tallied
<1>1. ItemsOf(open, i) = <<>> /\ job.deed[i] = None
    BY ItemsOfNone DEF Idle
<1>2. QED
    BY <1>1 DEF Accounted

\* A job begins: its first post, or its end when it has nothing to do.
LEMMA StartsHonest ==
    ASSUME ClientInv, ClientInv', UndoInv, NEW j \in Slots, ~Busy(j), NEW job, Fresh(job), PutsBack(job),
           Runs(job.kind) => j = Desk,
           NEW quiet, NEW open \in {None} \cup Batches,
           IF Runs(job.kind) THEN open # None /\ open.items = <<>>
           ELSE open = batch /\ (j = Desk => batch = None),
           NEW entries \in Seq(HonestEntries), Len(entries) <= StackLimit,
           Starts(j, job, quiet, open, entries)
    PROVE  UndoInv' /\ StepKeepsWord
<1> DEFINE begun == Begun(job)
           next == Proceeds(begun, snapshot, quiet)
<1>1. /\ Becomes(j, next, Idle.deed, quiet, open, entries) /\ rows' = rows
    BY DEF Starts, Begun
<1>2. rows \in Boards /\ snapshot \in Views
    BY AtTheDesk
<1>3. LivesOn(begun, next) /\ begun.deed = Idle.deed
    <2>1. begun = Begun(job) /\ next = Proceeds(begun, snapshot, quiet)
        OBVIOUS
    <2> HIDE DEF begun, next
    <2>2. QED
        BY <1>2, <2>1, BegunLivesOn
<1>4. next.kind = job.kind /\ next.phase \in {"posted", "done"} /\ next \in Jobs
    <2>1. jobs' \in [Slots -> Jobs] /\ jobs \in [Slots -> Jobs] /\ jobs' = [jobs EXCEPT ![j] = next]
        BY <1>1 DEF Becomes, ClientInv, JobsSound
    <2>2. next \in Jobs
        BY <2>1
    <2>3. begun \in Jobs /\ begun.kind = job.kind /\ OneItemEach(begun.plan)
        <3> DEFINE spoilt == {i \in Ideas : snapshot.rows[i] # rows[i]}
        <3>1. spoilt \subseteq Ideas /\ begun = [job EXCEPT !.start = rows, !.spoilt = spoilt]
            BY DEF Begun
        <3> HIDE DEF spoilt, begun
        <3>2. QED
            BY <1>2, <3>1 DEF Fresh, Jobs
    <2>4. next = Proceeds(begun, snapshot, quiet)
        OBVIOUS
    <2> HIDE DEF begun, next
    <2>5. \/ next.phase = "done" /\ next.kind = begun.kind
          \/ \E other : Skips(begun, other) /\ next = Posts(other, snapshot, quiet)
        BY <2>3, <2>4, ProceedsForms
    <2>6. ASSUME NEW other, Skips(begun, other), next = Posts(other, snapshot, quiet)
          PROVE  next.phase = "posted" /\ next.kind = begun.kind
        <3>1. other \in Jobs /\ other.kind = begun.kind
            BY <2>6 DEF Skips, Remembers
        <3>2. next.phase = "posted" /\ Remembers(other, next)
            BY <2>6, <3>1, PostsForms
        <3>3. QED
            BY <3>1, <3>2 DEF Remembers
    <2>7. QED
        BY <2>2, <2>3, <2>5, <2>6
<1> HIDE DEF begun, next
<1>5. next.phase = "posted" => Mindful(next, rows) /\ next.deed = Idle.deed
    BY <1>3 DEF LivesOn, Remembers
<1>6. Idle.deed \in [Ideas -> Deeds]
    BY IdleTyped, JobTyped
<1>7. InTally(j, next, open, Idle.deed)
    <2>1. CASE Runs(job.kind)
        <3>1. j = Desk /\ open # None /\ open.items = <<>> /\ Runs(next.kind)
            BY <1>4, <2>1
        <3>2. next.phase = "posted" => Tallied(open, next)
            BY <1>5, <3>1, NothingToTally
        <3>3. QED
            BY <3>1, <3>2 DEF InTally
    <2>2. CASE ~Runs(job.kind)
        <3>1. open = batch /\ (j = Desk => batch = None) /\ ~Runs(next.kind)
            BY <1>4, <2>2
        <3>2. open # None => Tallied(open, jobs[Desk])
            BY <3>1 DEF UndoInv
        <3>3. QED
            BY <3>1, <3>2 DEF InTally
    <2>3. QED
        BY <2>1, <2>2
<1>8. next.phase = "posted" => Mindful(next, rows)
    BY <1>5
<1>9. QED
    BY <1>1, <1>4, <1>6, <1>7, <1>8, BecomesHonest

----------------------------------------------------------------------------
(* The actions, for an undo.                                               *)

\* The stack is within its limit, and its entries are honest.
LEMMA AtTheDeskHonest ==
    ASSUME ClientInv, UndoInv
    PROVE  stack \in Seq(HonestEntries) /\ Len(stack) <= StackLimit
BY DEF UndoInv, ClientInv, TabSound

\* A verb, or the restore button: no batch is open.
LEMMA DeskStartsHonest ==
    ASSUME ClientInv, ClientInv', UndoInv, ~Busy(Desk), NEW job, Fresh(job),
           job.kind # "undo", ~Runs(job.kind), Starts(Desk, job, undoing, batch, stack)
    PROVE  UndoInv' /\ StepKeepsWord
<1>1. Desk \in Slots /\ batch \in {None} \cup Batches /\ batch = None
    BY AtTheDesk
<1>2. IF Runs(job.kind) THEN batch # None /\ batch.items = <<>>
      ELSE batch = batch /\ (Desk = Desk => batch = None)
    BY <1>1
<1>3. PutsBack(job) /\ (Runs(job.kind) => Desk = Desk)
    BY DEF PutsBack
<1>4. stack \in Seq(HonestEntries) /\ Len(stack) <= StackLimit
    BY AtTheDeskHonest
<1>5. QED
    BY <1>1, <1>2, <1>3, <1>4, StartsHonest

\* A run over many ideas, which opens a batch.
LEMMA BulkStartsHonest ==
    ASSUME ClientInv, ClientInv', UndoInv, NEW kind \in {"tag", "archive"}, NEW chosen \in SUBSET Ideas,
           Bulk(kind, chosen)
    PROVE  UndoInv' /\ StepKeepsWord
<1>1. PICK open : open = [key |-> started + 1, items |-> <<>>]
    OBVIOUS
<1>2. PICK job : ~Busy(Desk) /\ Fresh(job) /\ job.kind = kind /\ Starts(Desk, job, undoing, open, stack)
    BY <1>1, BulkBegins
<1>3. Runs(job.kind) /\ PutsBack(job)
    BY <1>2 DEF Runs, PutsBack
<1>4. open \in Batches /\ open # None /\ open.items = <<>> /\ Desk \in Slots
    <2>1. open \in Batches /\ open.items = <<>>
        BY <1>1, AtTheDesk DEF Batches
    <2>2. QED
        BY <2>1, NoneAssumption, AtTheDesk
<1>5. IF Runs(job.kind) THEN open # None /\ open.items = <<>>
      ELSE open = batch /\ (Desk = Desk => batch = None)
    BY <1>3, <1>4
<1>6. stack \in Seq(HonestEntries) /\ Len(stack) <= StackLimit
    BY AtTheDeskHonest
<1>7. QED
    BY <1>2, <1>3, <1>4, <1>5, <1>6, StartsHonest

\* An undo, which takes the newest entry from the stack.
LEMMA UndoStartsHonest ==
    ASSUME ClientInv, ClientInv', UndoInv, NEW u \in 1..Undos, Undo(u)
    PROVE  UndoInv' /\ StepKeepsWord
<1>1. PICK job : /\ ~Busy(u) /\ stack # <<>> /\ Fresh(job) /\ job.kind = "undo"
                 /\ job.entry = Last(stack) /\ job.plan = UndoPlan(Last(stack))
                 /\ Starts(u, job, TRUE, batch, Front(stack))
    BY UndoBegins
<1>2. stack \in Seq(HonestEntries) /\ Len(stack) <= StackLimit
    BY AtTheDeskHonest
<1>3. PICK entry : entry = Last(stack)
    OBVIOUS
<1>4. /\ Front(stack) \in Seq(HonestEntries) /\ Len(Front(stack)) <= StackLimit
      /\ entry \in HonestEntries
    BY <1>1, <1>2, <1>3, FrontTyped
<1>5. entry.items \in Seq(Items) /\ Honest(entry)
    BY <1>4 DEF HonestEntries, Entries
<1>6. PutsBack(job)
    <2>1. snapshot.rows \in Boards
        BY AtTheDesk DEF Views
    <2>2. job.entry = entry /\ job.plan = UndoPlan(entry)
        BY <1>1, <1>3
    <2>3. PICK plan : plan = UndoPlan(entry)
        OBVIOUS
    <2>4. ASSUME NEW i \in Ideas, Whole(entry, i)
          PROVE  /\ \A n \in DOMAIN plan : plan[n].id = i =>
                       Leads(plan[n].steps, 1, snapshot.rows[i], Undone(entry, snapshot.rows[i], i))
                 /\ i \notin PlanIds(plan) => Undone(entry, snapshot.rows[i], i) = snapshot.rows[i]
        BY <1>5, <2>1, <2>3, <2>4, PlanPutsBack
    <2>5. QED
        BY <2>2, <2>3, <2>4 DEF PutsBack
<1>7. u \in Slots /\ u # Desk /\ batch \in {None} \cup Batches /\ ~Runs(job.kind)
    BY <1>1, AtTheDesk DEF Runs
<1>8. IF Runs(job.kind) THEN batch # None /\ batch.items = <<>>
      ELSE batch = batch /\ (u = Desk => batch = None)
    BY <1>7
<1>9. QED
    BY <1>1, <1>4, <1>6, <1>7, <1>8, StartsHonest

\* A job that has heard of its verb minds what it did, or has kept its word.
GoesWell(job, done, next) ==
    /\ next.phase = "posted" =>
          Mindful(next, rows) /\ next.deed = done.deed /\ done.spoilt \subseteq next.spoilt
    /\ next.phase = "done" /\ job.kind = "undo" =>
          \A i \in Ideas \ job.spoilt : Closes(job, next.report, i, rows[i])

\* A job goes well after an answer, and after an error.
LEMMA AnswerGoesWell ==
    ASSUME NEW job, Sound(job, rows), Mindful(job, rows), job.phase = "served", job.reply # None,
           NEW done, done = Done(job), NEW next, next = AfterAnswer(job)
    PROVE  GoesWell(job, done, next)
<1> DEFINE other == [done EXCEPT !.reply = None, !.mark = None]
           target == Target(job)
           shown == Adopted(job.reply)
<1>1. AtWork(job) /\ job \in Jobs /\ target \in Ideas
    BY SoundIsAtWork
<1>2. done \in Jobs /\ SameWork(job, done)
    BY DoneTyped
<1>3. /\ \A i \in Ideas : i # target => done.deed[i] = job.deed[i]
      /\ done.kind = job.kind /\ done.plan = job.plan /\ done.step = job.step
      /\ done.entry = job.entry /\ done.start = job.start /\ done.spoilt = job.spoilt
      /\ done.report = job.report
    BY <1>1, DoneForms
<1>4. other = [done EXCEPT !.reply = None, !.mark = None]
    OBVIOUS
<1>5. next = Continues(other, shown, undoing)
    BY DEF AfterAnswer
<1>6. target \notin job.spoilt => Ripe(other, rows[target])
    BY <1>2, <1>4, AnswerRipens
<1> HIDE DEF other, shown
<1>7. /\ other \in Jobs /\ other.kind = done.kind /\ other.plan = done.plan /\ other.step = done.step
      /\ other.entry = done.entry /\ other.start = done.start /\ other.spoilt = done.spoilt
      /\ other.report = done.report /\ other.deed = done.deed /\ other.blind = done.blind
    BY <1>2, <1>4 DEF Jobs
<1>8. SameWork(job, other)
    BY <1>2, <1>7 DEF SameWork
<1>9. AtWork(other) /\ Target(other) = target
    BY <1>1, <1>7, <1>8, SameWorkAtWork
<1>10. Short(other)
    BY <1>3, <1>7 DEF Mindful, Short
<1>11. ASSUME NEW i \in Ideas \ other.spoilt, i # Target(other) PROVE Pending(other, i, rows[i])
    <2>1. Pending(job, i, rows[i])
        BY <1>3, <1>7, <1>9, <1>11 DEF Mindful
    <2>2. other.deed[i] = job.deed[i]
        BY <1>3, <1>7, <1>9, <1>11
    <2>3. QED
        BY <1>3, <1>7, <2>1, <2>2 DEF Pending, Heads, Closes, Owed
<1>12. Target(other) \notin other.spoilt => Ripe(other, rows[Target(other)])
    BY <1>3, <1>6, <1>7, <1>9
<1>13. LivesOn(other, next)
    BY <1>5, <1>9, <1>10, <1>11, <1>12, ContinuesMindful
<1>14. QED
    BY <1>3, <1>7, <1>13 DEF LivesOn, Remembers, GoesWell, Closes, Owed

LEMMA RefusalGoesWell ==
    ASSUME NEW job, Sound(job, rows), Mindful(job, rows), job.phase = "served", job.reply = None,
           NEW next, next = AfterRefusal(job)
    PROVE  GoesWell(job, job, next)
<1> DEFINE other == [job EXCEPT !.mark = None]
           target == Target(job)
<1>1. AtWork(job) /\ job \in Jobs /\ target \in Ideas
    BY SoundIsAtWork
<1>2. next = Recovers(other, snapshot, undoing)
    BY DEF AfterRefusal
<1>3. /\ other \in Jobs /\ other.kind = job.kind /\ other.plan = job.plan /\ other.step = job.step
      /\ other.entry = job.entry /\ other.start = job.start /\ other.spoilt = job.spoilt
      /\ other.report = job.report /\ other.deed = job.deed /\ other.blind = job.blind
    BY <1>1 DEF Jobs
<1> HIDE DEF other
<1>4. SameWork(job, other)
    BY <1>3 DEF SameWork
<1>5. AtWork(other) /\ Target(other) = target /\ (PastHelp(other) <=> PastHelp(job))
    BY <1>1, <1>3, <1>4, SameWorkAtWork
<1>6. Short(other)
    BY <1>3 DEF Mindful, Short
<1>7. ASSUME NEW i \in Ideas \ other.spoilt, i # Target(other) PROVE Pending(other, i, rows[i])
    <2>1. Pending(job, i, rows[i])
        BY <1>3, <1>5, <1>7 DEF Mindful
    <2>2. QED
        BY <1>3, <2>1 DEF Pending, Heads, Closes, Owed
<1>8. ASSUME target \notin job.spoilt, job.kind # "undo", ~PastHelp(job)
      PROVE  DeedSoFar(job, 0, job.deed[target], rows[target], job.start[target])
    BY <1>8, RefusalRecalls
<1>9. Target(other) \notin other.spoilt /\ other.kind # "undo" /\ ~PastHelp(other) =>
         DeedSoFar(other, 0, other.deed[Target(other)], rows[Target(other)], other.start[Target(other)])
    BY <1>3, <1>5, <1>8 DEF DeedSoFar
<1>10. LivesOn(other, next)
    BY <1>2, <1>5, <1>6, <1>7, <1>9, RecoversMindful
<1>11. QED
    BY <1>3, <1>10 DEF LivesOn, Remembers, GoesWell, Closes, Owed

\* A verb of a run leaves its batch in tally, and so does one of an undo beside it.
LEMMA OpenTallies ==
    ASSUME batch \in {None} \cup Batches, batch # None,
           NEW job, Sound(job, rows), Mindful(job, rows), job.phase = "served", job.reply # None,
           NEW item, item = ItemKept(job), Keeps(job) => item \in Items,
           NEW open, open = OpenWith(job, item), NEW done, done = Done(job)
    PROVE  /\ job.kind # "undo" /\ Tallied(batch, job) => Tallied(open, done)
           /\ job.kind = "undo" => \A run : Tallied(batch, run) => Tallied(open, run)
<1>1. /\ batch.items \in Seq(Items)
      /\ Keeps(job) => open.items = Append(batch.items, item)
      /\ ~Keeps(job) => open.items = batch.items
    BY OpenForms
<1>2. job \in Jobs /\ Target(job) \in Ideas /\ item.id = Target(job) /\ item.by = job.kind
    BY SoundIsAtWork DEF ItemKept
<1>3. ASSUME NEW i
      PROVE  /\ Keeps(job) /\ i = Target(job) => ItemsOf(open, i) = Append(ItemsOf(batch, i), item)
             /\ ~(Keeps(job) /\ i = Target(job)) => ItemsOf(open, i) = ItemsOf(batch, i)
    <2>1. CASE Keeps(job)
        <3>1. open.items = Append(batch.items, item) /\ item \in Items /\ batch.items \in Seq(Items)
            BY <1>1, <2>1
        <3>2. ItemsOf(open, i) = IF item.id = i THEN Append(ItemsOf(batch, i), item) ELSE ItemsOf(batch, i)
            BY <3>1, ItemsOfAppended
        <3>3. CASE i = Target(job)
            BY <1>2, <2>1, <3>2, <3>3
        <3>4. CASE i # Target(job)
            BY <1>2, <2>1, <3>2, <3>4
        <3>5. QED
            BY <3>3, <3>4
    <2>2. CASE ~Keeps(job)
        BY <1>1, <2>2 DEF ItemsOf
    <2>3. QED
        BY <2>1, <2>2
<1>4. ASSUME NEW i PROVE ItemsOf(batch, i) \in Seq(Items)
    BY <1>1, ItemsOfPlaces
<1>5. ASSUME job.kind # "undo", Tallied(batch, job), NEW i \in Ideas \ done.spoilt
      PROVE  Accounted(ItemsOf(open, i), done.deed[i])
    <2>1. i \notin job.spoilt /\ (i # Target(job) => done.deed[i] = job.deed[i])
        BY <1>2, <1>5, DoneForms
    <2>2. PICK items \in Seq(Items) : items = ItemsOf(batch, i)
        BY <1>4
    <2>3. Accounted(items, job.deed[i])
        BY <1>5, <2>1, <2>2 DEF Tallied
    <2>4. CASE i = Target(job)
        <3>1. Accounted(items, job.deed[Target(job)]) /\ Target(job) \notin job.spoilt
            BY <2>1, <2>3, <2>4
        <3>2. Accounted(IF Keeps(job) THEN Append(items, item) ELSE items, done.deed[Target(job)])
            BY <1>5, <3>1, AnswerAccounts
        <3>3. CASE Keeps(job)
            <4>1. Accounted(Append(items, item), done.deed[Target(job)])
                BY <3>2, <3>3
            <4>2. QED
                BY <1>3, <2>2, <2>4, <3>3, <4>1
        <3>4. CASE ~Keeps(job)
            <4>1. Accounted(items, done.deed[Target(job)])
                BY <3>2, <3>4
            <4>2. QED
                BY <1>3, <2>2, <2>4, <3>4, <4>1
        <3>5. QED
            BY <3>3, <3>4
    <2>5. CASE i # Target(job)
        BY <1>3, <2>1, <2>2, <2>3, <2>5
    <2>6. QED
        BY <2>4, <2>5
<1>6. ASSUME job.kind = "undo", NEW run, Tallied(batch, run), NEW i \in Ideas \ run.spoilt
      PROVE  Accounted(ItemsOf(open, i), run.deed[i])
    <2>1. PICK items \in Seq(Items) : items = ItemsOf(batch, i)
        BY <1>4
    <2>2. Accounted(items, run.deed[i])
        BY <1>6, <2>1 DEF Tallied
    <2>3. CASE Keeps(job) /\ i = Target(job)
        <3>1. ItemsOf(open, i) = Append(items, item)
            BY <1>3, <2>1, <2>3
        <3>2. PICK all : all = Append(items, item)
            OBVIOUS
        <3>3. Len(items) + 1 \in DOMAIN all /\ all[Len(items) + 1] = item
            BY <2>1, <3>2
        <3>4. Accounted(all, run.deed[i])
            BY <1>2, <1>6, <3>3 DEF Accounted
        <3>5. QED
            BY <3>1, <3>2, <3>4
    <2>4. CASE ~(Keeps(job) /\ i = Target(job))
        BY <1>3, <2>1, <2>2, <2>4
    <2>5. QED
        BY <2>3, <2>4
<1>7. QED
    BY <1>5, <1>6 DEF Tallied

\* The entry of a verb that is no part of a run.
VerbEntry(job, item, done) ==
    [key |-> None, by |-> done.kind, items |-> <<item>>,
     deed |-> [k \in Ideas |-> IF k = item.id THEN Known(done)[k] ELSE None]]

StackWith(job, item, done) ==
    IF Keeps(job) /\ batch = None THEN Pushed(stack, VerbEntry(job, item, done)) ELSE stack

\* The entry of one verb goes on the stack, which stays honest.
LEMMA StackWithHonest ==
    ASSUME ClientInv, UndoInv, NEW job, Sound(job, rows), Mindful(job, rows),
           job.phase = "served", job.reply # None, batch = None => job.kind # "tag",
           NEW item, item = ItemKept(job), Keeps(job) => item \in Items,
           NEW done, done = Done(job), NEW entries, entries = StackWith(job, item, done)
    PROVE  entries \in Seq(HonestEntries) /\ Len(entries) <= StackLimit
<1>1. stack \in Seq(HonestEntries) /\ Len(stack) <= StackLimit
    BY AtTheDeskHonest
<1>2. CASE Keeps(job) /\ batch = None
    <2> DEFINE entry == VerbEntry(job, item, done)
               known == Known(done)
    <2>1. done \in Jobs /\ known \in [Ideas -> Deeds] /\ done.kind \in Kinds
        BY DoneTyped, JobTyped
    <2>2. /\ entry.key = None /\ entry.by = done.kind /\ entry.items = <<item>>
          /\ entry.deed = [k \in Ideas |-> IF k = item.id THEN known[k] ELSE None]
          /\ entry = [key |-> entry.key, by |-> entry.by, items |-> entry.items, deed |-> entry.deed]
        BY DEF VerbEntry
    <2> HIDE DEF entry, known
    <2>3. entry.deed \in [Ideas -> Deeds]
        BY <2>1, <2>2 DEF Deeds
    <2>4. entry.items \in Seq(Items)
        BY <1>2, <2>2
    <2>5. entry \in Entries
        BY <2>1, <2>2, <2>3, <2>4 DEF Entries
    <2>6. Honest(entry)
        <3>1. \A i \in Ideas : entry.deed[i] = IF i = item.id THEN Known(done)[i] ELSE None
            BY <2>2 DEF known
        <3>2. item \in Items /\ job.kind # "tag" /\ Keeps(job) /\ entry.items = <<item>>
            BY <1>2, <2>2
        <3>3. QED
            BY <3>1, <3>2, VerbIsHonest
    <2>7. entry \in HonestEntries
        BY <2>5, <2>6 DEF HonestEntries
    <2>8. entries = Pushed(stack, entry)
        BY <1>2 DEF StackWith, entry
    <2>9. QED
        BY <1>1, <2>7, <2>8, PushedTyped
<1>3. CASE ~(Keeps(job) /\ batch = None)
    BY <1>1, <1>3 DEF StackWith
<1>4. QED
    BY <1>2, <1>3

\* An answer, or an error, comes to a job.
LEMMA AnsweredHonest ==
    ASSUME ClientInv, ClientInv', UndoInv, NEW j \in Slots, Answered(j)
    PROVE  UndoInv' /\ StepKeepsWord
<1> DEFINE job == jobs[j]
           done == Done(job)
           item == ItemKept(job)
           open == OpenWith(job, item)
           entries == StackWith(job, item, done)
           next == AfterAnswer(job)
<1>1. /\ job.phase = "served" /\ job.reply # None
      /\ Becomes(j, Continues([done EXCEPT !.reply = None, !.mark = None], Adopted(done.reply), undoing),
                 Known(done), undoing, open, entries)
      /\ rows' = rows
    BY DEF Answered, OpenWith, StackWith, VerbEntry
<1>2. /\ snapshot \in Views /\ batch \in {None} \cup Batches
      /\ (batch # None <=> Runs(jobs[Desk].kind) /\ Busy(Desk))
      /\ jobs[Desk].kind # "undo" /\ \A u \in 1..Undos : Busy(u) => jobs[u].kind = "undo"
      /\ Desk \in Slots /\ (j # Desk => j \in 1..Undos)
    BY ClientAssumption DEF ClientInv, TabSound, JobsSound, Desk, Slots
<1>3. Busy(j) /\ Sound(job, rows) /\ Mindful(job, rows)
    BY <1>1 DEF ClientInv, JobsSound, Busy, UndoInv
<1>4. /\ done \in Jobs /\ done.reply = job.reply /\ done.kind = job.kind
      /\ Known(done) \in [Ideas -> Deeds]
    BY <1>1, <1>3, DoneTyped
<1>5. Becomes(j, next, Known(done), undoing, open, entries)
    BY <1>1, <1>4 DEF AfterAnswer
<1>6. Follows(job, next)
    BY <1>1, <1>2, <1>3, AnsweredFollows
<1>7. /\ next \in Jobs /\ next.kind = job.kind /\ next.phase \in {"posted", "done"}
    BY <1>6 DEF Follows
<1>8. GoesWell(job, done, next)
    <2>1. done = Done(job) /\ next = AfterAnswer(job)
        OBVIOUS
    <2> HIDE DEF done, next, job
    <2>2. QED
        BY <1>1, <1>3, <2>1, AnswerGoesWell
<1>9. Keeps(job) => item \in Items
    <2>1. job \in Jobs /\ Target(job) \in Ideas
        BY <1>3, SoundIsAtWork
    <2>2. item = ItemKept(job)
        OBVIOUS
    <2> HIDE DEF item, job
    <2>3. QED
        BY <1>1, <2>1, <2>2, ItemKeptTyped
<1>10. /\ j = Desk => job.kind # "undo" /\ (batch # None <=> Runs(job.kind))
       /\ j # Desk => job.kind = "undo"
    BY <1>2, <1>3
<1>11. job = jobs[j] /\ done = Done(job) /\ item = ItemKept(job) /\ open = OpenWith(job, item)
       /\ entries = StackWith(job, item, done)
    OBVIOUS
<1> HIDE DEF job, done, item, open, entries, next
<1>12. entries \in Seq(HonestEntries) /\ Len(entries) <= StackLimit
    <2>1. batch = None => job.kind # "tag"
        BY <1>10 DEF Runs
    <2>2. QED
        BY <1>1, <1>3, <1>9, <1>11, <2>1, StackWithHonest
<1>13. open \in {None} \cup Batches /\ (open # None <=> batch # None)
    BY <1>2, <1>9, <1>11, OpenForms
<1>14. ASSUME batch # None
       PROVE  /\ j = Desk => Tallied(open, done)
              /\ j # Desk => Tallied(open, jobs[Desk])
    <2>1. Tallied(batch, jobs[Desk])
        BY <1>14 DEF UndoInv
    <2>2. /\ job.kind # "undo" /\ Tallied(batch, job) => Tallied(open, done)
          /\ job.kind = "undo" => \A run : Tallied(batch, run) => Tallied(open, run)
        BY <1>1, <1>2, <1>3, <1>9, <1>11, <1>14, OpenTallies
    <2>3. QED
        BY <1>10, <1>11, <2>1, <2>2
<1>15. InTally(j, next, open, Known(done))
    <2>1. Runs(next.kind) => j = Desk /\ open # None
        BY <1>7, <1>10, <1>13 DEF Runs
    <2>2. open # None /\ j # Desk => Tallied(open, jobs[Desk])
        BY <1>13, <1>14
    <2>3. ASSUME open # None, j = Desk, next.phase = "posted" PROVE Tallied(open, next)
        <3>1. Tallied(open, done) /\ next.deed = done.deed /\ done.spoilt \subseteq next.spoilt
            BY <1>8, <1>13, <1>14, <2>3 DEF GoesWell
        <3>2. QED
            BY <3>1 DEF Tallied
    <2>4. ASSUME Runs(next.kind), next.phase = "done"
          PROVE  Honest(RunEntry(open, next.kind, Known(done)))
        <3>1. Tallied(open, done)
            BY <1>13, <1>14, <2>1, <2>4
        <3>2. PICK entry : entry = RunEntry(open, next.kind, Known(done))
            OBVIOUS
        <3>3. entry.items = open.items /\ entry.deed = Known(done)
            BY <3>2 DEF RunEntry
        <3>4. Honest(entry)
            BY <3>1, <3>3, RunIsHonest
        <3>5. QED
            BY <3>2, <3>4
    <2>5. QED
        BY <2>1, <2>2, <2>3, <2>4 DEF InTally
<1>16. /\ next.phase = "posted" => Mindful(next, rows)
       /\ Busy(j) /\ next.phase = "done" => WordKept(j, next.report)
    BY <1>8, <1>11 DEF GoesWell, WordKept
<1>17. QED
    BY <1>1, <1>4, <1>5, <1>7, <1>12, <1>13, <1>15, <1>16, BecomesHonest

LEMMA RefusedHonest ==
    ASSUME ClientInv, ClientInv', UndoInv, NEW j \in Slots, Refused(j)
    PROVE  UndoInv' /\ StepKeepsWord
<1> DEFINE job == jobs[j]
           next == AfterRefusal(job)
<1>1. /\ job.phase = "served" /\ job.reply = None
      /\ Becomes(j, next, Known(job), undoing, batch, stack)
      /\ rows' = rows
    BY DEF Refused, AfterRefusal
<1>2. /\ snapshot \in Views /\ batch \in {None} \cup Batches
      /\ (batch # None <=> Runs(jobs[Desk].kind) /\ Busy(Desk))
      /\ jobs[Desk].kind # "undo" /\ \A u \in 1..Undos : Busy(u) => jobs[u].kind = "undo"
      /\ Desk \in Slots /\ (j # Desk => j \in 1..Undos)
    BY ClientAssumption DEF ClientInv, TabSound, JobsSound, Desk, Slots
<1>3. Busy(j) /\ Sound(job, rows) /\ Mindful(job, rows)
    BY <1>1 DEF ClientInv, JobsSound, Busy, UndoInv
<1>4. Known(job) \in [Ideas -> Deeds]
    BY <1>1, <1>3, DoneTyped
<1>5. Follows(job, next)
    BY <1>1, <1>2, <1>3, RefusedFollows
<1>6. /\ next \in Jobs /\ next.kind = job.kind /\ next.phase \in {"posted", "done"}
    BY <1>5 DEF Follows
<1>7. GoesWell(job, job, next)
    <2>1. next = AfterRefusal(job)
        OBVIOUS
    <2> HIDE DEF next, job
    <2>2. QED
        BY <1>1, <1>3, <2>1, RefusalGoesWell
<1>8. /\ j = Desk => job.kind # "undo" /\ (batch # None <=> Runs(job.kind))
      /\ j # Desk => job.kind = "undo"
    BY <1>2, <1>3
<1>9. job = jobs[j]
    OBVIOUS
<1> HIDE DEF job, next
<1>10. stack \in Seq(HonestEntries) /\ Len(stack) <= StackLimit
    BY AtTheDeskHonest
<1>11. batch # None => Tallied(batch, jobs[Desk])
    BY DEF UndoInv
<1>12. InTally(j, next, batch, Known(job))
    <2>1. Runs(next.kind) => j = Desk /\ batch # None
        BY <1>6, <1>8 DEF Runs
    <2>2. ASSUME batch # None, j = Desk, next.phase = "posted" PROVE Tallied(batch, next)
        <3>1. Tallied(batch, job) /\ next.deed = job.deed /\ job.spoilt \subseteq next.spoilt
            BY <1>7, <1>9, <1>11, <2>2 DEF GoesWell
        <3>2. QED
            BY <3>1 DEF Tallied
    <2>3. ASSUME Runs(next.kind), next.phase = "done"
          PROVE  Honest(RunEntry(batch, next.kind, Known(job)))
        <3>1. Tallied(batch, job)
            BY <1>9, <1>11, <2>1, <2>3
        <3>2. PICK entry : entry = RunEntry(batch, next.kind, Known(job))
            OBVIOUS
        <3>3. entry.items = batch.items /\ entry.deed = Known(job)
            BY <3>2 DEF RunEntry
        <3>4. Honest(entry)
            BY <3>1, <3>3, RunIsHonest
        <3>5. QED
            BY <3>2, <3>4
    <2>4. QED
        BY <1>11, <2>1, <2>2, <2>3 DEF InTally
<1>13. /\ next.phase = "posted" => Mindful(next, rows)
       /\ Busy(j) /\ next.phase = "done" => WordKept(j, next.report)
    BY <1>7, <1>9 DEF GoesWell, WordKept
<1>14. QED
    BY <1>1, <1>2, <1>4, <1>6, <1>10, <1>12, <1>13, BecomesHonest

\* What the host makes of a post, told of by an answer or not.
Serves(job, board, reply) ==
    LET i == Target(job)
    IN  /\ \A k \in Ideas : k # i => board[k] = rows[k]
        /\ board[i] \in {rows[i], Written(rows[i], StepOf(job))}
        /\ reply # None =>
              rows[i] \in Row /\ board[i] = Written(rows[i], StepOf(job)) /\ reply.rows = board

\* The job that posted minds its verb, heard of or not.
LEMMA ServedMindful ==
    ASSUME NEW job, Sound(job, rows), Mindful(job, rows), job.phase = "posted",
           NEW board, NEW reply \in {None} \cup Views, Serves(job, board, reply),
           NEW mark \in Marks, mark = [was |-> rows[Target(job)], is |-> board[Target(job)]],
           NEW blind \in SUBSET Ideas, NEW served, served = ServedAs(job, reply, mark, blind)
    PROVE  Mindful(served, board) /\ served.deed = job.deed /\ served.spoilt = job.spoilt
<1> DEFINE i == Target(job)
           row == rows[i]
           step == StepOf(job)
<1>1. job \in Jobs /\ i \in Ideas /\ AtWork(job) /\ Head(job.plan).steps \in Seq(Steps)
    <2>1. job \in Jobs /\ i \in Ideas /\ AtWork(job)
        BY SoundIsAtWork
    <2>2. QED
        BY <2>1, JobTyped, PlanHead DEF AtWork, Planful
<1>2. /\ served.phase = "served" /\ served.reply = reply /\ served.mark = mark
      /\ served.kind = job.kind /\ served.plan = job.plan /\ served.step = job.step
      /\ served.entry = job.entry /\ served.start = job.start /\ served.spoilt = job.spoilt
      /\ served.report = job.report /\ served.deed = job.deed /\ served.inverse = job.inverse
    BY <1>1 DEF ServedAs, Jobs
<1>3. Target(served) = i /\ StepOf(served) = step
    BY <1>2 DEF Target, StepOf
<1>4. mark.was = row /\ mark.is = board[i]
    OBVIOUS
<1>5. /\ board[i] \in {row, Written(row, step)}
      /\ reply # None => row \in Row /\ board[i] = Written(row, step) /\ reply.rows = board
    BY DEF Serves
<1>6. Short(served)
    BY <1>2 DEF Mindful, Short
<1>7. ASSUME i \notin job.spoilt PROVE Hears(served, board[i])
    <2>1. Poised(job, row) /\ Captures(job, row)
        BY <1>1, <1>7 DEF Mindful, Minds
    <2>2. CASE job.kind = "undo"
        <3>1. ASSUME job.step # 0, reply # None
              PROVE  Heads(served, i, Head(served.plan).steps, served.step + 1, board[i])
            <4>1. Heads(job, i, Head(job.plan).steps, job.step, row)
                BY <2>1, <2>2, <3>1 DEF Poised
            <4>2. PICK steps \in Seq(Steps) : steps = Head(job.plan).steps
                BY <1>1
            <4>3. job.step \in 1..Len(steps)
                BY <1>1, <3>1, <4>2, RunForms DEF AtWork
            <4>4. board[i] = Written(row, steps[job.step])
                BY <1>5, <3>1, <4>2 DEF StepOf
            <4>5. PICK goal : goal = Owed(job, i)
                OBVIOUS
            <4>6. ASSUME Whole(job.entry, i) PROVE Leads(steps, job.step + 1, board[i], goal)
                <5>1. Leads(steps, job.step, row, goal)
                    BY <4>1, <4>2, <4>5, <4>6 DEF Heads
                <5>2. Leads(steps, job.step + 1, Written(row, steps[job.step]), goal)
                    BY <4>3, <5>1, LeadsOn
                <5>3. QED
                    BY <4>4, <5>2
            <4>7. QED
                BY <1>2, <4>2, <4>5, <4>6 DEF Heads, Owed
        <3>2. QED
            BY <1>2, <1>3, <2>2, <3>1 DEF Hears
    <2>3. CASE job.kind # "undo"
        <3>1. Poised(served, row)
            BY <1>2, <1>3, <2>1, <2>3 DEF Poised, DeedSoFar
        <3>2. Captures(served, row)
            BY <1>2, <1>3, <2>1 DEF Captures
        <3>3. QED
            BY <1>2, <1>3, <1>4, <1>5, <2>3, <3>1, <3>2 DEF Hears
    <2>4. QED
        BY <2>2, <2>3
<1>8. ASSUME NEW k \in Ideas \ job.spoilt, k # i PROVE Pending(served, k, board[k])
    <2>1. Pending(job, k, rows[k]) /\ board[k] = rows[k]
        BY <1>8 DEF Mindful, Serves
    <2>2. QED
        BY <1>2, <2>1 DEF Pending, Heads, Closes, Owed
<1>9. ASSUME NEW k \in Ideas \ served.spoilt
      PROVE  IF k = Target(served) THEN Minds(served, board[k]) ELSE Pending(served, k, board[k])
    <2>1. k \in Ideas \ job.spoilt
        BY <1>2, <1>9
    <2>2. CASE k = i
        BY <1>2, <1>3, <1>7, <2>1, <2>2 DEF Minds
    <2>3. CASE k # i
        BY <1>3, <1>8, <2>1, <2>3
    <2>4. QED
        BY <2>2, <2>3
<1>10. QED
    BY <1>2, <1>6, <1>9 DEF Mindful

\* A job that learns of a write minds the rest as before.
LEMMA WarnedMindful ==
    ASSUME NEW job \in Jobs, NEW board, NEW new, NEW changed \in SUBSET Ideas,
           Mindful(job, board), \A i \in Ideas \ changed : new[i] = board[i],
           NEW other, other = Warned(job, changed)
    PROVE  Mindful(other, new) /\ other.deed = job.deed /\ other.spoilt = job.spoilt \cup changed
<1>1. /\ other.kind = job.kind /\ other.phase = job.phase /\ other.plan = job.plan
      /\ other.step = job.step /\ other.entry = job.entry /\ other.start = job.start
      /\ other.report = job.report /\ other.deed = job.deed /\ other.inverse = job.inverse
      /\ other.mark = job.mark /\ other.reply = job.reply /\ other.spoilt = job.spoilt \cup changed
    BY DEF Jobs, Warned
<1>2. Target(other) = Target(job) /\ StepOf(other) = StepOf(job) /\ Short(other)
    BY <1>1 DEF Target, StepOf, Mindful, Short
<1>3. ASSUME NEW i \in Ideas \ other.spoilt
      PROVE  IF i = Target(other) THEN Minds(other, new[i]) ELSE Pending(other, i, new[i])
    <2>1. i \in Ideas \ job.spoilt /\ new[i] = board[i]
        BY <1>1, <1>3
    <2>2. CASE i = Target(job)
        <3>1. Minds(job, new[i])
            BY <2>1, <2>2 DEF Mindful
        <3>2. \A row : Poised(job, row) => Poised(other, row)
            BY <1>1, <1>2 DEF Poised, DeedSoFar, Heads, Owed
        <3>3. \A row : Captures(job, row) => Captures(other, row)
            BY <1>1, <1>2 DEF Captures
        <3>4. \A row : Hears(job, row) => Hears(other, row)
            BY <1>1, <1>2, <3>2, <3>3 DEF Hears, Heads, Owed
        <3>5. Minds(other, new[i])
            BY <1>1, <3>1, <3>2, <3>3, <3>4 DEF Minds
        <3>6. QED
            BY <1>2, <2>2, <3>5
    <2>3. CASE i # Target(job)
        <3>1. Pending(job, i, new[i])
            BY <2>1, <2>3 DEF Mindful
        <3>2. Pending(other, i, new[i])
            BY <1>1, <3>1 DEF Pending, Heads, Closes, Owed
        <3>3. QED
            BY <1>2, <2>3, <3>2
    <2>4. QED
        BY <2>2, <2>3
<1>4. QED
    BY <1>1, <1>2, <1>3 DEF Mindful

\* A write is heard of by the job that made it, and spoils its ideas for the rest.
LEMMA SpoilsHonest ==
    ASSUME ClientInv, UndoInv, NEW writer \in Slots \cup {None}, NEW changed \in SUBSET Ideas, NEW job,
           \A i \in Ideas \ changed : rows'[i] = rows[i],
           writer \in Slots => /\ job.phase = "served" /\ Mindful(job, rows')
                               /\ job.deed = jobs[writer].deed /\ job.spoilt = jobs[writer].spoilt,
           jobs' = Spoils(changed, writer, job), UNCHANGED <<batch, stack>>
    PROVE  UndoInv' /\ StepKeepsWord
<1>1. /\ jobs \in [Slots -> Jobs] /\ Desk \in Slots
      /\ \A k \in Slots : Busy(k) => Mindful(jobs[k], rows)
    BY AtTheDesk DEF ClientInv, JobsSound, UndoInv
<1>2. \A k \in Slots : jobs'[k] = IF k = writer THEN job
                                  ELSE IF Busy(k) THEN Warned(jobs[k], changed) ELSE jobs[k]
    BY DEF Spoils, Warned
<1>3. ASSUME NEW k \in Slots
      PROVE  /\ Busy(k)' => Mindful(jobs'[k], rows')
             /\ jobs'[k].deed = jobs[k].deed /\ jobs[k].spoilt \subseteq jobs'[k].spoilt
             /\ ~Finishes(k)
    <2>1. CASE k = writer
        BY <1>2, <2>1 DEF Finishes
    <2>2. CASE k # writer /\ Busy(k)
        <3>1. PICK other : other = Warned(jobs[k], changed)
            OBVIOUS
        <3>2. /\ Mindful(other, rows') /\ other.deed = jobs[k].deed
              /\ other.spoilt = jobs[k].spoilt \cup changed
            <4>1. PICK one, board, new : one = jobs[k] /\ board = rows /\ new = rows'
                OBVIOUS
            <4>2. /\ one \in Jobs /\ Mindful(one, board) /\ other = Warned(one, changed)
                  /\ \A i \in Ideas \ changed : new[i] = board[i]
                BY <1>1, <2>2, <3>1, <4>1
            <4>3. Mindful(other, new) /\ other.deed = one.deed /\ other.spoilt = one.spoilt \cup changed
                BY <4>2, WarnedMindful
            <4>4. QED
                BY <4>1, <4>3
        <3>3. jobs'[k] = other
            BY <1>2, <2>2, <3>1
        <3>4. other.phase = jobs[k].phase
            BY <1>1, <3>1 DEF Warned, Jobs
        <3>5. QED
            BY <2>2, <3>2, <3>3, <3>4 DEF Finishes, Busy
    <2>3. CASE k # writer /\ ~Busy(k)
        BY <1>2, <2>3 DEF Busy, Finishes
    <2>4. QED
        BY <2>1, <2>2, <2>3
<1>4. batch' # None => Tallied(batch', jobs'[Desk])
    BY <1>1, <1>3 DEF UndoInv, Tallied
<1>5. QED
    BY <1>3, <1>4 DEF UndoInv, StepKeepsWord

\* The host's part: what the job that posted hears of, and what it does not.
LEMMA ServeHonest ==
    ASSUME ClientInv, ClientInv', UndoInv, NEW j \in Slots, Serve(j)
    PROVE  UndoInv' /\ StepKeepsWord
<1> DEFINE job == jobs[j]
           i == Target(job)
           row == rows[i]
           step == StepOf(job)
           changed == IF rows'[i] # row THEN {i} ELSE {}
           mark == [was |-> row, is |-> rows'[i]]
           Works == /\ row # Gone
                    /\ rows' = [rows EXCEPT ![i] = Written(row, step)]
                    /\ revision' = IF Commits(row, step) THEN revision + 1 ELSE revision
           Answering(reply, blind) == jobs' = Spoils(changed, j, ServedAs(job, reply, mark, blind))
           blinder == IF Head(job.plan).round /\ job.step = 1 THEN job.blind \cup {i} ELSE job.blind
<1>1. /\ job.phase = "posted" /\ Busy(j)
      /\ UNCHANGED <<batch, stack>>
      /\ \/ Works /\ Answering([revision |-> revision', rows |-> rows'], job.blind)
         \/ rows' = rows /\ Answering(None, job.blind)
         \/ Works /\ Answering(None, blinder)
    BY DEF Serve, Busy, ServedAs
<1>2. /\ rows \in Boards /\ rows' \in Boards /\ revision' \in Nat
    BY DEF ClientInv, TabSound
<1>3. Sound(job, rows) /\ Mindful(job, rows)
    BY <1>1 DEF ClientInv, JobsSound, UndoInv
<1>4. /\ job \in Jobs /\ i \in Ideas /\ step \in Steps /\ job.blind \in SUBSET Ideas
    BY <1>3, SoundIsAtWork, JobTyped
<1>5. job = jobs[j] /\ i = Target(job) /\ step = StepOf(job) /\ row = rows[i]
    OBVIOUS
<1> HIDE DEF job, i, step, row
<1>6. blinder \in SUBSET Ideas
    BY <1>4
<1>7. row \in Row \cup {Gone} /\ rows'[i] \in Row \cup {Gone} /\ mark \in Marks
    <2>1. row \in Row \cup {Gone} /\ rows'[i] \in Row \cup {Gone}
        BY <1>2, <1>4, <1>5 DEF Boards
    <2>2. QED
        BY <2>1 DEF Marks
<1>8. ASSUME Works
      PROVE  row \in Row /\ rows'[i] = Written(row, step) /\ \A k \in Ideas : k # i => rows'[k] = rows[k]
    BY <1>2, <1>4, <1>7, <1>8 DEF Boards
<1>9. ASSUME NEW reply \in {None} \cup Views, NEW blind \in SUBSET Ideas, Answering(reply, blind),
             Serves(job, rows', reply)
      PROVE  UndoInv' /\ StepKeepsWord
    <2>1. PICK served, board, seen : served = ServedAs(job, reply, seen, blind) /\ board = rows' /\ seen = mark
        OBVIOUS
    <2>2. /\ seen \in Marks /\ seen = [was |-> rows[Target(job)], is |-> board[Target(job)]]
          /\ Serves(job, board, reply)
        BY <1>5, <1>7, <1>9, <2>1
    <2>3. Mindful(served, board) /\ served.deed = job.deed /\ served.spoilt = job.spoilt
        BY <1>1, <1>3, <2>1, <2>2, ServedMindful
    <2>4. served.phase = "served"
        BY <1>4, <2>1 DEF ServedAs, Jobs
    <2>5. PICK spoils : spoils = changed
        OBVIOUS
    <2>6. spoils \in SUBSET Ideas /\ \A k \in Ideas \ spoils : rows'[k] = rows[k]
        <3>1. \A k \in Ideas : k # i => rows'[k] = rows[k]
            BY <1>5, <1>9 DEF Serves
        <3>2. QED
            BY <1>4, <1>5, <2>5, <3>1
    <2>7. jobs' = Spoils(spoils, j, served)
        BY <1>9, <2>1, <2>5
    <2>8. /\ j \in Slots \cup {None}
          /\ j \in Slots => /\ served.phase = "served" /\ Mindful(served, rows')
                            /\ served.deed = jobs[j].deed /\ served.spoilt = jobs[j].spoilt
        BY <1>5, <2>1, <2>3, <2>4
    <2>9. QED
        BY <1>1, <2>6, <2>7, <2>8, SpoilsHonest
<1>10. CASE Works /\ Answering([revision |-> revision', rows |-> rows'], job.blind)
    <2>1. PICK reply : reply = [revision |-> revision', rows |-> rows']
        OBVIOUS
    <2>2. reply \in Views /\ reply.rows = rows'
        BY <1>2, <2>1 DEF Views
    <2>3. Serves(job, rows', reply)
        BY <1>5, <1>8, <1>10, <2>2 DEF Serves
    <2>4. Answering(reply, job.blind)
        BY <1>10, <2>1
    <2> HIDE DEF Answering
    <2>5. QED
        BY <1>4, <1>9, <2>2, <2>3, <2>4
<1>11. CASE rows' = rows /\ Answering(None, job.blind)
    <2>1. Serves(job, rows', None)
        BY <1>11 DEF Serves
    <2>2. Answering(None, job.blind)
        BY <1>11
    <2> HIDE DEF Answering
    <2>3. QED
        BY <1>4, <1>9, <2>1, <2>2
<1>12. CASE Works /\ Answering(None, blinder)
    <2>1. Serves(job, rows', None)
        BY <1>5, <1>8, <1>12 DEF Serves
    <2>2. Answering(None, blinder)
        BY <1>12
    <2> HIDE DEF Answering, blinder
    <2>3. QED
        BY <1>6, <1>9, <2>1, <2>2
<1>13. QED
    BY <1>1, <1>10, <1>11, <1>12

\* Somebody else writes, or the document is set aside.
LEMMA OthersHonest ==
    ASSUME ClientInv, UndoInv,
           \/ \E i \in Ideas, row \in Row \cup {Gone} : Other(i, row)
           \/ Quarantine
    PROVE  UndoInv' /\ StepKeepsWord
<1>1. None \in Slots \cup {None} /\ None \notin Slots
    BY NoneAssumption
<1>2. rows \in Boards
    BY DEF ClientInv, TabSound
<1>3. PICK changed \in SUBSET Ideas : /\ jobs' = Spoils(changed, None, None)
                                      /\ \A i \in Ideas \ changed : rows'[i] = rows[i]
    <2>1. ASSUME NEW i \in Ideas, NEW row \in Row \cup {Gone}, Other(i, row)
          PROVE  /\ {i} \in SUBSET Ideas /\ jobs' = Spoils({i}, None, None)
                 /\ \A k \in Ideas \ {i} : rows'[k] = rows[k]
        BY <1>2, <2>1 DEF Other, Boards
    <2>2. ASSUME Quarantine
          PROVE  jobs' = Spoils(Ideas, None, None)
        BY <2>2 DEF Quarantine
    <2>3. QED
        BY <2>1, <2>2
<1>4. UNCHANGED <<batch, stack>>
    BY DEF Other, Quarantine
<1>5. QED
    BY <1>1, <1>3, <1>4, SpoilsHonest

\* A tab that only reads, and a stack whose oldest entry has expired.
LEMMA ReadingHonest ==
    ASSUME ClientInv, UndoInv, Expire \/ Poll \/ PollAnswered
    PROVE  UndoInv' /\ StepKeepsWord
<1>1. UNCHANGED <<rows, jobs, batch>>
    BY DEF Expire, Poll, PollAnswered
<1>2. stack' \in Seq(HonestEntries)
    <2>1. stack' = stack \/ (stack # <<>> /\ stack' = Tail(stack))
        BY DEF Expire, Poll, PollAnswered
    <2>2. stack \in Seq(HonestEntries)
        BY DEF UndoInv
    <2>3. QED
        BY <2>1, <2>2
<1>3. \A k \in Slots : ~Finishes(k)
    BY <1>1 DEF Finishes, Busy
<1>4. \A k \in Slots : Busy(k)' => Mindful(jobs'[k], rows')
    BY <1>1 DEF UndoInv, Busy
<1>5. batch' # None => Tallied(batch', jobs'[Desk])
    BY <1>1 DEF UndoInv
<1>6. QED
    BY <1>2, <1>3, <1>4, <1>5 DEF UndoInv, StepKeepsWord

\* A job of the desk begins: what was honest stays so.
LEMMA EditStartsHonest ==
    ASSUME ClientInv, ClientInv', UndoInv, NEW i \in Ideas, NEW step \in Steps, Edit(i, step)
    PROVE  UndoInv' /\ StepKeepsWord
<1>1. PICK job : ~Busy(Desk) /\ Fresh(job) /\ job.kind = "edit" /\ Starts(Desk, job, undoing, batch, stack)
    BY EditBegins
<1>2. job.kind # "undo" /\ ~Runs(job.kind)
    BY <1>1 DEF Runs
<1>3. QED
    BY <1>1, <1>2, DeskStartsHonest

LEMMA RestoreArchivedStartsHonest ==
    ASSUME ClientInv, ClientInv', UndoInv, RestoreArchived
    PROVE  UndoInv' /\ StepKeepsWord
<1>1. PICK job : ~Busy(Desk) /\ Fresh(job) /\ job.kind = "restore" /\ Starts(Desk, job, undoing, batch, stack)
    BY RestoreArchivedBegins
<1>2. job.kind # "undo" /\ ~Runs(job.kind)
    BY <1>1 DEF Runs
<1>3. QED
    BY <1>1, <1>2, DeskStartsHonest

\* The invariant holds, and an undo that finishes keeps its word.
LEMMA InitHonest == Init => UndoInv
<1> SUFFICES ASSUME Init PROVE UndoInv
    OBVIOUS
<1>1. jobs = [j \in Slots |-> Idle] /\ batch = None /\ stack = <<>>
    BY DEF Init
<1>2. \A j \in Slots : ~Busy(j)
    BY <1>1 DEF Busy, Idle
<1>3. QED
    BY <1>1, <1>2 DEF UndoInv

\* Every step keeps the invariant, and the word of an undo it finishes.
LEMMA StepHonest ==
    ASSUME ClientInv, UndoInv, [Next]_vars
    PROVE  UndoInv' /\ (Next => StepKeepsWord)
<1>1. ClientInv'
    BY StepSound
<1>2. CASE UNCHANGED vars
    <2>1. UNCHANGED <<rows, jobs, batch, stack>>
        BY <1>2 DEF vars
    <2>2. \A k \in Slots : ~Finishes(k)
        BY <2>1 DEF Finishes, Busy
    <2>3. UndoInv'
        <3>1. \A k \in Slots : Busy(k)' => Mindful(jobs'[k], rows')
            BY <2>1 DEF UndoInv, Busy
        <3>2. batch' # None => Tallied(batch', jobs'[Desk])
            BY <2>1 DEF UndoInv
        <3>3. QED
            BY <2>1, <3>1, <3>2 DEF UndoInv
    <2>4. QED
        BY <2>2, <2>3 DEF StepKeepsWord
<1>3. ASSUME Next PROVE UndoInv' /\ StepKeepsWord
    <2>1. CASE \E i \in Ideas, step \in Steps : Edit(i, step)
        BY <1>1, <2>1, EditStartsHonest
    <2>2. CASE \E kind \in {"tag", "archive"}, chosen \in SUBSET Ideas \ {{}} : Bulk(kind, chosen)
        BY <1>1, <2>2, BulkStartsHonest
    <2>3. CASE RestoreArchived
        BY <1>1, <2>3, RestoreArchivedStartsHonest
    <2>4. CASE \E u \in 1..Undos : Undo(u)
        BY <1>1, <2>4, UndoStartsHonest
    <2>5. CASE \E j \in Slots : JobStep(j)
        <3>1. PICK j \in Slots : Serve(j) \/ Answered(j) \/ Refused(j)
            BY <2>5 DEF JobStep
        <3>2. CASE Serve(j)
            BY <1>1, <3>2, ServeHonest
        <3>3. CASE Answered(j)
            BY <1>1, <3>3, AnsweredHonest
        <3>4. CASE Refused(j)
            BY <1>1, <3>4, RefusedHonest
        <3>5. QED
            BY <3>1, <3>2, <3>3, <3>4
    <2>6. CASE Expire \/ Poll \/ PollAnswered
        BY <2>6, ReadingHonest
    <2>7. CASE Quarantine \/ \E i \in Ideas, row \in Row \cup {Gone} : Other(i, row)
        BY <2>7, OthersHonest
    <2>8. QED
        BY <1>3, <2>1, <2>2, <2>3, <2>4, <2>5, <2>6, <2>7 DEF Next
<1>4. QED
    BY <1>2, <1>3

\* The invariant holds throughout.
LEMMA UndoInvariant == Spec => []UndoInv
<1>1. Init => UndoInv
    BY InitHonest
<1>2. ClientInv /\ UndoInv /\ [Next]_vars => UndoInv'
    BY StepHonest
<1>3. Spec => []ClientInv
    BY ClientInvariant
<1>4. QED
    BY <1>1, <1>2, <1>3, PTL DEF Spec

\* An undo that is over has put back, idea by idea, what the action had changed
\* of it, kept off every idea that somebody else has written since, and changed
\* nothing else (undoLast, planUndo, mergedExpectation, reboundPlan).
THEOREM UndosPutBack == Spec => UndoPutsBack
<1> DEFINE PutsAllBack ==
      \A u \in 1..Undos : Finishes(u) =>
          LET job == jobs[u]
          IN  \A i \in Ideas \ job.spoilt :
                 /\ jobs'[u].report[i] \in {"none", "applied", "skipped"}
                 /\ Whole(job.entry, i)
                 => rows'[i] = Undone(job.entry, job.start[i], i)
<1>1. ASSUME ClientInv, UndoInv, [Next]_vars
      PROVE  [PutsAllBack]_vars
    <2> SUFFICES ASSUME Next PROVE PutsAllBack
        BY <1>1
    <2> SUFFICES ASSUME NEW u \in 1..Undos, Finishes(u), NEW i \in Ideas \ jobs[u].spoilt,
                        jobs'[u].report[i] \in {"none", "applied", "skipped"},
                        Whole(jobs[u].entry, i)
                 PROVE  rows'[i] = Undone(jobs[u].entry, jobs[u].start[i], i)
        OBVIOUS
    <2>1. StepKeepsWord
        BY <1>1, StepHonest
    <2>2. u \in Slots /\ jobs[u].kind = "undo"
        <3>1. \A w \in 1..Undos : w \in Slots /\ (Busy(w) => jobs[w].kind = "undo")
            BY <1>1, ClientAssumption DEF ClientInv, JobsSound, Desk, Slots
        <3>2. Busy(u)
            BY DEF Finishes
        <3>3. QED
            BY <3>1, <3>2
    <2>3. Closes(jobs[u], jobs'[u].report, i, rows'[i])
        BY <2>1, <2>2 DEF StepKeepsWord
    <2>4. rows'[i] = Owed(jobs[u], i)
        BY <2>3 DEF Closes, Clean
    <2>5. QED
        BY <2>4 DEF Owed
<1>2. Spec => []ClientInv /\ []UndoInv
    BY ClientInvariant, UndoInvariant
<1>3. QED
    BY <1>1, <1>2, PTL DEF Spec, UndoPutsBack

=============================================================================
