---------------------------- MODULE IdeasLedger ----------------------------
(***************************************************************************)
(* The board document of IdeasHostLedger and the verbs that change it      *)
(* (host-ledger.ts, `apply`).  One action is one verb: its guard is the    *)
(* verb's refusals and early returns, its effect the document it commits.  *)
(*                                                                         *)
(* Kept of a row: its place in the document, column, workspace, rank,      *)
(* number, follow-up parent, delivery stamp and relation lists.  Text,     *)
(* tags, scores, clocks and the activity log are left out: no rule of the  *)
(* document depends on them.  The write to disk, the revision and the      *)
(* request cache are the subject of LedgerStore; the run and card stamps   *)
(* that the host writes beside the verbs, of RunLifecycle.                 *)
(***************************************************************************)
EXTENDS IdeaRelations, Sequences

CONSTANTS
    None,           \* an absent optional field
    Workspaces,     \* workspace ids, the generic group among them
    Ranks,          \* ranks a create or an update may state
    TriageRanks,    \* positions a triage may ask for, out of range included
    Patches,        \* the update patches that are sent
    Sources,        \* sourceIds of the imports
    ImportOf,       \* the rows each source carries, in order
    MaxNumber       \* bound on ideaSequence

Statuses == {"open", "underReview", "archived", "declined"}

\* A field of a patch that the patch does not mention is None.
PatchType ==
    [workspace : Workspaces \cup {None}, rank : Ranks \cup {None},
     relatesTo : (SUBSET Ids) \cup {None}, blocks : (SUBSET Ids) \cup {None}]

ImportRow ==
    [id : Ids, status : Statuses, workspace : Workspaces \cup {None},
     rank : Nat, number : Nat, parent : Ids \cup {None}, delivered : BOOLEAN,
     relatesTo : SUBSET Ids, blocks : SUBSET Ids]

ASSUME NoneAssumption == None \notin Ids \cup Workspaces

ASSUME InputsAssumption ==
    /\ Workspaces # {}
    /\ Ranks \subseteq Nat \ {0}
    /\ TriageRanks \subseteq Int
    /\ Patches \subseteq PatchType
    /\ ImportOf \in [Sources -> Seq(ImportRow)]
    /\ MaxNumber \in Nat

VARIABLES
    place,          \* index of the row in document.ideas; 0 = no such row
    status,
    workspace,
    rank,           \* 0 = unranked
    number,         \* ideaNumber; 0 = none
    parent,         \* followUpOfId
    delivered,      \* the rows carrying deliveredAt
    relatesTo,
    blocks,
    ideaSequence,
    imported,       \* importedSources
    minted          \* ids some row has had: randomUUID never returns one again

vars == <<place, status, workspace, rank, number, parent, delivered,
          relatesTo, blocks, ideaSequence, imported, minted>>

rowVars == <<place, status, workspace, rank, number, parent, delivered>>
relationVars == <<relatesTo, blocks>>
counterVars == <<ideaSequence, imported, minted>>

Live == {i \in Ids : place[i] # 0}

AnyWorkspace == CHOOSE w \in Workspaces : TRUE

\* Types of the document: the rows, the two relation lists, what was issued.
TypeOK ==
    /\ place \in [Ids -> Nat]
    /\ status \in [Ids -> Statuses]
    /\ workspace \in [Ids -> Workspaces]
    /\ rank \in [Ids -> Nat]
    /\ number \in [Ids -> Nat]
    /\ parent \in [Ids -> Ids \cup {None}]
    /\ delivered \subseteq Ids
    /\ relatesTo \in Graphs
    /\ blocks \in Graphs
    /\ ideaSequence \in Nat
    /\ imported \subseteq Sources
    /\ minted \subseteq Ids

Init ==
    /\ place = [i \in Ids |-> 0]
    /\ status = [i \in Ids |-> "open"]
    /\ workspace = [i \in Ids |-> AnyWorkspace]
    /\ rank = [i \in Ids |-> 0]
    /\ number = [i \in Ids |-> 0]
    /\ parent = [i \in Ids |-> None]
    /\ delivered = {}
    /\ relatesTo = [i \in Ids |-> {}]
    /\ blocks = [i \in Ids |-> {}]
    /\ ideaSequence = 0
    /\ imported = {}
    /\ minted = {}

----------------------------------------------------------------------------
(* Rank: a position inside one (status, workspace) group.                  *)

SameGroup(i, j) == status[i] = status[j] /\ workspace[i] = workspace[j]

\* The sort of rankOrdered: unranked rows last, ties in document order.
RankedBefore(i, j) ==
    \/ rank[i] # 0 /\ (rank[j] = 0 \/ rank[i] < rank[j])
    \/ rank[i] = rank[j] /\ place[i] < place[j]

Clamped(k, low, high) == IF k < low THEN low ELSE IF k > high THEN high ELSE k

\* A slip: the peer that stood at the position keeps it.
RerankedOver(moved, peers, k) ==
    LET at == Clamped(k, 1, Cardinality(peers) + 1)
        ahead(j) == Cardinality({p \in peers : RankedBefore(p, j)})
    IN  [j \in Ids |->
            IF j = moved THEN at
            ELSE IF j \notin peers THEN rank[j]
            ELSE IF ahead(j) + 1 <= at THEN ahead(j) + 1 ELSE ahead(j) + 2]

\* A slip: the peers are renumbered in document order.
RerankedByPlace(moved, peers, k) ==
    LET at == Clamped(k, 1, Cardinality(peers) + 1)
        ahead(j) == Cardinality({p \in peers : place[p] < place[j]})
    IN  [j \in Ids |->
            IF j = moved THEN at
            ELSE IF j \notin peers THEN rank[j]
            ELSE IF ahead(j) + 1 < at THEN ahead(j) + 1 ELSE ahead(j) + 2]

\* The ranks after `moved` is inserted at position k among `peers`
\* (triageOrderedIds, then the renumbering of the group from 1).
Reranked(moved, peers, k) ==
    LET at == Clamped(k, 1, Cardinality(peers) + 1)
        ahead(j) == Cardinality({p \in peers : RankedBefore(p, j)})
    IN  [j \in Ids |->
            IF j = moved THEN at
            ELSE IF j \notin peers THEN rank[j]
            ELSE IF ahead(j) + 1 < at THEN ahead(j) + 1 ELSE ahead(j) + 2]

OpenPeers(i) ==
    {j \in Live \ {i} : status[j] = "open" /\ workspace[j] = workspace[i]}

----------------------------------------------------------------------------
(* The verbs.                                                              *)

Append1(i) == place' = [place EXCEPT ![i] = Cardinality(Live) + 1]

\* A slip: the next number counted from the rows that are left.
NextNumberByCount == Cardinality(Live) + 1

\* The capture sequence: the next #N, of a create and of a follow-up.
NextNumber == ideaSequence + 1

Create(i, w, r) ==
    /\ i \notin minted
    /\ NextNumber <= MaxNumber
    /\ Append1(i)
    /\ workspace' = [workspace EXCEPT ![i] = w]
    /\ rank' = [rank EXCEPT ![i] = r]
    /\ ideaSequence' = NextNumber
    /\ number' = [number EXCEPT ![i] = ideaSequence']
    /\ minted' = minted \cup {i}
    /\ UNCHANGED <<status, parent, delivered, relationVars, imported>>

\* One patch, all or nothing: a refused relation refuses the whole verb.
Update(i, patch) ==
    /\ i \in Live
    /\ workspace' = IF patch.workspace = None THEN workspace
                    ELSE [workspace EXCEPT ![i] = patch.workspace]
    /\ rank' = IF patch.rank = None THEN rank
               ELSE [rank EXCEPT ![i] = patch.rank]
    /\ \/ patch.relatesTo = None /\ relatesTo' = relatesTo
       \/ /\ patch.relatesTo # None
          /\ LegalTargets(Live, i, patch.relatesTo)
          /\ relatesTo' = WithRelatesTo(relatesTo, i, patch.relatesTo)
    /\ \/ patch.blocks = None /\ blocks' = blocks
       \/ /\ patch.blocks # None
          /\ LegalTargets(Live, i, patch.blocks)
          /\ BlocksAccepted(blocks, i, patch.blocks)
          /\ blocks' = [blocks EXCEPT ![i] = patch.blocks]
    /\ UNCHANGED <<place, status, number, parent, delivered, counterVars>>

Move(i, to) ==
    /\ i \in Live
    /\ status[i] # to
    /\ status' = [status EXCEPT ![i] = to]
    /\ UNCHANGED <<place, workspace, rank, number, parent, delivered,
                   relationVars, counterVars>>

Decline(i) ==
    /\ i \in Live
    /\ status[i] # "declined"
    /\ status' = [status EXCEPT ![i] = "declined"]
    /\ UNCHANGED <<place, workspace, rank, number, parent, delivered,
                   relationVars, counterVars>>

Deliver(i) ==
    /\ i \in Live
    /\ status[i] \in {"open", "underReview"}
    /\ status' = [status EXCEPT ![i] = "archived"]
    /\ delivered' = delivered \cup {i}
    /\ UNCHANGED <<place, workspace, rank, number, parent,
                   relationVars, counterVars>>

\* A triage that names a rank moves an open idea inside its own group; one
\* that does not, and one of a closed idea, only records the opinion.
Triage(i, k) ==
    /\ i \in Live
    /\ status[i] = "open"
    /\ rank' = Reranked(i, OpenPeers(i), k)
    /\ UNCHANGED <<place, status, workspace, number, parent, delivered,
                   relationVars, counterVars>>

\* The review asked for more: the parent leaves the board, and a child takes
\* its place in the backlog.
FollowUp(i, child) ==
    /\ i \in Live
    /\ status[i] = "underReview"
    /\ child \notin minted
    /\ NextNumber <= MaxNumber
    /\ Append1(child)
    /\ status' = [status EXCEPT ![i] = "archived"]
    /\ workspace' = [workspace EXCEPT ![child] = workspace[i]]
    /\ parent' = [parent EXCEPT ![child] = i]
    /\ ideaSequence' = NextNumber
    /\ number' = [number EXCEPT ![child] = ideaSequence']
    /\ minted' = minted \cup {child}
    /\ UNCHANGED <<rank, delivered, relationVars, imported>>

\* A slip: nothing stops the survivor from inheriting itself.
InheritedUnguarded(loser, survivor) ==
    IF parent[survivor] # None THEN parent[survivor] ELSE parent[loser]

\* The survivor's parent: inherited only when it has none, and never itself.
InheritedParent(loser, survivor) ==
    IF parent[survivor] # None \/ parent[loser] = survivor
    THEN parent[survivor]
    ELSE parent[loser]

MergedParents(loser, survivor) ==
    [i \in Ids |->
        IF i = survivor THEN InheritedParent(loser, survivor)
        ELSE IF i # loser /\ parent[i] = loser THEN survivor
        ELSE parent[i]]

\* The graphs before the repair: every row that named the loser names the
\* survivor, and the survivor adds the loser's edges to its own.
MergedGraphs(graph, loser, survivor) ==
    LET moved == [i \in Ids |-> Repointed(graph[i], i, loser, survivor)]
    IN  {[moved EXCEPT ![survivor] = list \ {survivor}] :
            list \in CappedUnion(moved[survivor], moved[loser])}

\* takeSourceRank: after the archive, so the loser is no longer a peer.
MergedRanks(loser, survivor, mode) ==
    IF mode = "takeSourceRank" /\ status[survivor] = "open" /\ rank[loser] # 0
    THEN Reranked(survivor, OpenPeers(survivor) \ {loser}, rank[loser])
    ELSE rank

Merge(loser, survivor, mode) ==
    /\ loser \in Live
    /\ survivor \in Live
    /\ loser # survivor
    /\ workspace[loser] = workspace[survivor]
    /\ status' = [status EXCEPT ![loser] = "archived"]
    /\ parent' = MergedParents(loser, survivor)
    /\ rank' = MergedRanks(loser, survivor, mode)
    /\ \E merged \in MergedGraphs(relatesTo, loser, survivor) :
          relatesTo' = Symmetrized(Cleaned(merged, Live), place)
    /\ \E merged \in MergedGraphs(blocks, loser, survivor) :
          LET graph == Cleaned(merged, Live)
          IN  \E kept \in Subgraphs(graph) :
                 blocks' = kept /\ IsPruning(graph, kept, place)
    /\ UNCHANGED <<place, workspace, number, delivered, counterVars>>

Restore(i) ==
    /\ i \in Live
    /\ status[i] # "open"
    /\ status' = [status EXCEPT ![i] = "open"]
    /\ UNCHANGED <<place, workspace, rank, number, parent, delivered,
                   relationVars, counterVars>>

\* The row goes, and with it every edge that named it; a child keeps naming it.
Delete(i) ==
    /\ i \in Live
    /\ place' = [j \in Ids |-> IF j = i THEN 0
                               ELSE IF place[j] > place[i] THEN place[j] - 1
                               ELSE place[j]]
    /\ status' = [status EXCEPT ![i] = "open"]
    /\ workspace' = [workspace EXCEPT ![i] = AnyWorkspace]
    /\ rank' = [rank EXCEPT ![i] = 0]
    /\ number' = [number EXCEPT ![i] = 0]
    /\ parent' = [parent EXCEPT ![i] = None]
    /\ delivered' = delivered \ {i}
    /\ relatesTo' = WithoutIdea(relatesTo, i)
    /\ blocks' = WithoutIdea(blocks, i)
    /\ UNCHANGED counterVars

\* order: the listed rows, each with its index in the list.
PositionIn(order, i) ==
    Cardinality({j \in DOMAIN order : SameGroup(i, j) /\ order[j] <= order[i]})

\* A slip: a row the list leaves out loses its rank.
ReorderedRanksOnly(order) ==
    [i \in Ids |-> IF i \in DOMAIN order THEN PositionIn(order, i) ELSE 0]

ReorderedRanks(order) ==
    [i \in Ids |-> IF i \in DOMAIN order THEN PositionIn(order, i) ELSE rank[i]]

Reorder(order) ==
    /\ DOMAIN order \subseteq Live
    /\ rank' = ReorderedRanks(order)
    /\ UNCHANGED <<place, status, workspace, number, parent, delivered,
                   relationVars, counterVars>>

Orderings ==
    UNION {{order \in [S -> 1..Cardinality(S)] :
               \A i, j \in S : i # j => order[i] # order[j]} :
           S \in SUBSET Live}

----------------------------------------------------------------------------
(* Import: rows merged by id, once per source.                             *)

IdsOf(rows) == {rows[n].id : n \in DOMAIN rows}

\* The rows that state a field of i.
Stating(rows, i, field, absent) ==
    {n \in DOMAIN rows : rows[n].id = i /\ rows[n][field] # absent}

\* The last row that states a field gives it; where none does it is left alone.
Overlaid(rows, stored, field, absent) ==
    [i \in Ids |->
        LET stating == Stating(rows, i, field, absent)
        IN  IF stating = {} THEN stored[i]
            ELSE rows[CHOOSE n \in stating : \A m \in stating : m <= n][field]]

\* The rows of the payload that bring an id the document lacks.
Arrivals(rows) ==
    {n \in DOMAIN rows :
        rows[n].id \notin Live /\ \A m \in DOMAIN rows : m < n => rows[m].id # rows[n].id}

\* A new row goes to the end of the document, in the order of the payload.
PlaceAfterImport(rows) ==
    [i \in Ids |->
        IF i \in IdsOf(rows) \ Live
        THEN Cardinality(Live) +
             Cardinality({n \in Arrivals(rows) : \A m \in DOMAIN rows :
                             rows[m].id = i => n <= m})
        ELSE place[i]]

\* The sequence is kept past the largest imported number.
SequenceAfterImport(rows) ==
    LET numbers == {ideaSequence} \cup {rows[n].number : n \in DOMAIN rows}
    IN  {n \in numbers : \A m \in numbers : m <= n}

Import(s) ==
    LET rows == ImportOf[s]
        known == Live \cup IdsOf(rows)
        related == Overlaid(rows, relatesTo, "relatesTo", {})
        blocking == Cleaned(Overlaid(rows, blocks, "blocks", {}), known)
    IN  /\ s \notin imported
        /\ place' = PlaceAfterImport(rows)
        /\ status' = Overlaid(rows, status, "status", None)
        /\ workspace' = Overlaid(rows, workspace, "workspace", None)
        /\ rank' = Overlaid(rows, rank, "rank", 0)
        /\ number' = Overlaid(rows, number, "number", 0)
        /\ parent' = Overlaid(rows, parent, "parent", None)
        /\ delivered' = delivered \cup {i \in Ids : Stating(rows, i, "delivered", FALSE) # {}}
        /\ relatesTo' = Symmetrized(Cleaned(related, known), place')
        /\ \E kept \in Subgraphs(blocking) :
              blocks' = kept /\ IsPruning(blocking, kept, place')
        /\ ideaSequence' \in SequenceAfterImport(rows)
        /\ imported' = imported \cup {s}
        /\ minted' = minted \cup IdsOf(rows)

----------------------------------------------------------------------------
MergeModes == {"keepTargetRank", "takeSourceRank"}

Next ==
    \/ \E i \in Ids, w \in Workspaces, r \in Ranks \cup {0} : Create(i, w, r)
    \/ \E i \in Ids, patch \in Patches : Update(i, patch)
    \/ \E i \in Ids, to \in Statuses \ {"declined"} : Move(i, to)
    \/ \E i \in Ids : Decline(i)
    \/ \E i \in Ids : Deliver(i)
    \/ \E i \in Ids, k \in TriageRanks : Triage(i, k)
    \/ \E i, child \in Ids : FollowUp(i, child)
    \/ \E loser, survivor \in Ids, mode \in MergeModes :
          Merge(loser, survivor, mode)
    \/ \E i \in Ids : Restore(i)
    \/ \E i \in Ids : Delete(i)
    \/ \E order \in Orderings : Reorder(order)
    \/ \E s \in Sources : Import(s)

Spec == Init /\ [][Next]_vars

----------------------------------------------------------------------------
(* What the document owes its readers.                                     *)

\* No relation names the row itself or a row that is gone: a delete sweeps
\* every list, a merge and an import repair theirs.
RelationsLive == Proper(relatesTo, Live) /\ Proper(blocks, Live)

\* Nothing waits for itself through others, whatever mix of updates, merges,
\* deletes and imports wrote the edges.
BlocksAcyclic == Acyclic(blocks)

\* Each relatesTo edge appears on both endpoints.
RelatesSymmetric == Symmetric(relatesTo)

\* No live row carries a number the sequence has yet to issue.
NumbersIssued == \A i \in Live : number[i] <= ideaSequence

\* The #N given to a new capture or follow-up is carried by no other row.
NewNumberFresh ==
    [][\/ \A i \in Live' \ Live, j \in Live : number'[i] # number[j]
       \/ \E s \in Sources : Import(s)]_vars

\* No merge makes an idea its own parent.
NoSelfParent == \A i \in Ids : parent[i] # i

\* A merged duplicate keeps what it stated, so restoring it loses nothing,
\* and no row of the board is stated to hold it back any more.
MergeFoldsLoser ==
    [][\A loser \in Ids :
        \/ /\ blocks'[loser] = blocks[loser]
           /\ relatesTo[loser] \subseteq relatesTo'[loser]
           /\ \A i \in Ids : loser \notin blocks'[i]
        \/ \A survivor \in Ids, mode \in MergeModes : ~Merge(loser, survivor, mode)]_vars

\* A triage lands the idea where it was asked to, and leaves its open group
\* ranked 1..n.
TriageLands ==
    [][\A i \in Ids, k \in TriageRanks : Triage(i, k) =>
        LET group == OpenPeers(i) \cup {i}
        IN  /\ rank'[i] = Clamped(k, 1, Cardinality(group))
            /\ {rank'[j] : j \in group} = 1..Cardinality(group)]_vars

\* A triage or a merge moves at most one idea: any two others of a group
\* keep their order, ties and unranked rows included.
OneIdeaMoves ==
    [][\/ \E mover \in Ids : \A i, j \in Live \ {mover} :
              SameGroup(i, j) /\ SameGroup(i, j)' /\ RankedBefore(i, j)
                  => RankedBefore(i, j)'
       \/ ~ \/ \E i \in Ids, k \in TriageRanks : Triage(i, k)
            \/ \E i, j \in Ids, mode \in MergeModes : Merge(i, j, mode)]_vars

\* A reorder of a group shows the group in the order that was sent, and
\* changes no group none of whose rows it lists.
ReorderHonoured ==
    [][\A order \in Orderings : Reorder(order) =>
        /\ \A i, j \in DOMAIN order :
              SameGroup(i, j) /\ order[i] < order[j] => RankedBefore(i, j)'
        /\ \A i \in Live : (\A j \in DOMAIN order : ~SameGroup(i, j))
              => rank'[i] = rank[i]]_vars

============================================================================
