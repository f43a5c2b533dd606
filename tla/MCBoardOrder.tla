---------------------------- MODULE MCBoardOrder ----------------------------
(* Three rows and the verbs that write relations, ranks, or columns and     *)
(* parents, or the drags of a tab; the guards and effects are those of      *)
(* IdeasLedger and BoardOrder.                                              *)
EXTENDS BoardOrder, TLC

CONSTANTS a, b, c

Untouched ==
    [workspace |-> None, rank |-> None, relatesTo |-> None, blocks |-> None]

MCRankPatches ==
    {[Untouched EXCEPT !.workspace = w] : w \in Workspaces} \cup
    {[Untouched EXCEPT !.rank = r] : r \in Ranks}

\* Before, inside and past the end of a group.
MCTriageRanks == {-1, 2, 4}

MCRelationPatches ==
    {[Untouched EXCEPT !.relatesTo = S] : S \in SUBSET Ids} \cup
    {[Untouched EXCEPT !.blocks = S] : S \in SUBSET Ids}

MCPatches == MCRankPatches \cup MCRelationPatches

\* A source is an order of the ids, so that no id is told from another.
MCSources == {s \in [1..3 -> Ids] : s[1] # s[2] /\ s[1] # s[3] /\ s[2] # s[3]}

Row(i, n, p, related, blocked) ==
    [id |-> i, status |-> "open", workspace |-> None, rank |-> 0, number |-> n,
     parent |-> p, delivered |-> FALSE, relatesTo |-> related, blocks |-> blocked]

\* A resync from another host whose document was edited by hand: a one-sided
\* and a self edge, a loop of waits, numbers of its own, a row that comes
\* twice, and a target that is on the board or is not.
MCImportOf ==
    [s \in Sources |-> <<Row(s[3], 2, None, {s[1], s[3]}, {s[1]}),
                         Row(s[2], 3, None, {}, {s[3]}),
                         Row(s[3], 0, None, {}, {s[1], s[2]})>>]

MCWorkspaceOrder == <<"home", "work">>

\* A filter that hides one row at most.
MCFilters == {S \in SUBSET Ids : Cardinality(S) >= 2}

\* The verbs that write relations; one import.
RelationNext ==
    \/ \E i \in Ids : Create(i, AnyWorkspace, 0)
    \/ \E i \in Ids, patch \in MCRelationPatches : Update(i, patch)
    \/ \E loser, survivor \in Ids : Merge(loser, survivor, "keepTargetRank")
    \/ \E i \in Ids : Delete(i)
    \/ imported = {} /\ \E s \in Sources : Import(s)

\* The verbs that write ranks.
RankNext ==
    \/ \E i \in Ids, w \in Workspaces, r \in Ranks \cup {0} : Create(i, w, r)
    \/ \E i \in Ids, patch \in MCRankPatches : Update(i, patch)
    \/ \E i \in Ids, to \in {"open", "archived"} : Move(i, to)
    \/ \E i \in Ids, k \in TriageRanks : Triage(i, k)
    \/ \E loser, survivor \in Ids : Merge(loser, survivor, "takeSourceRank")
    \/ \E i \in Ids : Delete(i)
    \/ \E order \in Orderings : Reorder(order)

\* The verbs that write columns and follow-up parents.
LineageNext ==
    \/ \E i \in Ids, w \in Workspaces : Create(i, w, 0)
    \/ \E i \in Ids, to \in Statuses \ {"declined"} : Move(i, to)
    \/ \E i \in Ids : Decline(i)
    \/ \E i \in Ids : Deliver(i)
    \/ \E i, child \in Ids : FollowUp(i, child)
    \/ \E loser, survivor \in Ids : Merge(loser, survivor, "keepTargetRank")
    \/ \E i \in Ids : Restore(i)
    \/ \E i \in Ids : Delete(i)

\* A board to drag on: rows of one workspace or of two, all open or one of them
\* archived, ranked against their order in the document or not all ranked.
DropInit ==
    /\ place \in {p \in [Ids -> 1..3] : {p[i] : i \in Ids} = 1..3}
    /\ status \in {[i \in Ids |-> IF place[i] = n THEN "archived" ELSE "open"] : n \in {0, 1, 3}}
    /\ workspace \in {[i \in Ids |-> IF place[i] = n THEN "home" ELSE "work"] : n \in {0, 3}}
    /\ rank \in {[i \in Ids |-> 4 - place[i]], [i \in Ids |-> IF place[i] = 1 THEN 0 ELSE 1]}
    /\ number = place
    /\ parent = [i \in Ids |-> None]
    /\ delivered = {}
    /\ relatesTo = [i \in Ids |-> {}]
    /\ blocks = [i \in Ids |-> {}]
    /\ ideaSequence = 3
    /\ imported = {}
    /\ minted = Ids

\* The group of verbs that a behaviour drives, chosen when it begins: a mix of
\* all the verbs is past what TLC enumerates.
VARIABLE focus

VerbInit ==
    \/ focus = "drops" /\ DropInit /\ TabInit /\ openOrder # "createdAtDesc"
    \/ /\ focus \in {"relations", "ranks", "lineage"} /\ Init
       /\ TabInit /\ shown = Ids /\ openOrder = "rank"

VerbNext ==
    /\ UNCHANGED focus
    /\ \/ focus = "relations" /\ RelationNext /\ UNCHANGED tabVars
       \/ focus = "ranks" /\ RankNext /\ UNCHANGED tabVars
       \/ focus = "lineage" /\ LineageNext /\ UNCHANGED tabVars
       \/ focus = "drops" /\ DropNext /\ UNCHANGED relationVars

VerbSpec == VerbInit /\ [][VerbNext]_<<vars, tabVars, focus>>

Symmetry == Permutations(Ids)

============================================================================
