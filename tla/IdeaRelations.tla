--------------------------- MODULE IdeaRelations ---------------------------
(***************************************************************************)
(* The relation lists of an idea, and what a write, a merge, a delete and  *)
(* the document repair make of them (core/ideas.ts, host-ledger.ts).       *)
(*                                                                         *)
(* A relation list is modelled by the SET of the ids it holds: the lists   *)
(* are free of repeats (normalizeRelationIds), and their order matters     *)
(* only when the cap truncates one.  Where it does, the operators below    *)
(* return the set of every list the cap may leave.  A graph is a function  *)
(* from Ids to the set of the targets its row states.                      *)
(***************************************************************************)
EXTENDS Integers, FiniteSets

CONSTANTS
    Ids,            \* the ids an idea can have
    RelationLimit   \* IDEA_RELATION_LIMIT: entries a relation list may hold

ASSUME IdsAssumption == IsFiniteSet(Ids)

ASSUME RelationLimitAssumption == RelationLimit \in Nat \ {0}

Graphs == [Ids -> SUBSET Ids]

Closed(graph, S) == \A a \in S : graph[a] \subseteq S

(***************************************************************************)
(* b can be reached from a (in zero steps or more): no set that contains a *)
(* and is closed under the edges leaves b out.                             *)
(***************************************************************************)
Reaches(graph, a, b) ==
    \A S \in SUBSET Ids : a \in S /\ Closed(graph, S) => b \in S

\* blockCyclePath(graph, from, to) # undefined
ClosesCycle(graph, from, to) == Reaches(graph, to, from)

Acyclic(graph) ==
    \A a \in Ids : \A b \in graph[a] : ~ClosesCycle(graph, a, b)

Symmetric(graph) == \A a, b \in Ids : b \in graph[a] => a \in graph[b]

\* Every edge is between two rows of the document, and no row names itself.
Proper(graph, live) ==
    \A i \in Ids : graph[i] \subseteq IF i \in live THEN live \ {i} ELSE {}

EdgesOf(graph) == {e \in Ids \X Ids : e[2] \in graph[e[1]]}

----------------------------------------------------------------------------
(* One list.                                                               *)

\* The lists normalizeRelationIds may make of `own` followed by `extra`: own
\* comes first, and the cap drops from the end.
CappedUnion(own, extra) ==
    {own \cup X : X \in {Y \in SUBSET (extra \ own) :
        \/ Cardinality(own \cup Y) = RelationLimit
        \/ Y = extra \ own /\ Cardinality(own \cup Y) <= RelationLimit}}

\* A slip: the survivor is added and the loser is left in the list.
RepointedBeside(list, row, loser, survivor) ==
    (list \cup (IF loser \in list THEN {survivor} ELSE {})) \ {row}

\* repointedRelationIds for the row of `row`: loser becomes survivor, and the
\* row's own id is dropped.
Repointed(list, row, loser, survivor) ==
    {IF x = loser THEN survivor ELSE x : x \in list} \ {row}

----------------------------------------------------------------------------
(* Writes.                                                                 *)

\* The targets an update may state for i: known ids, never the row itself,
\* at most as many as the wire gate lets through.
LegalTargets(live, i, targets) ==
    /\ targets \subseteq live \ {i}
    /\ Cardinality(targets) <= RelationLimit

\* A slip: the mirror edges of the old list stay.
WithRelatesToAdded(graph, i, targets) ==
    [j \in Ids |-> IF j = i THEN targets
                  ELSE IF j \in targets THEN graph[j] \cup {i} ELSE graph[j]]

\* applyRelationPatch, relatesTo half: the edited row takes the new list and
\* every other row gains or loses its mirror edge, the cap permitting.
WithRelatesTo(graph, i, targets) ==
    [j \in Ids |->
        IF j = i THEN targets
        ELSE LET kept == graph[j] \ {i}
             IN  IF j \in targets /\ Cardinality(kept) < RelationLimit
                 THEN kept \cup {i}
                 ELSE kept]

\* A slip: only a wait in the opposite direction is seen.
BlocksAcceptedDirect(graph, i, targets) == \A t \in targets : i \notin graph[t]

\* applyRelationPatch, blocks half: refused when any new edge closes a cycle
\* in the graph without this row's own list.
BlocksAccepted(graph, i, targets) ==
    LET without == [graph EXCEPT ![i] = {}]
    IN  \A t \in targets : ~ClosesCycle(without, i, t)

\* A slip: the row goes and the edges that named it stay.
WithoutRow(graph, i) == [graph EXCEPT ![i] = {}]

\* withoutRelationTarget on every row, and the row itself gone.
WithoutIdea(graph, i) == [j \in Ids |-> IF j = i THEN {} ELSE graph[j] \ {i}]

----------------------------------------------------------------------------
(* reconcileRelations: the repair run by a merge, an import, a boot and a  *)
(* restore.  `place` gives every row its index in the document.            *)

\* Pass 1: no self edge, no dangling target.
Cleaned(graph, live) ==
    [j \in Ids |-> IF j \in live THEN (graph[j] \cap live) \ {j} ELSE {}]

\* Pass 2: every row gains the rows that name it, in document order, up to
\* the cap.
Symmetrized(graph, place) ==
    [j \in Ids |->
        LET gain == {a \in Ids : j \in graph[a]} \ graph[j]
            room == RelationLimit - Cardinality(graph[j])
        IN  graph[j] \cup
                {a \in gain :
                    Cardinality({b \in gain : place[b] < place[a]}) < room}]

\* Pass 3: rows are visited in document order, and an edge is kept unless it
\* closes a cycle in the graph as it stands then: the rows before it already
\* pruned, the rows after it still whole.
IsPruning(graph, kept, place) ==
    \A a \in Ids :
        LET current == [c \in Ids |-> IF place[c] < place[a] THEN kept[c]
                                                             ELSE graph[c]]
        IN  kept[a] = {b \in graph[a] : ~ClosesCycle(current, a, b)}

\* The subgraphs of `graph`, among them the one IsPruning picks out.
Subgraphs(graph) ==
    {[a \in Ids |-> {b \in graph[a] : <<a, b>> \in K}] :
        K \in SUBSET EdgesOf(graph)}

============================================================================
