----------------------------- MODULE BoardOrder -----------------------------
(***************************************************************************)
(* Rank by hand: a card dragged over the columns (board-view.tsx,          *)
(* `performDrop`), a row dragged or stepped in the Priorities list         *)
(* (priorities-view.tsx), and the order of the whole board that each posts *)
(* (ordering.ts), beside the document it lands on (IdeasLedger).           *)
(*                                                                         *)
(* One tab, with the board it adopted last, its filter and the order its   *)
(* open column paints.  A drop into another column is two posts; what the  *)
(* column painted is read before the first and used after it.  Meanwhile   *)
(* agents and other tabs go on writing the document.  Left out: the cards  *)
(* in flight that may be floated to the top, one more order of the column. *)
(***************************************************************************)
EXTENDS IdeasLedger, SequencesExt

CONSTANTS
    WorkspaceOrder, \* the workspaces in the order of their keys, as a sequence
    Filters,        \* what a filter may let through: sets of ids
    MaxGestures,    \* bound on the drags and steps of the tab
    MaxOthers       \* bound on the verbs of others

ASSUME OrderAssumption ==
    /\ WorkspaceOrder \in Seq(Workspaces) /\ IsInjective(WorkspaceOrder)
    /\ Workspaces = ToSet(WorkspaceOrder)
    /\ Filters \subseteq SUBSET Ids
    /\ MaxGestures \in Nat /\ MaxOthers \in Nat

VARIABLES
    snap,           \* the board the tab has adopted
    shown,          \* the ids its filter lets through
    openOrder,      \* how its open column is painted
    drop,           \* the drag under way, and its posts
    gestures,       \* how many drags and steps have begun
    others          \* how many verbs others have sent

tabVars == <<snap, shown, openOrder, drop, gestures, others>>

Columns == <<"open", "underReview", "archived", "declined">>

OpenOrders == {"createdAt", "createdAtDesc", "rank"}

Idle == [step |-> "idle"]

\* 0 when the id is not in the list.
At(list, i) == SelectInSeq(list, LAMBDA j : j = i)

\* A set as a list, given for each of its members those that come before it.
Sorted(before) ==
    [n \in 1..Cardinality(DOMAIN before) |->
        CHOOSE x \in DOMAIN before : Cardinality(before[x]) = n - 1]

\* The rows of a list that are in a set, in the order of the list.
Within(list, S) ==
    LET hits == {n \in DOMAIN list : list[n] \in S}
        kept == Sorted([n \in hits |-> {m \in hits : m < n}])
    IN  [n \in DOMAIN kept |-> list[kept[n]]]

Board == [place |-> place, status |-> status, workspace |-> workspace, rank |-> rank]

RowsOf(board) == {i \in Ids : board.place[i] # 0}

GroupOf(board, i) == <<board.status[i], board.workspace[i]>>

Members(board, group) == {i \in RowsOf(board) : GroupOf(board, i) = group}

----------------------------------------------------------------------------
(* What the tab paints.                                                    *)

\* orderIdeas: by rank, the unranked last, ties in the order of the document.
Ahead(board, i, j) ==
    \/ board.rank[i] # 0 /\ (board.rank[j] = 0 \/ board.rank[i] < board.rank[j])
    \/ board.rank[i] = board.rank[j] /\ board.place[i] < board.place[j]

ByRank(board, S) == Sorted([j \in S |-> {i \in S : Ahead(board, i, j)}])

\* The document holds its rows in the order of their creation.
ByDate(board, S) == Sorted([j \in S |-> {i \in S : board.place[i] < board.place[j]}])

Painted(column, S) ==
    IF column # "open" \/ openOrder = "rank" THEN ByRank(snap, S)
    ELSE IF openOrder = "createdAt" THEN ByDate(snap, S)
    ELSE Reverse(ByDate(snap, S))

\* columnRows: the rows the filter lets through, one workspace after another.
ColumnRows(column) ==
    FlattenSeq([n \in DOMAIN WorkspaceOrder |->
        Painted(column, shown \cap Members(snap, <<column, WorkspaceOrder[n]>>))])

\* The row a drop lands before: the one under the pointer or the one below it,
\* none on the free surface of the column and under its last row.
Anchor(rows, hover, half) ==
    IF hover = None THEN None
    ELSE LET at == IF half = "before" THEN At(rows, hover)
                   ELSE At(rows, hover) + 1
         IN  IF at > Len(rows) THEN None ELSE rows[at]

----------------------------------------------------------------------------
(* The order of the whole board that is posted.                            *)

Groups ==
    FlattenSeq([c \in DOMAIN Columns |->
        [n \in DOMAIN WorkspaceOrder |-> <<Columns[c], WorkspaceOrder[n]>>]])

\* A slip: the other groups go out as the document holds them.
GroupedByDate(board, ids, group, members) ==
    FlattenSeq([n \in DOMAIN Groups |->
        IF Groups[n] = group THEN members
        ELSE ByDate(board, ids \cap Members(board, Groups[n]))])

\* groupedIdOrder: every group by rank, but for the members given for one.
Grouped(board, ids, group, members) ==
    FlattenSeq([n \in DOMAIN Groups |->
        IF Groups[n] = group THEN members
        ELSE ByRank(board, ids \cap Members(board, Groups[n]))])

Inserted(peers, at, i) == IF at = 0 THEN Append(peers, i) ELSE InsertAt(peers, at, i)

\* A slip: the anchor was read off the screen and is looked up by rank.
RebuiltByRank(board, i, column, anchor, painted) ==
    IF i \notin RowsOf(board) THEN Grouped(board, RowsOf(board), <<>>, <<>>)
    ELSE LET group == <<column, board.workspace[i]>>
             peers == ByRank(board, Members(board, group) \ {i})
         IN  Grouped(board, RowsOf(board) \ {i}, group,
                     Inserted(peers, IF anchor = None THEN 0 ELSE At(peers, anchor), i))

\* rebuildOrder: the card among the painted rows of its own group, before the
\* anchor if that is one of them, else at the end.
Rebuilt(board, i, column, anchor, painted) ==
    IF i \notin RowsOf(board) THEN Grouped(board, RowsOf(board), <<>>, <<>>)
    ELSE LET group == <<column, board.workspace[i]>>
             peers == Within(painted, Members(board, group) \ {i})
         IN  Grouped(board, RowsOf(board) \ {i}, group,
                     Inserted(peers, IF anchor = None THEN 0 ELSE At(peers, anchor), i))

----------------------------------------------------------------------------
(* The drag, and the two posts a drop may take.                            *)

\* One at a time: nothing is dragged or stepped while a post is pending.
Gesture ==
    /\ drop = Idle
    /\ gestures < MaxGestures
    /\ gestures' = gestures + 1

StartDrag(i) ==
    /\ Gesture
    /\ i \in shown \cap RowsOf(snap)
    /\ drop' = [step |-> "dragging", id |-> i, source |-> snap.status[i]]
    /\ UNCHANGED <<vars, snap, shown, openOrder, others>>

\* A post of an order: what it was built from, and where the card was dropped.
Posted(view, i, column, hover, half, painted, base, order) ==
    [step |-> "ordering", view |-> view, id |-> i, column |-> column,
     hover |-> hover, half |-> half, painted |-> painted, base |-> base,
     order |-> order]

\* The column as it is painted is read here, before the card is moved.
DropOn(column, hover, half) ==
    LET painted == ColumnRows(column)
        i == drop.id
    IN  /\ drop.step = "dragging"
        /\ hover = None \/ hover \in ToSet(painted)
        /\ \/ /\ drop.source # column
              /\ drop' = [step |-> "moving", id |-> i, column |-> column,
                          hover |-> hover, half |-> half, painted |-> painted]
           \/ /\ drop.source = column
              /\ drop' = Posted(column, i, column, hover, half, painted, snap,
                           Rebuilt(snap, i, column, Anchor(painted, hover, half), painted))
        /\ UNCHANGED <<vars, snap, shown, openOrder, gestures, others>>

\* The host moves the card, or finds it where it was to go, or finds no card.
ServeMove ==
    /\ drop.step = "moving"
    /\ \/ /\ drop.id \in Live
          /\ \/ drop.column = "declined" /\ Decline(drop.id)
             \/ drop.column # "declined" /\ Move(drop.id, drop.column)
             \/ drop.column = status[drop.id] /\ UNCHANGED vars
          /\ drop' = [step |-> "moved", id |-> drop.id, column |-> drop.column,
                      hover |-> drop.hover, half |-> drop.half,
                      painted |-> drop.painted, base |-> Board']
       \/ /\ drop.id \notin Live
          /\ drop' = Idle
          /\ UNCHANGED vars
    /\ UNCHANGED <<snap, shown, openOrder, gestures, others>>

\* The order is built on the answer, with the rows painted before the move.
MoveAnswered ==
    /\ drop.step = "moved"
    /\ snap' = drop.base
    /\ drop' = Posted("moved", drop.id, drop.column, drop.hover, drop.half,
                  drop.painted, drop.base,
                  Rebuilt(drop.base, drop.id, drop.column,
                          Anchor(drop.painted, drop.hover, drop.half), drop.painted))
    /\ UNCHANGED <<vars, shown, openOrder, gestures, others>>

\* Priorities: the rows of one workspace by rank, hidden rows left out of the
\* list but not of the order.
RowDrop(i, hover, half) ==
    LET peers == Members(snap, GroupOf(snap, i))
        painted == ByRank(snap, shown \cap peers)
        anchor == Anchor(painted, hover, half)
    IN  /\ Gesture
        /\ i \in shown \cap RowsOf(snap)
        /\ snap.status[i] = "open"
        /\ hover = None \/ hover \in (shown \cap peers) \ {i}
        /\ anchor # i
        /\ drop' = Posted("list", i, "open", hover, half, painted, snap,
                      Rebuilt(snap, i, "open", anchor, ByRank(snap, peers)))
        /\ UNCHANGED <<vars, snap, shown, openOrder, others>>

\* moveIdeaInOpenBacklog: the row and its neighbour, hidden or not, trade
\* places; the arrows of the first and of the last row are disabled.
RowStep(i, half) ==
    LET group == GroupOf(snap, i)
        peers == ByRank(snap, Members(snap, group))
        at == At(peers, i)
        with == IF half = "before" THEN at - 1 ELSE at + 1
        painted == Within(peers, shown)
    IN  /\ Gesture
        /\ i \in shown \cap RowsOf(snap)
        /\ snap.status[i] = "open"
        /\ i # IF half = "before" THEN Head(painted) ELSE Last(painted)
        /\ drop' = Posted("list", i, "open", peers[with], half, peers, snap,
                      Grouped(snap, RowsOf(snap), group,
                              [peers EXCEPT ![at] = peers[with], ![with] = i]))
        /\ UNCHANGED <<vars, snap, shown, openOrder, others>>

\* The rows the host still has, each with its index in the list that was sent.
Listed == [i \in ToSet(drop.order) \cap Live |-> At(drop.order, i)]

ServeOrder ==
    /\ drop.step = "ordering"
    /\ Reorder(Listed)
    /\ drop' = [drop EXCEPT !.step = "ordered", !.base = Board']
    /\ UNCHANGED <<snap, shown, openOrder, gestures, others>>

\* Arranged by hand, the open column is painted by rank from then on.
OrderAnswered ==
    /\ drop.step = "ordered"
    /\ snap' = drop.base
    /\ openOrder' = IF drop.view = "open" THEN "rank" ELSE openOrder
    /\ drop' = Idle
    /\ UNCHANGED <<vars, shown, gestures, others>>

\* The card is let go outside, or a post or its answer is lost.
Abandon ==
    /\ drop # Idle
    /\ drop' = Idle
    /\ UNCHANGED <<vars, snap, shown, openOrder, gestures, others>>

Poll ==
    /\ snap # Board
    /\ snap' = Board
    /\ UNCHANGED <<vars, shown, openOrder, drop, gestures, others>>

\* The verbs of other tabs and of agents: a bulk re-home, a move, a triage, a
\* delete, a drag of theirs.
Other ==
    /\ others < MaxOthers
    /\ others' = others + 1
    /\ \/ \E i \in Ids, patch \in Patches : patch.rank = None /\ Update(i, patch)
       \/ \E i \in Ids, to \in {"open", "archived"} : Move(i, to)
       \/ \E i \in Ids, k \in TriageRanks : Triage(i, k)
       \/ \E i \in Ids : Delete(i)
       \/ \E order \in Orderings : DOMAIN order = Live /\ Reorder(order)
    /\ UNCHANGED <<snap, shown, openOrder, drop, gestures>>

DropNext ==
    \/ \E i \in Ids : StartDrag(i)
    \/ \E column \in Statuses, hover \in Ids, half \in {"before", "after"} :
          DropOn(column, hover, half)
    \/ \E column \in Statuses : DropOn(column, None, "after")
    \/ ServeMove
    \/ MoveAnswered
    \/ \E i, hover \in Ids, half \in {"before", "after"} : RowDrop(i, hover, half)
    \/ \E i \in Ids : RowDrop(i, None, "after")
    \/ \E i \in Ids, half \in {"before", "after"} : RowStep(i, half)
    \/ ServeOrder
    \/ OrderAnswered
    \/ Abandon
    \/ Poll
    \/ Other

TabInit ==
    /\ snap = Board
    /\ shown \in Filters
    /\ openOrder \in OpenOrders
    /\ drop = Idle
    /\ gestures = 0
    /\ others = 0

\* The tab beside a host that any verb reaches.
BoardNext == DropNext \/ (Next /\ UNCHANGED tabVars)

BoardSpec == Init /\ TabInit /\ [][BoardNext]_<<vars, tabVars>>

----------------------------------------------------------------------------
(* What a drop owes the hand that made it.                                 *)

OrderServed == drop.step = "ordering" /\ drop'.step = "ordered"

\* The group the card is dropped in, as the order was built.
TargetGroup == <<drop.column, drop.base.workspace[drop.id]>>

\* The card and the painted rows that are in its group for both sides.
Together(j) ==
    /\ j \in Live \cap RowsOf(drop.base)
    /\ GroupOf(Board, j) = TargetGroup
    /\ GroupOf(drop.base, j) = TargetGroup

PaintedMates == {j \in ToSet(drop.painted) \ {drop.id} : Together(j)}

PaintedAt(j) == At(drop.painted, j)

AboveTheLine ==
    IF drop.hover = None THEN PaintedMates
    ELSE {j \in PaintedMates :
             \/ PaintedAt(j) < PaintedAt(drop.hover)
             \/ j = drop.hover /\ drop.half = "after"}

\* The order that is served ranks the card below the rows that were painted
\* above the line it was dropped on, and above the others.
LandsOnItsLine ==
    /\ \A j \in AboveTheLine : RankedBefore(j, drop.id)'
    /\ \A j \in PaintedMates \ AboveTheLine : RankedBefore(drop.id, j)'
    /\ \A j, k \in PaintedMates :
          PaintedAt(j) < PaintedAt(k) => RankedBefore(j, k)'

\* Dropped over a row of its group or the free surface, while it stayed in
\* the group.
DroppedInItsGroup ==
    /\ Together(drop.id)
    /\ drop.hover \in PaintedMates \cup {None}

\* The row below the line is a peer of the card on the board the order was built
\* on, or no row of the group was painted below the line.
LineStands ==
    \/ Anchor(drop.painted, drop.hover, drop.half)
          \in Members(drop.base, TargetGroup) \ {drop.id}
    \/ AboveTheLine = PaintedMates

\* The upper half of a row is the place before it, the lower half the place
\* after it.  A card lands on the line it is dropped on, whatever the column
\* paints, the filter hides and others have done to the ranks meanwhile.  Where
\* the row below the line is none of its peers, the card goes to the end of the
\* group: on its own line, which it is below, and where others have taken that
\* row out of the group during the first post.
DropLands ==
    [][OrderServed /\ DroppedInItsGroup /\ LineStands => LandsOnItsLine]_<<vars, tabVars>>

\* The group of the drop was painted in full and by rank.
PaintedByRank ==
    LET mates == Members(drop.base, TargetGroup) \ {drop.id}
    IN  drop.view = "list" \/
        Within(drop.painted, mates) = ByRank(drop.base, mates)

\* An order built on the board as it is moves no card but the one dragged: not
\* in other groups, nor in its own where that was painted in full and by rank.
OnlyTheCardMoves ==
    [][OrderServed /\ Board = drop.base =>
        \A i, j \in Live \ {drop.id} :
            SameGroup(i, j) /\ RankedBefore(i, j)
                /\ (GroupOf(Board, i) # TargetGroup \/ PaintedByRank)
            => RankedBefore(i, j)']_<<vars, tabVars>>

============================================================================
