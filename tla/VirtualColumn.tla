--------------------------- MODULE VirtualColumn ---------------------------
(***************************************************************************)
(* The windowed columns of the board (client/windowing.ts, IdeaWindow;     *)
(* client/virtual-column.ts, useVirtualColumns): only the cards near the   *)
(* viewport are in the document, each at the top the geometry gives it.    *)
(*                                                                         *)
(* The geometry is estimated until a card is mounted and measured.  Four   *)
(* callbacks of the browser take turns to put it right: the render and its *)
(* refs, the effect that measures, the resize observer and the scroll      *)
(* event.  Each may ask for another, and the reader, the board and the     *)
(* layout may change anything between two of them.                         *)
(*                                                                         *)
(* A height is that of the slot, gap included; estimateIdeaCardHeight is   *)
(* the constant Estimate.                                                  *)
(***************************************************************************)
EXTENDS Integers, Sequences, FiniteSets, FiniteSetsExt, Functions, SequencesExt

CONSTANTS
    Columns,
    Ids,
    Boards,         \* what the columns may hold, in display order
    Estimate,       \* of each card, before it is measured
    Heights,        \* what a card may really be
    Viewports,
    Overscan,       \* IDEA_WINDOW_OVERSCAN
    MinRows,        \* IDEA_WINDOW_MIN_ROWS
    None,
    MaxCalls,       \* the callbacks within which the board is at rest
    MaxEvents       \* bound on what the reader, the board and the layout do

ASSUME WindowAssumption ==
    /\ Boards \subseteq [Columns -> Seq(Ids)]
    /\ \A rows \in Boards, c \in Columns : IsInjective(rows[c])
    /\ \A rows \in Boards : \A c, other \in Columns :      \* an idea has one status
          c # other => ToSet(rows[c]) \cap ToSet(rows[other]) = {}
    /\ IsFiniteSet(Columns) /\ IsFiniteSet(Viewports)
    /\ Estimate \in [Ids -> Nat \ {0}] /\ Heights \subseteq Nat \ {0}
    /\ Viewports \subseteq Nat \ {0} /\ Viewports # {}
    /\ Overscan \in Nat /\ MinRows \in Nat /\ MaxCalls \in Nat /\ MaxEvents \in Nat

VARIABLES
    \* the board and the document
    board,
    height,
    tall,           \* clientHeight of the scrollers
    scroll,         \* their scrollTop
    \* the hook
    list,           \* the rows of each window
    measured,       \* measuredById; 0 for a card that is not there
    view,           \* viewRef
    painted,        \* the entries of the last render and the height of the spacer
    attached,       \* whether the scrollers are mounted
    \* callbacks that are to come
    due,            \* "tick": bump; "rows": the board renders; "measure": the
                    \* effect; "observe": the resize observer
    scrolled,       \* the columns with a scroll event
    \* history
    reading,        \* what the reader had at the top of a column, at rest, when a
                    \* card of that column took another height
    calls,          \* callbacks since the last event, 0 at rest
    events

vars == <<board, height, tall, scroll, list, measured, view, painted, attached, due,
          scrolled, reading, calls, events>>

----------------------------------------------------------------------------
(* IdeaWindow: of the rows of a column and the heights measured so far.    *)

SlotSize(sizes, id) == IF sizes[id] = 0 THEN Estimate[id] ELSE sizes[id]

\* ensureGeometry: the top of the slot of each row, and the height of the list.
Offsets(rows, sizes) ==
    LET offset[n \in 1..(Len(rows) + 1)] ==
            IF n = 1 THEN 0 ELSE offset[n - 1] + SlotSize(sizes, rows[n - 1])
    IN  offset

TotalHeight(rows, sizes) == Offsets(rows, sizes)[Len(rows) + 1]

\* firstIndexAfter: the first row whose slot ends after top, or the last row.
FirstIndexAfter(rows, sizes, top) ==
    LET offset == Offsets(rows, sizes)
    IN  Min({n \in DOMAIN rows : offset[n + 1] > top} \cup {Len(rows)})

\* A slip: the top of the list.
AnchorFirst(rows, sizes, top) == 1

\* anchorIndexFor: the last row that starts at or above top.
AnchorIndexFor(rows, sizes, top) ==
    LET offset == Offsets(rows, sizes)
    IN  IF rows = <<>> THEN 1 ELSE Max({1} \cup {n \in DOMAIN rows : offset[n] <= top})

\* window: the rows that meet the viewport, one more, and the overscan.
Window(rows, sizes, at) ==
    LET offset == Offsets(rows, sizes)
        first == FirstIndexAfter(rows, sizes, at.top)
        reached == {n \in first..Len(rows) : offset[n] < at.top + at.tall}
        last == Min({first + Cardinality(reached), Len(rows)})
    IN  IF rows = <<>> THEN {}
        ELSE Max({1, first - Overscan})..Min({Len(rows), last + Overscan})

\* rangeFor: a short column is painted whole.
RangeFor(rows, sizes, at) ==
    IF Len(rows) <= MinRows THEN DOMAIN rows ELSE Window(rows, sizes, at)

\* A slip: a card is measured once.
MeasureOnce(sizes, ids) ==
    [id \in Ids |-> IF id \in ids /\ sizes[id] = 0 THEN height[id] ELSE sizes[id]]

\* measure, for each of some cards: a height that is as expected is not noted.
Measure(sizes, ids) ==
    [id \in Ids |-> IF id \in ids /\ SlotSize(sizes, id) # height[id]
                    THEN height[id] ELSE sizes[id]]

\* A slip: the cache grows with the session.
KeptForGood(rows, sizes) == sizes

\* setRows: the sizes of rows that left are dropped.
Kept(rows, sizes) == [id \in Ids |-> IF id \in ToSet(rows) THEN sizes[id] ELSE 0]

\* entries: the rows in range, each at the top of its slot, and the spacer.
Paint(rows, sizes, at) ==
    LET range == RangeFor(rows, sizes, at)
        from == IF range = {} THEN 0 ELSE Min(range) - 1
    IN  [rows |-> [n \in 1..Cardinality(range) |-> rows[from + n]],
         tops |-> [n \in 1..Cardinality(range) |-> Offsets(rows, sizes)[from + n]],
         total |-> TotalHeight(rows, sizes)]

----------------------------------------------------------------------------
(* The document.                                                           *)

Cards(c) == {painted[c].rows[n] : n \in DOMAIN painted[c].rows}

\* How far down the content of a column goes: the spacer, or a card past it.
Reach(paint, heights) ==
    Max({paint.total} \cup {paint.tops[n] + heights[paint.rows[n]] : n \in DOMAIN paint.rows})

\* The document keeps scrollTop inside the content.
InDocument(top, paint, heights, viewport) ==
    Max({0, Min({top, Reach(paint, heights) - viewport})})

\* The layout moves scrollTop only to keep it inside; a move is an event.
Relayout(paint, heights, viewport) ==
    /\ scroll' = [c \in Columns |-> InDocument(scroll[c], paint[c], heights, viewport)]
    /\ scrolled' = scrolled \cup {c \in Columns : scroll'[c] # scroll[c]}

----------------------------------------------------------------------------
(* The callbacks.                                                          *)

Called == calls' = IF due' = {} /\ scrolled' = {} THEN 0 ELSE calls + 1

\* The body of the hook and its commit: the window is derived from the cached
\* view, and the refs of the cards that are new measure them; what that moves
\* above the anchor they drop, and no scroll makes up for it.  On the first
\* commit the scrollers are attached and the observer is made.
Render ==
    /\ due \cap {"tick", "rows"} # {}
    /\ LET kept == [c \in Columns |-> Kept(board[c], measured[c])]
           paint == [c \in Columns |-> Paint(board[c], kept[c], view[c])]
           mounts == [c \in Columns |-> ToSet(paint[c].rows) \ Cards(c)]
           counted == \E c \in Columns : Len(board[c]) # Len(list[c])
       IN  /\ list' = board
           /\ painted' = paint
           /\ measured' = [c \in Columns |-> Measure(kept[c], mounts[c])]
           /\ Relayout(paint, height, tall)
           /\ attached' = TRUE
           /\ view' = IF attached THEN view
                      ELSE [c \in Columns |-> [top |-> scroll'[c], tall |-> tall]]
           /\ due' = (due \ {"tick", "rows"})
                     \cup (IF "tick" \in due \/ counted \/ ~attached THEN {"measure"} ELSE {})
                     \cup (IF ~attached \/ \E c \in Columns : mounts[c] # {}
                           THEN {"observe"} ELSE {})
                     \cup (IF attached THEN {} ELSE {"tick"})
    /\ Called
    /\ UNCHANGED <<board, height, tall, reading, events>>

\* A slip: every measuring asks for a render.
BumpedAlways(asks, changed) == asks \cup {"tick"}

\* measureAll asks for a render when something moved.
Bumped(asks, changed) == IF changed THEN asks \cup {"tick"} ELSE asks

\* What grows or shrinks above the anchor of a column.
Delta(c, sizes) ==
    LET anchor == AnchorIndexFor(list[c], measured[c], scroll[c])
    IN  Offsets(list[c], sizes)[anchor] - Offsets(list[c], measured[c])[anchor]

Together(delta) == MapThenSumSet(LAMBDA c : delta[c], Columns)

\* measureAll: what grew or shrank above the anchor of a column, of all of them
\* together, is added to every scroller.
MeasureAll(at, asks) ==
    LET sizes == [c \in Columns |-> Measure(measured[c], Cards(c))]
        delta == [c \in Columns |-> Delta(c, sizes[c])]
        moved == Together(delta)
    IN  /\ measured' = sizes
        /\ scroll' = [c \in Columns |->
               IF moved = 0 THEN scroll[c]
               ELSE InDocument(scroll[c] + moved, painted[c], height, tall)]
        /\ scrolled' = scrolled \cup {c \in Columns : scroll'[c] # scroll[c]}
        /\ view' = IF moved = 0 THEN at
                   ELSE [c \in Columns |-> [top |-> scroll'[c], tall |-> tall]]
        /\ due' = Bumped(asks, \E c \in Columns : delta[c] # 0)

\* The effect of a render that was asked for, or that counts other rows.
Effect ==
    /\ "measure" \in due
    /\ MeasureAll(view, due \ {"measure"})
    /\ Called
    /\ UNCHANGED <<board, height, tall, list, painted, attached, reading, events>>

\* The observer: a card or a scroller has another size.
Observe ==
    /\ "observe" \in due
    /\ MeasureAll([c \in Columns |-> [top |-> scroll[c], tall |-> tall]],
                  (due \ {"observe"}) \cup {"tick"})
    /\ Called
    /\ UNCHANGED <<board, height, tall, list, painted, attached, reading, events>>

\* onScroll: the view follows, and a render is asked for if it would differ.
OnScroll(c) ==
    /\ attached /\ c \in scrolled
    /\ scrolled' = scrolled \ {c}
    /\ view' = [view EXCEPT ![c] = [top |-> scroll[c], tall |-> tall]]
    /\ due' = IF RangeFor(list[c], measured[c], view[c]) = RangeFor(list[c], measured[c], view'[c])
              THEN due ELSE due \cup {"tick"}
    /\ Called
    /\ UNCHANGED <<board, height, tall, scroll, list, measured, painted, attached, reading, events>>

----------------------------------------------------------------------------
(* What the others do.                                                     *)

AtRest == attached /\ due = {} /\ scrolled = {}

\* The row at the top edge of a column, how far it is from the edge, and the
\* cards that are mounted above it.
TopRow(c) ==
    Max({1} \cup {n \in DOMAIN painted[c].rows : painted[c].tops[n] <= scroll[c]})

AtTop(c) ==
    [column |-> c, id |-> painted[c].rows[TopRow(c)], off |-> painted[c].tops[TopRow(c)] - scroll[c]]

Above(c) == {painted[c].rows[n] : n \in DOMAIN painted[c].rows \cap 1..(TopRow(c) - 1)}

Event == attached /\ events < MaxEvents /\ events' = events + 1 /\ calls' = 0
Moves == Event /\ reading' = None

\* The reader scrolls a column.
Scrolls(c, top) ==
    /\ Moves
    /\ top # scroll[c] /\ top = InDocument(top, painted[c], height, tall)
    /\ scroll' = [scroll EXCEPT ![c] = top]
    /\ scrolled' = scrolled \cup {c}
    /\ UNCHANGED <<board, height, tall, list, measured, view, painted, attached, due>>

\* A card takes another height: a text that wraps, a font, an edit.
Resizes(id, h) ==
    /\ Event
    /\ h # height[id]
    /\ height' = [height EXCEPT ![id] = h]
    /\ Relayout(painted, height', tall)
    /\ due' = IF \E c \in Columns : id \in Cards(c) THEN due \cup {"observe"} ELSE due
    /\ LET above == {c \in Columns :
                        /\ id \in Above(c)
                        /\ scroll[c] + h - height[id] \in 0..(Reach(painted[c], height') - tall)}
       IN  reading' = IF AtRest /\ above # {} THEN AtTop(CHOOSE c \in above : TRUE) ELSE None
    /\ UNCHANGED <<board, tall, list, measured, view, painted, attached>>

\* The window of the browser is resized.
Stretches(viewport) ==
    /\ Moves
    /\ viewport # tall
    /\ tall' = viewport
    /\ Relayout(painted, height, viewport)
    /\ due' = due \cup {"observe"}
    /\ UNCHANGED <<board, height, list, measured, view, painted, attached>>

\* A poll or a filter: the board renders other rows.
Shows(rows) ==
    /\ Moves
    /\ rows # board
    /\ board' = rows
    /\ due' = due \cup {"rows"}
    /\ UNCHANGED <<height, tall, scroll, list, measured, view, painted, attached, scrolled>>

Init ==
    /\ board \in Boards
    /\ height \in [Ids -> Heights]
    /\ tall \in Viewports
    /\ scroll = [c \in Columns |-> 0]
    /\ list = [c \in Columns |-> <<>>]
    /\ measured = [c \in Columns |-> [id \in Ids |-> 0]]
    /\ view = [c \in Columns |-> [top |-> 0, tall |-> Max(Viewports)]]
    /\ painted = [c \in Columns |-> [rows |-> <<>>, tops |-> <<>>, total |-> 0]]
    /\ attached = FALSE /\ due = {"tick"} /\ scrolled = {}
    /\ reading = None /\ calls = 0 /\ events = 0

Next ==
    \/ Render \/ Effect \/ Observe
    \/ \E c \in Columns :
          OnScroll(c) \/ \E top \in 0..Reach(painted[c], height) : Scrolls(c, top)
    \/ \E id \in Ids, h \in Heights : Resizes(id, h)
    \/ \E viewport \in Viewports : Stretches(viewport)
    \/ \E rows \in Boards : Shows(rows)

Spec == Init /\ [][Next]_vars

----------------------------------------------------------------------------
(* What the reader sees.                                                   *)

\* Once the callbacks are done, the viewport of each column is filled: the cards
\* are rows of the board in its order, every line of the viewport down to the end
\* of the list is covered by one of them, no two overlap, and the list ends where
\* its last row does.
Covers(c, line) ==
    {n \in DOMAIN painted[c].rows :
        painted[c].tops[n] <= line /\ line < painted[c].tops[n] + height[painted[c].rows[n]]}

ViewportFilled ==
    AtRest => \A c \in Columns :
        /\ \E from \in 0..Len(board[c]) :
              painted[c].rows = SubSeq(board[c], from + 1, from + Len(painted[c].rows))
        /\ \A line \in scroll[c]..(Min({scroll[c] + tall, painted[c].total}) - 1) :
              Cardinality(Covers(c, line)) = 1
        /\ board[c] # <<>> /\ Last(board[c]) \in Cards(c)
           => painted[c].total = Last(painted[c].tops) + height[Last(board[c])]

\* A mounted card that, while nothing is due, grows or shrinks above the row the
\* reader is at does not move that row, if the document has room for as much
\* scrolling.  (Not promised of a card that is measured as it is mounted above the
\* reader: its ref drops what measure returns, and the row moves by what the card
\* differs from its estimate, or from what was last noted of it.  And the rows of
\* the other columns do move: measureAll adds the sum to every scroller.)
ReaderStays ==
    AtRest /\ reading # None =>
        \E n \in DOMAIN painted[reading.column].rows :
            /\ painted[reading.column].rows[n] = reading.id
            /\ painted[reading.column].tops[n] - scroll[reading.column] = reading.off

\* Measuring and rendering ask for each other and come to rest, in a few calls
\* whatever their order.
ComesToRest == calls <= MaxCalls

\* The cache holds heights of rows of the column only, and the document never
\* scrolls past its content.
TypeOK ==
    /\ board \in Boards /\ height \in [Ids -> Heights] /\ tall \in Viewports
    /\ scroll \in [Columns -> Nat]
    /\ list \in Boards \cup {[c \in Columns |-> <<>>]}
    /\ measured \in [Columns -> [Ids -> Heights \cup {0}]]
    /\ view \in [Columns -> [top : Nat, tall : Viewports]]
    /\ painted \in [Columns -> [rows : Seq(Ids), tops : Seq(Nat), total : Nat]]
    /\ \A c \in Columns :
          /\ \A id \in Ids : measured[c][id] # 0 => id \in ToSet(list[c])
          /\ Cards(c) \subseteq ToSet(list[c])
          /\ Len(painted[c].tops) = Len(painted[c].rows)
          /\ scroll[c] = InDocument(scroll[c], painted[c], height, tall)
    /\ attached \in BOOLEAN /\ due \subseteq {"tick", "rows", "measure", "observe"}
    /\ scrolled \subseteq Columns /\ events \in 0..MaxEvents

=============================================================================
