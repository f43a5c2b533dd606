----------------------------- MODULE KeptBoard -----------------------------
(***************************************************************************)
(* What the ledger promises of its board, whatever it does to keep it: an  *)
(* edit changes one fact, the whole board is replaced only by a board that *)
(* was kept or handed over, and never before the one it replaces is kept.  *)
(* A write may fail, which leaves on disk what was there, or be cut short, *)
(* which loses it; and a restart brings back what is on disk.              *)
(***************************************************************************)
CONSTANTS
    Items,          \* the facts a board records
    Imports,        \* boards handed over from outside
    Nothing         \* no readable board

VARIABLES
    board,          \* the board as its readers see it
    saved,          \* the board on disk
    safe            \* the boards that can be restored

vars == <<board, saved, safe>>

EmptyBoard == [x \in Items |-> FALSE]

Init == board = Nothing /\ saved = Nothing /\ safe = {}

\* A boot that finds no readable board.
Start ==
    /\ board = Nothing
    /\ board' = EmptyBoard
    /\ saved' \in {board', saved}
    /\ safe' = safe

Edit ==
    /\ board # Nothing
    /\ \E x \in Items : board' = [board EXCEPT ![x] = ~board[x]]
    /\ saved' \in {board', saved, Nothing}
    /\ safe' = safe

\* A snapshot; older ones may leave.
Save ==
    /\ board # Nothing
    /\ safe' \subseteq safe \cup {board}
    /\ board \in safe'
    /\ UNCHANGED <<board, saved>>

Adopt ==
    /\ board # Nothing
    /\ board' \in safe \cup Imports
    /\ saved' \in {board', saved, Nothing}
    /\ safe' = safe \cup {board}

\* The process ends, between two writes or in the middle of one.
Restart ==
    /\ board' = saved'
    /\ saved' \in {saved, Nothing}
    /\ safe' \in {safe, safe \cup {board}}

Next == Start \/ Edit \/ Save \/ Adopt \/ Restart

Spec == Init /\ [][Next]_vars

============================================================================
