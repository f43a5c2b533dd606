--------------------------- MODULE MCBoardClient ---------------------------
(* Instances of BoardClient.                                                *)
EXTENDS BoardClient

\* The ideas with a card, in review or in the archive; the others are open.
MCFirstBoards ==
    {[i \in Ideas |-> [status |-> IF i \in Bound THEN column ELSE "open", tag |-> "bare"]] :
        column \in {"underReview", "archived"}}

\* The same with those in the archive, whose updates take three posts.
MCArchived == {board \in MCFirstBoards : \A i \in Bound : board[i].status = "archived"}

=============================================================================
