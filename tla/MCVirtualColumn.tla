-------------------------- MODULE MCVirtualColumn --------------------------
(* Instances of VirtualColumn.                                              *)
EXTENDS VirtualColumn, TLC

CONSTANTS x, y, a, b, c, d

\* A column of three; one card of it moved to the other column; and one more
\* card on top of it, out of the other column.
MCBoards ==
    {x :> <<a, b, c>> @@ y :> <<d>>,
     x :> <<b, c>> @@ y :> <<d, a>>,
     x :> <<d, a, b, c>> @@ y :> <<>>}

MCEstimate == [id \in Ids |-> 2]

=============================================================================
