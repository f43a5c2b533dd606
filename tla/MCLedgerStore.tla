--------------------------- MODULE MCLedgerStore ---------------------------
(* Instances of LedgerStore: one idea that two requests open and a third   *)
(* closes, a request that is refused, and a board handed over by an import *)
(* that was taken while a run was going.                                   *)
EXTENDS LedgerStore, TLC

CONSTANTS idea, run, open, again, close, bad

MCItems == {idea, run}

MCRequests == {open, again, close, bad}

MCEffectOf ==
    [r \in MCRequests |->
        CASE r \in {open, again} -> [item |-> idea, to |-> TRUE]
          [] r = close -> [item |-> idea, to |-> FALSE]
          [] r = bad -> Refused]

\* Two requests ask for the same.
Symmetry == Permutations({open, again})

MCImports == {[x \in MCItems |-> TRUE]}

============================================================================
