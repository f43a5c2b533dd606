----------------------------- MODULE CardMirror -----------------------------
(***************************************************************************)
(* The mirror of the ideas on the task board: each verb of the ledger      *)
(* queues an operation on the chain of its idea, and the operations of a   *)
(* chain run one after the other against a board that may be away, show an *)
(* empty list, refuse, or lose an answer (host-service.ts, scheduleMirror, *)
(* enqueueChain, runMirror; taskboard-bridge.ts, availableNow, ensureTask, *)
(* mirrorCreate, mirrorUpdate, mirrorArchive, mirrorRestore).              *)
(*                                                                         *)
(* An idea is a column and a text; the ways out of the backlog (archived,  *)
(* declined, delivered) are one column here, "archived", but for the one   *)
(* that queues no operation: "reworked", archived by a follow-up.  An idea *)
(* has at most two card ids: "own", derived from its id, and "legacy", the *)
(* one an older version bound.  A post and its answer are one step: what   *)
(* is done between the two is done as well before the host's next step.    *)
(***************************************************************************)
EXTENDS Sequences, Integers, SequencesExt

CONSTANTS
    Ideas,
    OldIdeas,       \* those an older version may have bound
    None,
    MaxVerbs,       \* bound on the verbs
    MaxFaults       \* bound on what goes wrong: answers, crashes, hands on cards

Kinds == {"create", "update", "archive", "restore"}
CardIds == {"own", "legacy"}

ASSUME MirrorAssumption ==
    /\ OldIdeas \subseteq Ideas /\ None \notin Ideas \cup Kinds \cup CardIds
    /\ MaxVerbs \in Nat /\ MaxFaults \in Nat

VARIABLES
    \* the ledger
    status,         \* the column of an idea
    text,           \* what its card shows
    bound,          \* the card it knows
    parent,         \* the idea it follows up
    \* the host process
    chain,          \* the operations queued for each idea
    work,           \* where the first of them is
    available,      \* the board answered once
    lastProbe,      \* "due", or "recent" for the 30 s after a probe
    \* the task board
    cards,
    \* history
    verbs,
    faults,
    owed            \* what an operation that failed, or a hand on the card,
                    \* left undone: "card", "text", "column"

ledger == <<status, text, bound, parent>>
host == <<chain, work, available, lastProbe>>
vars == <<ledger, host, cards, verbs, faults, owed>>

Texts == {0, 1}
Bindings == CardIds \cup {None}
Cards == [column : {"none", "live", "archived"}, text : Texts]
Rows == [text : Texts, bound : Bindings]
Ops == [kind : Kinds, captured : Rows]
Works == [at : {"idle", "probe", "fetch", "create", "move", "verb"},
          row : Rows, target : Bindings]

\* Types of the rows, the chains of operations and the cards: an operation that
\* ends lets go of its chain, whatever it met.
TypeOK ==
    /\ status \in [Ideas -> {"unborn", "open", "underReview", "archived", "reworked", "deleted"}]
    /\ text \in [Ideas -> Texts]
    /\ bound \in [Ideas -> Bindings]
    /\ parent \in [Ideas -> Ideas \cup {None}]
    /\ chain \in [Ideas -> Seq(Ops)]
    /\ work \in [Ideas -> Works]
    /\ available \in BOOLEAN
    /\ lastProbe \in {"due", "recent"}
    /\ cards \in [Ideas -> [CardIds -> Cards]]
    /\ verbs \in 0..MaxVerbs
    /\ faults \in 0..MaxFaults
    /\ owed \in [Ideas -> SUBSET {"card", "text", "column"}]

NoCard == [column |-> "none", text |-> 0]
Idle == [at |-> "idle", row |-> [text |-> 0, bound |-> None], target |-> None]

\* An empty ledger, or one with ideas that an older version bound.
Init ==
    /\ \E old \in SUBSET OldIdeas :
          /\ status = [i \in Ideas |-> IF i \in old THEN "open" ELSE "unborn"]
          /\ bound = [i \in Ideas |-> IF i \in old THEN "legacy" ELSE None]
          /\ cards = [i \in Ideas |-> [k \in CardIds |->
                IF i \in old /\ k = "legacy" THEN [NoCard EXCEPT !.column = "live"]
                                             ELSE NoCard]]
    /\ text = [i \in Ideas |-> 0]
    /\ parent = [i \in Ideas |-> None]
    /\ chain = [i \in Ideas |-> <<>>]
    /\ work = [i \in Ideas |-> Idle]
    /\ available = FALSE /\ lastProbe = "due"
    /\ verbs = 0 /\ faults = 0
    /\ owed = [i \in Ideas |-> {}]

----------------------------------------------------------------------------
(* The verbs, and what scheduleMirror queues for them.                     *)

Present(i) == status[i] \in {"open", "underReview", "archived", "reworked"}

\* The row of i, once the verb is committed.
RowAfter(i) == [text |-> text'[i], bound |-> bound'[i]]

\* The chains once every idea of the set has one more operation of its kind.
Queues(kindOf) ==
    chain' = [i \in Ideas |->
        IF i \in DOMAIN kindOf
        THEN Append(chain[i], [kind |-> kindOf[i], captured |-> RowAfter(i)])
        ELSE chain[i]]

Verb ==
    /\ verbs < MaxVerbs
    /\ verbs' = verbs + 1
    /\ UNCHANGED <<bound, work, available, lastProbe, cards, faults>>

Create(i) ==
    /\ status[i] = "unborn"
    /\ status' = [status EXCEPT ![i] = "open"]
    /\ UNCHANGED <<text, parent, owed>>
    /\ Verb
    /\ Queues([j \in {i} |-> "create"])

Update(i) ==
    /\ Present(i)
    /\ text' = [text EXCEPT ![i] = 1 - @]
    /\ UNCHANGED <<status, parent, owed>>
    /\ Verb
    /\ Queues([j \in {i} |-> "update"])

\* mirrorKindOf, for a move, a decline, a delivery or a restore.
KindOfMove(to) ==
    CASE to = "archived" -> "archive"
      [] to = "open" -> "restore"
      [] OTHER -> None

\* The verb queues its operation whether or not it changed the column.
Move(i, to) ==
    /\ Present(i)
    /\ status' = [status EXCEPT ![i] = to]
    /\ UNCHANGED <<text, parent, owed>>
    /\ Verb
    /\ Queues(IF KindOfMove(to) = None THEN <<>> ELSE [j \in {i} |-> KindOfMove(to)])

\* The card of the parent is left as it is, for it is taken to be done.  The
\* operation goes to the first follow-up of the parent in document order, which
\* need not be the new one: the new one is then passed over.
FollowUp(i, child) ==
    /\ status[i] = "underReview"
    /\ status[child] = "unborn"
    /\ status' = [status EXCEPT ![i] = "reworked", ![child] = "open"]
    /\ parent' = [parent EXCEPT ![child] = i]
    /\ text' = text
    /\ Verb
    /\ \E first \in Ideas :
          /\ parent'[first] = i /\ status'[first] # "deleted"
          /\ Queues([j \in {first} |-> "create"])
          /\ owed' = [owed EXCEPT ![child] = IF first = child THEN @ ELSE {"card"}]

\* The follow-ups of the loser, and the one it is itself, go to the survivor.
Merge(loser, survivor) ==
    /\ loser # survivor
    /\ Present(loser) /\ Present(survivor)
    /\ status' = [status EXCEPT ![loser] = "archived"]
    /\ text' = [text EXCEPT ![survivor] = 1 - @]
    /\ parent' = [i \in Ideas |->
          CASE i = survivor /\ parent[i] = None /\ parent[loser] # survivor -> parent[loser]
            [] i # survivor /\ parent[i] = loser -> survivor
            [] OTHER -> parent[i]]
    /\ owed' = owed
    /\ Verb
    /\ Queues([j \in {loser, survivor} |-> IF j = loser THEN "archive" ELSE "update"])

\* The card outlives the idea.
Delete(i) ==
    /\ Present(i)
    /\ status' = [status EXCEPT ![i] = "deleted"]
    /\ UNCHANGED <<text, parent, owed>>
    /\ Verb
    /\ Queues(<<>>)

----------------------------------------------------------------------------
(* The operations.  Only the first of a chain is at work.                  *)

Kind(i) == Head(chain[i]).kind

Exists(i, k) == k # None /\ cards[i][k].column # "none"

\* What an operation leaves undone when it fails.
Undone(kind) ==
    CASE kind = "create" -> {"card"}
      [] kind = "update" -> {"text"}
      [] OTHER -> {"column"}

\* What it puts right when it succeeds; a new card has the text of its idea, and
\* a card that is only taken to be there is still owed.
Settled(i, target, created) ==
    (IF Exists(i, target) THEN {"card"} ELSE {})
    \cup (IF Kind(i) = "update" \/ created THEN {"text"} ELSE {})
    \cup (IF Kind(i) = KindOfMove(status[i]) THEN {"column"} ELSE {})

Goes(i, at) == work' = [work EXCEPT ![i].at = at]

\* The operation is over, and the next one of the chain may begin.
Unchains(i) ==
    /\ chain' = [chain EXCEPT ![i] = Tail(@)]
    /\ work' = [work EXCEPT ![i] = Idle]

\* A slip: an operation that failed keeps its place.
Stuck(i) ==
    /\ chain' = chain
    /\ Goes(i, "failed")

\* runMirror never rejects: a failure is logged, and nothing else.
GivesUp(i) == Unchains(i)

Fails(i) ==
    /\ GivesUp(i)
    /\ owed' = [owed EXCEPT ![i] = @ \cup Undone(Kind(i))]
    /\ UNCHANGED ledger

\* The card is bound, if the idea is still there.
Succeeds(i, target, created) ==
    /\ Unchains(i)
    /\ owed' = [owed EXCEPT ![i] = @ \ Settled(i, target, created)]
    /\ bound' = IF Present(i) /\ Kind(i) # "restore"
                THEN [bound EXCEPT ![i] = target] ELSE bound
    /\ UNCHANGED <<status, text, parent>>

Faulty == faults < MaxFaults /\ faults' = faults + 1

\* A slip: an operation mirrors the row its verb left.
CapturedRow(i) == Head(chain[i]).captured

\* The row as it is now, or as the verb left it if it was deleted since.
MirroredRow(i) ==
    IF Present(i) THEN [text |-> text[i], bound |-> bound[i]] ELSE Head(chain[i]).captured

\* runMirror up to its first await.  An operation that finds a probe younger
\* than its retry time, in flight or not, takes the board for absent.
Begin(i) ==
    /\ chain[i] # <<>> /\ work[i].at = "idle"
    /\ LET row == MirroredRow(i)
           to(at) == work' = [work EXCEPT ![i] = [at |-> at, row |-> row, target |-> row.bound]]
           waits == UNCHANGED <<chain, ledger, owed>>
       IN  CASE Kind(i) = "restore" /\ row.bound = None ->
                    Unchains(i) /\ UNCHANGED <<ledger, owed, lastProbe>>
             [] Kind(i) = "restore" /\ row.bound # None ->
                    to("verb") /\ waits /\ lastProbe' = lastProbe
             [] Kind(i) # "restore" /\ available ->
                    to("fetch") /\ waits /\ lastProbe' = lastProbe
             [] Kind(i) # "restore" /\ ~available /\ lastProbe = "due" ->
                    to("probe") /\ waits /\ lastProbe' = "recent"
             [] OTHER -> Fails(i) /\ lastProbe' = lastProbe
    /\ UNCHANGED <<available, cards, verbs, faults>>

\* availableNow, when the board answers its probe or does not.
Probe(i) ==
    /\ work[i].at = "probe"
    /\ \/ available' = TRUE /\ Goes(i, "fetch")
          /\ UNCHANGED <<chain, ledger, owed, faults>>
       \/ available' = available /\ Fails(i) /\ Faulty
    /\ UNCHANGED <<lastProbe, cards, verbs>>

\* The poll of the runs probes too.
ProbeElsewhere ==
    /\ ~available
    /\ \/ available' = TRUE /\ lastProbe' = lastProbe
       \/ available' = FALSE /\ lastProbe' = "recent"
    /\ UNCHANGED <<ledger, chain, work, cards, verbs, faults, owed>>

ProbeDue ==
    /\ lastProbe = "recent"
    /\ lastProbe' = "due"
    /\ UNCHANGED <<ledger, chain, work, available, cards, verbs, faults, owed>>

\* The card of i is its own unless it keeps the bound one, and it is made
\* unless it is kept or a list shows it.
Ensured(i, shown, kept) ==
    [card |-> IF kept THEN work[i].row.bound ELSE "own",
     made |-> ~kept /\ ~(shown /\ Exists(i, "own"))]

\* A slip: a bound card that is not in the list is gone, whatever the list.
BoundIfShown(i, shown) ==
    LET k == work[i].row.bound IN Ensured(i, shown, shown /\ Exists(i, k))

\* ensureTask: a bound card is gone only when a list that shows others lacks it.
EnsureTask(i, shown) ==
    LET k == work[i].row.bound
    IN  Ensured(i, shown, k # None /\ (shown => Exists(i, k)))

\* ensureTask, once the list of cards was read.  It may be unreadable or empty
\* for a while, and it is empty when there is no card.
Fetch(i) ==
    /\ work[i].at = "fetch"
    /\ \/ \E shown \in BOOLEAN :
             LET ensured == EnsureTask(i, shown)
                 blank == \A j \in Ideas, k \in CardIds : ~Exists(j, k)
             IN  /\ IF shown \/ blank THEN faults' = faults ELSE Faulty
                 /\ IF Kind(i) = "create" /\ ~ensured.made
                    THEN Succeeds(i, ensured.card, FALSE)
                    ELSE /\ work' = [work EXCEPT ![i].target = ensured.card,
                                ![i].at = IF ensured.made THEN "create" ELSE "verb"]
                         /\ UNCHANGED <<chain, ledger, owed>>
       \/ Fails(i) /\ Faulty
    /\ UNCHANGED <<available, lastProbe, cards, verbs>>

----------------------------------------------------------------------------
(* The task board, and the host's next step once it has answered.          *)

\* What a post finds, and what it makes of the card.
Accepts(i, post, k) ==
    CASE post = "create" -> ~Exists(i, k)
      [] post = "update" -> cards[i][k].column = "live"
      [] OTHER -> Exists(i, k)

Posted(i, post, k) ==
    [cards EXCEPT ![i][k] =
        CASE post = "create" -> [column |-> "live", text |-> work[i].row.text]
          [] post = "update" -> [@ EXCEPT !.text = work[i].row.text]
          [] post = "archive" -> [@ EXCEPT !.column = "archived"]
          [] post = "restore" -> [@ EXCEPT !.column = "live"]
          [] OTHER -> @]

\* The post of the operation at work: it is done, it is refused, or the answer
\* is an error, and the post done or not.
Post(i) ==
    LET at == work[i].at
        k == work[i].target
        post == IF at = "verb" THEN Kind(i) ELSE at
    IN  /\ at \in {"create", "move", "verb"}
        /\ \/ /\ Accepts(i, post, k)
              /\ cards' = Posted(i, post, k)
              /\ faults' = faults
              /\ CASE at = "create" -> Goes(i, "move") /\ UNCHANGED <<chain, ledger, owed>>
                   [] at = "move" /\ Kind(i) # "create" ->
                         Goes(i, "verb") /\ UNCHANGED <<chain, ledger, owed>>
                   [] OTHER -> Succeeds(i, k, at = "move")
           \/ ~Accepts(i, post, k) /\ cards' = cards /\ faults' = faults /\ Fails(i)
           \/ /\ Faulty /\ Fails(i)
              /\ cards' \in {cards} \cup (IF Accepts(i, post, k) THEN {Posted(i, post, k)} ELSE {})
        /\ UNCHANGED <<available, lastProbe, verbs>>

\* A human deletes a card of the task board, or moves it in or out of the archive.
Hand(i, k) ==
    /\ Exists(i, k)
    /\ Faulty
    /\ \/ /\ cards' = [cards EXCEPT ![i][k] = NoCard]
          /\ owed' = [owed EXCEPT ![i] = {"card", "text", "column"}]
       \/ /\ cards' = [cards EXCEPT ![i][k].column = IF @ = "live" THEN "archived" ELSE "live"]
          /\ owed' = [owed EXCEPT ![i] = @ \cup {"column"}]
    /\ UNCHANGED <<ledger, host, verbs>>

\* The process ends, and the chains with it.
Crash ==
    /\ Faulty
    /\ owed' = [i \in Ideas |->
          owed[i] \cup UNION {Undone(chain[i][n].kind) : n \in DOMAIN chain[i]}]
    /\ chain' = [i \in Ideas |-> <<>>]
    /\ work' = [i \in Ideas |-> Idle]
    /\ available' = FALSE /\ lastProbe' = "due"
    /\ UNCHANGED <<ledger, cards, verbs>>

Next ==
    \/ \E i \in Ideas :
          \/ Create(i) \/ Update(i) \/ Delete(i)
          \/ \E to \in {"open", "underReview", "archived"} : Move(i, to)
          \/ \E j \in Ideas : FollowUp(i, j) \/ Merge(i, j)
          \/ Begin(i) \/ Probe(i) \/ Fetch(i) \/ Post(i)
          \/ \E k \in CardIds : Hand(i, k)
    \/ ProbeElsewhere \/ ProbeDue \/ Crash

Spec == Init /\ [][Next]_vars

\* The board answers, if only with an error.
Fairness ==
    \A i \in Ideas : WF_vars(Begin(i) \/ Probe(i) \/ Fetch(i) \/ Post(i))

FairSpec == Spec /\ Fairness

----------------------------------------------------------------------------
(* What the mirror owes the human who looks at both boards.                *)

\* An idea never has two cards: neither a lost answer, a list that comes back
\* empty, a rebuild nor a restart makes a second one beside the bound one.
OneCard ==
    \A i \in Ideas : \E k \in CardIds : \A other \in CardIds \ {k} : ~Exists(i, other)

\* Once its chain is empty an idea has its card, with its text and on its side
\* of the archive, whatever order verbs, operations and answers came in; what
\* went wrong is owed until an operation that succeeds puts it right.
CardAgrees(i) ==
    \E k \in CardIds :
        /\ Exists(i, k)
        /\ "text" \notin owed[i] => cards[i][k].text = text[i]
        /\ "column" \notin owed[i] =>
              /\ status[i] = "open" => cards[i][k].column = "live"
              /\ status[i] = "archived" => cards[i][k].column = "archived"

QuietCardsAgree ==
    \A i \in Ideas :
        Present(i) /\ chain[i] = <<>> /\ "card" \notin owed[i] => CardAgrees(i)

\* An operation that fails does not block the ones behind it.
ChainsDrain == \A i \in Ideas : chain[i] # <<>> ~> chain[i] = <<>>

=============================================================================
