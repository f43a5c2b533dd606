-------------------------- MODULE CardMirrorProofs --------------------------
(* An idea has one card, and a card agrees with its idea once the chain of  *)
(* the idea is empty, for every set of ideas, any number of verbs and any   *)
(* number of faults.                                                        *)
EXTENDS CardMirror, TLAPS

\* An idea that is not there yet left no trace.
UnbornIsBlank(i) ==
    status[i] = "unborn" =>
        /\ chain[i] = <<>> /\ bound[i] = None /\ parent[i] = None
        /\ \A k \in CardIds : ~Exists(i, k)

\* The operations of one of the kinds that wait behind the first place of the
\* chain, or in it.
Behind(i, kind) == \E n \in DOMAIN chain[i] : n > 1 /\ chain[i][n].kind = kind
Queued(i, kind) == \E n \in DOMAIN chain[i] : chain[i][n].kind = kind

\* The operation at work is the first of its chain.  What it read of its idea is
\* still so, or an update behind it knows better; it makes a card, the derived
\* one, only where the older version's card is gone.
WorkSound(i) ==
    work[i].at # "idle" =>
        /\ chain[i] # <<>>
        /\ work[i].at = "verb" => Kind(i) # "create" /\ work[i].target # None
        /\ work[i].at \in {"create", "move"} =>
              work[i].target = "own" /\ ~Exists(i, "legacy")
        /\ work[i].at = "move" /\ Exists(i, "own") => cards[i]["own"].text = work[i].row.text
        /\ Present(i) =>
              /\ work[i].row.bound = bound[i]
              /\ work[i].row.text = text[i] \/ Behind(i, "update")

\* The card of the older version is the only one, and all know it.
LegacyAlone(i) ==
    Exists(i, "legacy") =>
        /\ ~Exists(i, "own")
        /\ bound[i] = "legacy"
        /\ \A n \in DOMAIN chain[i] : chain[i][n].captured.bound = "legacy"
        /\ work[i].at # "idle" => work[i].row.bound = "legacy"

\* An idea has a card or one is to come; one that was ever bound has it.
CardToCome(i) ==
    Present(i) /\ "card" \notin owed[i] =>
        \/ \E k \in CardIds : Exists(i, k)
        \/ bound[i] = None /\ Queued(i, "create")

\* A card has the text of its idea, or an update is to come.
TextToCome(i) ==
    Present(i) /\ "text" \notin owed[i] =>
        \/ Queued(i, "update")
        \/ \A k \in CardIds : Exists(i, k) => cards[i][k].text = text[i]

\* An operation of the one kind has one of the other behind it.
Followed(i, one, other) ==
    \A n \in DOMAIN chain[i] : chain[i][n].kind = one =>
        \E m \in DOMAIN chain[i] : m > n /\ chain[i][m].kind = other

\* The last operation of a chain that moves the card moves it where its idea is.
MovesInOrder(i) ==
    /\ status[i] = "open" => Followed(i, "archive", "restore")
    /\ status[i] = "archived" => Followed(i, "restore", "archive")

\* A card is on the side of its idea, or a move is to come.
ColumnToCome(i) ==
    Present(i) /\ "column" \notin owed[i] =>
        /\ status[i] = "open" =>
              \/ Queued(i, "restore")
              \/ \A k \in CardIds : Exists(i, k) => cards[i][k].column = "live"
        /\ status[i] = "archived" =>
              \/ Queued(i, "archive")
              \/ \E k \in CardIds : Exists(i, k) /\ cards[i][k].column = "archived"

\* The idea knows the card that it archived: a restore finds it.
ArchivedIsBound(i) ==
    Present(i) /\ "column" \notin owed[i] =>
        \A k \in CardIds : Exists(i, k) /\ cards[i][k].column = "archived" => bound[i] = k

Mirrored(i) ==
    /\ UnbornIsBlank(i) /\ WorkSound(i) /\ LegacyAlone(i) /\ CardToCome(i)
    /\ TextToCome(i) /\ MovesInOrder(i) /\ ColumnToCome(i) /\ ArchivedIsBound(i)

MirrorInv == \A i \in Ideas : Mirrored(i)

----------------------------------------------------------------------------
(* Chains and cards.                                                       *)

\* What is left of a chain once its first operation is over.
LEMMA RestOfChain ==
    ASSUME TypeOK, NEW i \in Ideas, chain[i] # <<>>, Unchains(i)
    PROVE  /\ Kind(i) = chain[i][1].kind /\ Kind(i) \in Kinds /\ 1 \in DOMAIN chain[i]
           /\ DOMAIN chain[i] \subseteq Nat /\ DOMAIN chain'[i] \subseteq Nat
           /\ \A n \in DOMAIN chain'[i] :
                 n + 1 \in DOMAIN chain[i] /\ chain'[i][n] = chain[i][n + 1]
           /\ \A n \in DOMAIN chain[i] : n > 1 =>
                 n - 1 \in DOMAIN chain'[i] /\ chain'[i][n - 1] = chain[i][n]
           /\ work'[i].at = "idle"
<1> DEFINE ops == chain[i]
<1>1. /\ ops \in Seq(Ops) /\ ops # <<>>
      /\ chain'[i] = Tail(ops) /\ work'[i] = Idle /\ Kind(i) = Head(ops).kind
  BY DEF TypeOK, Unchains, Kind
<1> HIDE DEF ops
<1>2. /\ Len(ops) \in Nat /\ Len(ops) > 0 /\ DOMAIN ops = 1..Len(ops)
      /\ Head(ops) = ops[1] /\ ops[1] \in Ops
      /\ Tail(ops) \in Seq(Ops) /\ Len(Tail(ops)) = Len(ops) - 1
      /\ DOMAIN Tail(ops) = 1..(Len(ops) - 1)
      /\ \A n \in 1..(Len(ops) - 1) : Tail(ops)[n] = ops[n + 1]
  BY <1>1
<1>3. /\ Kind(i) = ops[1].kind /\ Kind(i) \in Kinds /\ 1 \in DOMAIN ops
      /\ DOMAIN ops \subseteq Nat /\ DOMAIN chain'[i] \subseteq Nat
  BY <1>1, <1>2 DEF Ops
<1>4. \A n \in DOMAIN chain'[i] : n + 1 \in DOMAIN ops /\ chain'[i][n] = ops[n + 1]
  BY <1>1, <1>2
<1>5. \A n \in DOMAIN ops : n > 1 => n - 1 \in DOMAIN chain'[i] /\ chain'[i][n - 1] = ops[n]
  BY <1>1, <1>2
<1> QED
  BY <1>1, <1>3, <1>4, <1>5 DEF ops, Idle

\* What was queued still is, but for the one that is over.
LEMMA RestQueued ==
    ASSUME TypeOK, NEW i \in Ideas, chain[i] # <<>>, Unchains(i), NEW kind
    PROVE  /\ Behind(i, kind) => Queued(i, kind)'
           /\ Queued(i, kind) /\ Kind(i) # kind => Queued(i, kind)'
<1>1. ASSUME NEW n \in DOMAIN chain[i], n > 1, chain[i][n].kind = kind
      PROVE  Queued(i, kind)'
  <2>1. n - 1 \in DOMAIN chain'[i] /\ chain'[i][n - 1] = chain[i][n]
    BY <1>1, RestOfChain
  <2> QED
    BY <1>1, <2>1 DEF Queued
<1>2. \A n \in DOMAIN chain[i] : chain[i][n].kind = kind /\ Kind(i) # kind => n > 1
  <2>1. /\ Kind(i) = chain[i][1].kind
        /\ \A n \in DOMAIN chain[i] : n \in 1..Len(chain[i])
    BY RestOfChain DEF TypeOK
  <2> QED
    BY <2>1
<1> QED
  BY <1>1, <1>2 DEF Behind, Queued

LEMMA RestFollowed ==
    ASSUME TypeOK, NEW i \in Ideas, chain[i] # <<>>, Unchains(i),
           NEW one, NEW other, Followed(i, one, other)
    PROVE  Followed(i, one, other)'
<1> SUFFICES ASSUME NEW n \in DOMAIN chain'[i], chain'[i][n].kind = one
             PROVE  \E m \in DOMAIN chain'[i] : m > n /\ chain'[i][m].kind = other
  BY DEF Followed
<1>1. n \in Nat /\ n + 1 \in DOMAIN chain[i] /\ chain[i][n + 1].kind = one
  BY RestOfChain
<1>2. PICK m \in DOMAIN chain[i] : m > n + 1 /\ chain[i][m].kind = other
  BY <1>1 DEF Followed
<1>3. m \in Nat /\ m - 1 \in DOMAIN chain'[i] /\ chain'[i][m - 1] = chain[i][m]
  BY <1>1, <1>2, RestOfChain
<1> QED
  BY <1>1, <1>2, <1>3

\* A chain with one more operation.
LEMMA LongerChain ==
    ASSUME TypeOK, NEW i \in Ideas, NEW op, chain'[i] = Append(chain[i], op)
    PROVE  /\ DOMAIN chain[i] \subseteq DOMAIN chain'[i]
           /\ \A n \in DOMAIN chain[i] : chain'[i][n] = chain[i][n]
           /\ \E last \in DOMAIN chain'[i] :
                 /\ DOMAIN chain'[i] = DOMAIN chain[i] \cup {last}
                 /\ chain'[i][last] = op
                 /\ \A n \in DOMAIN chain[i] : last > n
           /\ chain'[i] # <<>>
           /\ chain[i] # <<>> => Kind(i)' = Kind(i) /\ \E last \in DOMAIN chain'[i] :
                 last > 1 /\ chain'[i][last] = op
<1> DEFINE ops == chain[i]
<1>1. ops \in Seq(Ops) /\ chain'[i] = Append(ops, op)
  BY DEF TypeOK
<1> HIDE DEF ops
<1>2. /\ Len(ops) \in Nat /\ DOMAIN ops = 1..Len(ops)
      /\ DOMAIN chain'[i] = 1..(Len(ops) + 1)
      /\ \A n \in DOMAIN ops : chain'[i][n] = ops[n]
      /\ chain'[i][Len(ops) + 1] = op
      /\ chain'[i] # <<>>
  BY <1>1
<1>3. ops # <<>> => Len(ops) > 0 /\ Head(ops) = ops[1] /\ Head(chain'[i]) = chain'[i][1]
  BY <1>1, <1>2
<1> QED
  BY <1>2, <1>3 DEF ops, Kind

LEMMA OneOfTwo ==
    ASSUME NEW i \in Ideas, LegacyAlone(i),
           NEW k \in CardIds, NEW o \in CardIds, Exists(i, k), Exists(i, o)
    PROVE  k = o
BY DEF LegacyAlone, CardIds

\* What a post may make of the cards of an idea, answered or not.
PostedOn(i) ==
    \A k \in CardIds :
        /\ Exists(i, k) => Exists(i, k)'
        /\ Exists(i, k)' /\ ~Exists(i, k) =>
              /\ work[i].at = "create" /\ k = "own" /\ \A o \in CardIds : ~Exists(i, o)
              /\ cards'[i][k] = [column |-> "live", text |-> work[i].row.text]
        /\ Exists(i, k) /\ cards'[i][k].text # cards[i][k].text =>
              work[i].at = "verb" /\ Kind(i) = "update"
        /\ Exists(i, k) /\ cards'[i][k].column # cards[i][k].column =>
              work[i].at = "verb" /\ Kind(i) \in {"archive", "restore"}


----------------------------------------------------------------------------
(* The operation at work: it fails, it succeeds, it goes on.               *)

LEMMA FailKeeps ==
    ASSUME TypeOK, NEW i \in Ideas, Mirrored(i), chain[i] # <<>>, Fails(i), PostedOn(i)
    PROVE  Mirrored(i)'
<1> USE MirrorAssumption
<1>1. /\ Unchains(i) /\ UNCHANGED <<status, text, bound, parent>>
      /\ owed'[i] = owed[i] \cup Undone(Kind(i))
      /\ work'[i].at = "idle" /\ Kind(i) \in Kinds
      /\ Present(i)' <=> Present(i)
  BY RestOfChain DEF Fails, GivesUp, ledger, TypeOK, Present
<1>2. UnbornIsBlank(i)'
  BY <1>1 DEF Mirrored, UnbornIsBlank
<1>3. WorkSound(i)'
  BY <1>1 DEF WorkSound
<1>4. LegacyAlone(i)'
  <2>1. SUFFICES ASSUME Exists(i, "legacy")' PROVE LegacyAlone(i)'
    BY DEF LegacyAlone
  <2>2. Exists(i, "legacy")
    BY <2>1 DEF PostedOn, CardIds
  <2>3. ~Exists(i, "own")'
    BY <2>2 DEF Mirrored, LegacyAlone, PostedOn, CardIds
  <2>4. \A n \in DOMAIN chain'[i] : chain'[i][n].captured.bound = "legacy"
    BY <1>1, <2>2, RestOfChain DEF Mirrored, LegacyAlone
  <2> QED
    BY <1>1, <2>2, <2>3, <2>4 DEF Mirrored, LegacyAlone
<1>5. CardToCome(i)'
  <2>1. SUFFICES ASSUME Present(i), "card" \notin owed[i], Kind(i) # "create"
                 PROVE  CardToCome(i)'
    BY <1>1 DEF CardToCome, Undone
  <2>2. (\E k \in CardIds : Exists(i, k)) \/ (bound[i] = None /\ Queued(i, "create"))
    BY <2>1 DEF Mirrored, CardToCome
  <2>3. Queued(i, "create") => Queued(i, "create")'
    BY <1>1, <2>1, RestQueued
  <2> QED
    BY <1>1, <2>2, <2>3 DEF CardToCome, PostedOn
<1>6. TextToCome(i)'
  <2>1. SUFFICES ASSUME Present(i), "text" \notin owed[i], Kind(i) # "update",
                        ~Queued(i, "update")',
                        NEW k \in CardIds, Exists(i, k)'
                 PROVE  cards'[i][k].text = text[i]
    BY <1>1 DEF TextToCome, Undone
  <2>2. ~Queued(i, "update") /\ ~Behind(i, "update")
    BY <1>1, <2>1, RestQueued
  <2>3. CASE Exists(i, k)
    BY <2>1, <2>2, <2>3 DEF Mirrored, TextToCome, PostedOn
  <2>4. CASE ~Exists(i, k)
    BY <2>1, <2>2, <2>4 DEF Mirrored, WorkSound, PostedOn
  <2> QED
    BY <2>3, <2>4
<1>7. MovesInOrder(i)'
  BY <1>1, RestFollowed DEF Mirrored, MovesInOrder
<1>8. ASSUME "column" \notin owed'[i]
      PROVE  /\ "column" \notin owed[i] /\ Kind(i) \in {"create", "update"}
             /\ \A k \in CardIds : Exists(i, k) => cards'[i][k].column = cards[i][k].column
             /\ \A k \in CardIds : Exists(i, k)' /\ ~Exists(i, k) => cards'[i][k].column = "live"
  BY <1>1, <1>8 DEF Undone, PostedOn, Kinds
<1>9. ColumnToCome(i)'
  <2>1. SUFFICES ASSUME Present(i), "column" \notin owed'[i] PROVE ColumnToCome(i)'
    BY <1>1 DEF ColumnToCome
  <2>2. \A kind \in {"archive", "restore"} : Queued(i, kind) => Queued(i, kind)'
    BY <1>1, <1>8, <2>1, RestQueued
  <2>3. ColumnToCome(i)
    BY DEF Mirrored
  <2>4. \A k \in CardIds : Exists(i, k) => Exists(i, k)'
    BY DEF PostedOn
  <2> QED
    BY <1>1, <1>8, <2>1, <2>2, <2>3, <2>4 DEF ColumnToCome
<1>10. ArchivedIsBound(i)'
  BY <1>1, <1>8 DEF Mirrored, ArchivedIsBound
<1> QED
  BY <1>2, <1>3, <1>4, <1>5, <1>6, <1>7, <1>9, <1>10 DEF Mirrored

\* The operation succeeds on a card that is there, or on one that is bound and
\* that no list can tell of.
LEMMA SuccessKeeps ==
    ASSUME TypeOK, NEW i \in Ideas, Mirrored(i), work[i].at # "idle",
           NEW target \in CardIds, NEW created \in BOOLEAN,
           Succeeds(i, target, created), PostedOn(i), work[i].at # "create",
           Exists(i, target) \/ (Kind(i) = "create" /\ target = work[i].row.bound),
           created => work[i].at = "move" /\ target = "own" /\ cards' = cards,
           Kind(i) = "update" => cards'[i][target].text = work[i].row.text,
           Kind(i) = "archive" => cards'[i][target].column = "archived",
           Kind(i) = "restore" => cards'[i][target].column = "live"
    PROVE  Mirrored(i)'
<1> USE MirrorAssumption
<1>1. /\ Unchains(i) /\ UNCHANGED <<status, text, parent>> /\ chain[i] # <<>>
      /\ owed'[i] = owed[i] \ Settled(i, target, created)
      /\ work'[i].at = "idle" /\ Kind(i) \in Kinds
      /\ Present(i)' <=> Present(i)
      /\ bound'[i] = IF Present(i) /\ Kind(i) # "restore" THEN target ELSE bound[i]
  BY RestOfChain DEF Succeeds, TypeOK, Present, Mirrored, WorkSound
<1>2. \A k \in CardIds : Exists(i, k)' <=> Exists(i, k)
  BY DEF PostedOn
<1>3. Exists(i, target) => \A k \in CardIds : Exists(i, k) => k = target
  BY OneOfTwo DEF Mirrored
<1>4. Present(i) => work[i].row.bound = bound[i]
  BY DEF Mirrored, WorkSound
<1>5. UnbornIsBlank(i)'
  BY <1>1 DEF Mirrored, UnbornIsBlank
<1>6. WorkSound(i)'
  BY <1>1 DEF WorkSound
<1>7. LegacyAlone(i)'
  <2>1. SUFFICES ASSUME Exists(i, "legacy") PROVE LegacyAlone(i)'
    BY <1>2 DEF LegacyAlone, CardIds
  <2>2. ~Exists(i, "own")' /\ bound[i] = "legacy" /\ target = "legacy"
    BY <1>2, <1>3, <2>1 DEF Mirrored, LegacyAlone, CardIds
  <2>3. \A n \in DOMAIN chain'[i] : chain'[i][n].captured.bound = "legacy"
    BY <1>1, <2>1, RestOfChain DEF Mirrored, LegacyAlone
  <2> QED
    BY <1>1, <2>2, <2>3 DEF LegacyAlone
<1>8. CardToCome(i)'
  <2>1. SUFFICES ASSUME Present(i), ~Exists(i, target), "card" \notin owed'[i]
                 PROVE  CardToCome(i)'
    BY <1>1, <1>2 DEF CardToCome
  <2>2. "card" \notin owed[i] /\ bound[i] # None
    BY <1>1, <1>4, <2>1 DEF Settled
  <2> QED
    BY <1>2, <2>1, <2>2 DEF Mirrored, CardToCome
<1>9. TextToCome(i)'
  <2>1. SUFFICES ASSUME Present(i), "text" \notin owed'[i], ~Queued(i, "update")',
                        NEW k \in CardIds, Exists(i, k)
                 PROVE  cards'[i][k].text = text[i]
    BY <1>1, <1>2 DEF TextToCome
  <2>2. ~Behind(i, "update") /\ work[i].row.text = text[i]
    BY <1>1, <2>1, RestQueued DEF Mirrored, WorkSound
  <2>3. CASE Kind(i) = "update"
    BY <1>3, <2>1, <2>2, <2>3
  <2>4. CASE created
    BY <1>3, <2>1, <2>2, <2>4 DEF Mirrored, WorkSound, LegacyAlone, CardIds
  <2>5. CASE Kind(i) # "update" /\ ~created
    <3>1. "text" \notin owed[i] /\ ~Queued(i, "update")
      BY <1>1, <2>1, <2>5, RestQueued DEF Settled
    <3>2. cards'[i][k].text = cards[i][k].text
      BY <2>1, <2>5 DEF PostedOn
    <3> QED
      BY <2>1, <3>1, <3>2 DEF Mirrored, TextToCome
  <2> QED
    BY <2>3, <2>4, <2>5
<1>10. MovesInOrder(i)'
  BY <1>1, RestFollowed DEF Mirrored, MovesInOrder
<1>11. ASSUME "column" \notin owed'[i], Kind(i) # KindOfMove(status[i])
       PROVE  "column" \notin owed[i]
  BY <1>1, <1>11 DEF Settled
<1>12. CASE Kind(i) \in {"create", "update"}
  <2>1. \A k \in CardIds : Exists(i, k) => cards'[i][k].column = cards[i][k].column
    BY <1>12 DEF PostedOn
  <2>2. Kind(i) # KindOfMove(status[i])
    BY <1>12 DEF KindOfMove, Kinds
  <2>3. ColumnToCome(i)'
    <3>1. SUFFICES ASSUME Present(i), "column" \notin owed'[i] PROVE ColumnToCome(i)'
      BY <1>1 DEF ColumnToCome
    <3>2. \A kind \in {"archive", "restore"} : Queued(i, kind) => Queued(i, kind)'
      BY <1>1, <1>12, RestQueued
    <3>3. ColumnToCome(i) /\ "column" \notin owed[i]
      BY <1>11, <2>2, <3>1 DEF Mirrored
    <3> QED
      BY <1>1, <1>2, <2>1, <3>1, <3>2, <3>3 DEF ColumnToCome
  <2>4. ArchivedIsBound(i)'
    <3>1. SUFFICES ASSUME Present(i), "column" \notin owed'[i],
                          NEW k \in CardIds, Exists(i, k), cards[i][k].column = "archived"
                   PROVE  target = k
      BY <1>1, <1>2, <1>12, <2>1 DEF ArchivedIsBound
    <3>2. bound[i] = k
      BY <1>11, <2>2, <3>1 DEF Mirrored, ArchivedIsBound
    <3> QED
      BY <1>3, <1>4, <3>1, <3>2
  <2> QED
    BY <1>5, <1>6, <1>7, <1>8, <1>9, <1>10, <2>3, <2>4 DEF Mirrored
<1>13. CASE Kind(i) = "archive"
  <2>1. Exists(i, target) /\ cards'[i][target].column = "archived"
    BY <1>13
  <2>2. ColumnToCome(i)'
    <3>1. SUFFICES ASSUME Present(i), "column" \notin owed'[i], status[i] = "open"
                   PROVE  Queued(i, "restore")'
      BY <1>1, <1>2, <2>1 DEF ColumnToCome
    <3>2. Followed(i, "archive", "restore")
      BY <3>1 DEF Mirrored, MovesInOrder
    <3>3. Queued(i, "restore")
      BY <1>1, <1>13, <3>2, RestOfChain DEF Followed, Queued
    <3> QED
      BY <1>1, <1>13, <3>3, RestQueued
  <2>3. ArchivedIsBound(i)'
    BY <1>1, <1>2, <1>3, <1>13, <2>1 DEF ArchivedIsBound
  <2> QED
    BY <1>5, <1>6, <1>7, <1>8, <1>9, <1>10, <2>2, <2>3 DEF Mirrored
<1>14. CASE Kind(i) = "restore"
  <2>1. \A k \in CardIds : Exists(i, k) => cards'[i][k].column = "live"
    BY <1>3, <1>14
  <2>2. ColumnToCome(i)'
    <3>1. SUFFICES ASSUME Present(i), "column" \notin owed'[i], status[i] = "archived"
                   PROVE  Queued(i, "archive")'
      BY <1>1, <1>2, <2>1 DEF ColumnToCome
    <3>2. Followed(i, "restore", "archive")
      BY <3>1 DEF Mirrored, MovesInOrder
    <3>3. Queued(i, "archive")
      BY <1>1, <1>14, <3>2, RestOfChain DEF Followed, Queued
    <3> QED
      BY <1>1, <1>14, <3>3, RestQueued
  <2>3. ArchivedIsBound(i)'
    BY <1>2, <2>1 DEF ArchivedIsBound
  <2> QED
    BY <1>5, <1>6, <1>7, <1>8, <1>9, <1>10, <2>2, <2>3 DEF Mirrored
<1> QED
  BY <1>1, <1>12, <1>13, <1>14 DEF Kinds


\* The operation goes on, and nothing else of its idea changes but the cards.
LEMMA ProgressKeeps ==
    ASSUME TypeOK, NEW i \in Ideas, Mirrored(i), work[i].at # "verb", PostedOn(i),
           UNCHANGED <<ledger, chain, owed>>, WorkSound(i)',
           chain[i] # <<>>,
           Exists(i, "legacy") => work'[i].row.bound = "legacy"
    PROVE  Mirrored(i)'
<1>1. /\ UNCHANGED <<status, text, bound, parent>>
      /\ Present(i)' <=> Present(i)
      /\ \A kind : Queued(i, kind)' <=> Queued(i, kind)
  BY DEF ledger, Present, Queued
<1>2. \A k \in CardIds : Exists(i, k) =>
         /\ Exists(i, k)'
         /\ cards'[i][k].text = cards[i][k].text /\ cards'[i][k].column = cards[i][k].column
  BY DEF PostedOn
<1>3. \A k \in CardIds : Exists(i, k)' /\ ~Exists(i, k) =>
         /\ k = "own" /\ \A o \in CardIds : ~Exists(i, o)
         /\ cards'[i][k].text = work[i].row.text /\ cards'[i][k].column = "live"
         /\ work[i].at = "create"
  BY DEF PostedOn
<1>4. UnbornIsBlank(i)' /\ MovesInOrder(i)'
  BY <1>1 DEF Mirrored, UnbornIsBlank, MovesInOrder, Followed
<1>5. LegacyAlone(i)'
  BY <1>1, <1>2, <1>3 DEF Mirrored, LegacyAlone, CardIds
<1>6. CardToCome(i)'
  BY <1>1, <1>2 DEF Mirrored, CardToCome
<1>7. TextToCome(i)'
  <2>1. SUFFICES ASSUME Present(i), "text" \notin owed[i], ~Queued(i, "update"),
                        NEW k \in CardIds, Exists(i, k)'
                 PROVE  cards'[i][k].text = text[i]
    BY <1>1 DEF TextToCome
  <2>2. ~Behind(i, "update")
    BY <2>1 DEF Behind, Queued
  <2> QED
    BY <1>2, <1>3, <2>1, <2>2 DEF Mirrored, TextToCome, WorkSound
<1>8. ColumnToCome(i)'
  BY <1>1, <1>2, <1>3 DEF Mirrored, ColumnToCome
<1>9. ArchivedIsBound(i)'
  BY <1>1, <1>2, <1>3 DEF Mirrored, ArchivedIsBound
<1> QED
  BY <1>4, <1>5, <1>6, <1>7, <1>8, <1>9 DEF Mirrored

\* Nothing of an idea changes, but for the idea that it follows up.
LEMMA SparedKeeps ==
    ASSUME NEW i \in Ideas, Mirrored(i),
           status'[i] = status[i], text'[i] = text[i], bound'[i] = bound[i],
           parent'[i] = parent[i] \/ status[i] # "unborn",
           chain'[i] = chain[i], work'[i] = work[i], cards'[i] = cards[i],
           owed'[i] = owed[i]
    PROVE  Mirrored(i)'
<1>1. /\ Present(i)' <=> Present(i)
      /\ \A kind : Queued(i, kind)' <=> Queued(i, kind)
      /\ \A kind : Behind(i, kind)' <=> Behind(i, kind)
      /\ \A k : Exists(i, k)' <=> Exists(i, k)
      /\ chain[i] # <<>> => Kind(i)' = Kind(i)
  BY DEF Present, Queued, Behind, Exists, Kind
<1>2. UnbornIsBlank(i)'
  BY <1>1 DEF Mirrored, UnbornIsBlank
<1>3. WorkSound(i)'
  BY <1>1 DEF Mirrored, WorkSound
<1>4. LegacyAlone(i)'
  BY <1>1 DEF Mirrored, LegacyAlone
<1>5. CardToCome(i)' /\ TextToCome(i)'
  BY <1>1 DEF Mirrored, CardToCome, TextToCome
<1>6. MovesInOrder(i)'
  BY <1>1 DEF Mirrored, MovesInOrder, Followed
<1>7. ColumnToCome(i)' /\ ArchivedIsBound(i)'
  BY <1>1 DEF Mirrored, ColumnToCome, ArchivedIsBound
<1> QED
  BY <1>2, <1>3, <1>4, <1>5, <1>6, <1>7 DEF Mirrored

LEMMA BeginKeeps ==
    ASSUME TypeOK, MirrorInv, NEW i \in Ideas, Begin(i)
    PROVE  MirrorInv'
<1> USE MirrorAssumption
<1> DEFINE row == MirroredRow(i)
<1>1. /\ chain[i] # <<>> /\ work[i].at = "idle" /\ Mirrored(i)
      /\ UNCHANGED <<cards>> /\ PostedOn(i)
      /\ Kind(i) \in Kinds
  <2>1. chain[i] \in Seq(Ops) /\ chain[i] # <<>>
    BY DEF Begin, TypeOK
  <2>2. Head(chain[i]) \in Ops
    BY <2>1
  <2> QED
    BY <2>1, <2>2 DEF Begin, MirrorInv, PostedOn, Kind, Ops, Exists
<1>2. /\ Present(i) => row.bound = bound[i] /\ row.text = text[i]
      /\ Exists(i, "legacy") => row.bound = "legacy"
  <2>1. chain[i] \in Seq(Ops) /\ DOMAIN chain[i] = 1..Len(chain[i])
        /\ Len(chain[i]) > 0 /\ Head(chain[i]) = chain[i][1]
    BY <1>1 DEF TypeOK
  <2> QED
    BY <1>1, <2>1 DEF MirroredRow, Mirrored, LegacyAlone
<1> HIDE DEF row
<1>3. \A j \in Ideas \ {i} : Mirrored(j)'
  <2>1. /\ UNCHANGED <<status, text, parent, cards>>
        /\ \A j \in Ideas \ {i} : /\ bound'[j] = bound[j] /\ chain'[j] = chain[j]
                                  /\ work'[j] = work[j] /\ owed'[j] = owed[j]
    BY DEF Begin, Fails, GivesUp, Unchains, ledger, TypeOK
  <2> QED
    BY <2>1, SparedKeeps DEF MirrorInv
<1>4. CASE /\ Kind(i) = "restore" /\ row.bound = None
           /\ Unchains(i) /\ UNCHANGED <<ledger, owed>>
  <2>1. /\ UNCHANGED <<status, text, bound, parent>>
        /\ work'[i].at = "idle"
        /\ Present(i)' <=> Present(i)
        /\ \A k \in CardIds : Exists(i, k)' <=> Exists(i, k)
    BY <1>1, <1>4, RestOfChain DEF ledger, Present, Exists
  <2>2. UnbornIsBlank(i)' /\ WorkSound(i)'
    BY <1>1, <2>1 DEF Mirrored, UnbornIsBlank, WorkSound
  <2>3. LegacyAlone(i)'
    BY <1>2, <1>4, <2>1 DEF LegacyAlone, CardIds
  <2>4. \A kind \in {"create", "update", "archive"} : Queued(i, kind) => Queued(i, kind)'
    BY <1>1, <1>4, RestQueued
  <2>5. CardToCome(i)' /\ TextToCome(i)'
    <3>1. owed' = owed /\ cards' = cards /\ CardToCome(i) /\ TextToCome(i)
      BY <1>1, <1>4 DEF Mirrored
    <3>2. CardToCome(i)'
      BY <2>1, <2>4, <3>1 DEF CardToCome
    <3>3. TextToCome(i)'
      BY <2>1, <2>4, <3>1 DEF TextToCome
    <3> QED
      BY <3>2, <3>3
  <2>6. MovesInOrder(i)'
    BY <1>1, <1>4, <2>1, RestFollowed DEF Mirrored, MovesInOrder
  <2>7. ArchivedIsBound(i)'
    BY <1>1, <1>4, <2>1 DEF Mirrored, ArchivedIsBound
  <2>8. ColumnToCome(i)'
    <3>1. SUFFICES ASSUME Present(i), "column" \notin owed[i] PROVE ColumnToCome(i)'
      BY <1>4, <2>1 DEF ColumnToCome
    <3>2. \A k \in CardIds : Exists(i, k) => cards[i][k].column = "live"
      <4>1. \A k \in CardIds : Exists(i, k) => cards[i][k].column # "archived"
        BY <1>1, <1>2, <1>4, <3>1 DEF Mirrored, ArchivedIsBound
      <4>2. \A k \in CardIds : cards[i][k].column \in {"none", "live", "archived"}
        BY DEF TypeOK, Cards
      <4> QED
        BY <4>1, <4>2 DEF Exists
    <3>3. status[i] = "archived" => Queued(i, "archive")
      <4>1. status[i] = "archived" => Followed(i, "restore", "archive")
        BY <1>1 DEF Mirrored, MovesInOrder
      <4> QED
        BY <1>1, <1>4, <4>1, RestOfChain DEF Followed, Queued
    <3> QED
      BY <1>1, <2>1, <2>4, <3>2, <3>3 DEF ColumnToCome
  <2> QED
    BY <1>3, <2>2, <2>3, <2>5, <2>6, <2>7, <2>8 DEF Mirrored, MirrorInv
<1>5. ASSUME NEW at \in {"verb", "fetch", "probe"},
             (Kind(i) = "restore" /\ row.bound # None) \/ at # "verb",
             work' = [work EXCEPT ![i] = [at |-> at, row |-> row, target |-> row.bound]],
             UNCHANGED <<chain, ledger, owed>>
      PROVE  MirrorInv'
  <2>1. work'[i] = [at |-> at, row |-> row, target |-> row.bound]
    BY <1>5 DEF TypeOK
  <2>2. WorkSound(i)'
    BY <1>1, <1>2, <1>5, <2>1 DEF WorkSound, Present, Kind, ledger
  <2>3. Mirrored(i)'
    BY <1>1, <1>2, <1>5, <2>1, <2>2, ProgressKeeps
  <2> QED
    BY <1>3, <2>3 DEF MirrorInv
<1>6. CASE Fails(i)
  BY <1>1, <1>3, <1>6, FailKeeps DEF MirrorInv
<1> QED
  <2>1. \/ /\ Kind(i) = "restore" /\ row.bound = None
           /\ Unchains(i) /\ UNCHANGED <<ledger, owed>>
        \/ \E at \in {"verb", "fetch", "probe"} :
             /\ (Kind(i) = "restore" /\ row.bound # None) \/ at # "verb"
             /\ work' = [work EXCEPT ![i] = [at |-> at, row |-> row, target |-> row.bound]]
             /\ UNCHANGED <<chain, ledger, owed>>
        \/ Fails(i)
    BY DEF Begin, row, TypeOK
  <2> QED
    BY <1>4, <1>5, <1>6, <2>1


LEMMA OthersSpared ==
    ASSUME TypeOK, MirrorInv, NEW i \in Ideas, Mirrored(i)',
           UNCHANGED <<status, text, parent>>,
           \A j \in Ideas \ {i} :
              /\ bound'[j] = bound[j] /\ chain'[j] = chain[j] /\ work'[j] = work[j]
              /\ cards'[j] = cards[j] /\ owed'[j] = owed[j]
    PROVE  MirrorInv'
<1>1. \A j \in Ideas \ {i} : Mirrored(j)'
  BY SparedKeeps DEF MirrorInv
<1> QED
  BY <1>1 DEF MirrorInv

\* The end of an operation leaves the other ideas alone.
LEMMA FailSparesOthers ==
    ASSUME TypeOK, NEW i \in Ideas, Fails(i)
    PROVE  /\ UNCHANGED <<status, text, parent>>
           /\ \A j \in Ideas \ {i} :
                 /\ bound'[j] = bound[j] /\ chain'[j] = chain[j] /\ work'[j] = work[j]
                 /\ owed'[j] = owed[j]
BY DEF Fails, GivesUp, Unchains, ledger, TypeOK

LEMMA SuccessSparesOthers ==
    ASSUME TypeOK, NEW i \in Ideas, NEW target, NEW created, Succeeds(i, target, created)
    PROVE  /\ UNCHANGED <<status, text, parent>>
           /\ \A j \in Ideas \ {i} :
                 /\ bound'[j] = bound[j] /\ chain'[j] = chain[j] /\ work'[j] = work[j]
                 /\ owed'[j] = owed[j]
BY DEF Succeeds, Unchains, TypeOK

LEMMA NothingPosted ==
    ASSUME cards' = cards, NEW i
    PROVE  PostedOn(i)
BY DEF PostedOn, Exists

LEMMA ProbeKeeps ==
    ASSUME TypeOK, MirrorInv, NEW i \in Ideas, Probe(i)
    PROVE  MirrorInv'
<1>1. work[i].at = "probe" /\ cards' = cards /\ PostedOn(i) /\ Mirrored(i)
  BY NothingPosted DEF Probe, MirrorInv
<1>2. chain[i] # <<>>
  BY <1>1 DEF Mirrored, WorkSound
<1>3. CASE Goes(i, "fetch") /\ UNCHANGED <<chain, ledger, owed>>
  <2>1. work'[i].at = "fetch" /\ work'[i].row = work[i].row
    BY <1>3 DEF Goes, TypeOK, Works
  <2>2. WorkSound(i)'
    BY <1>1, <1>2, <1>3, <2>1 DEF Mirrored, WorkSound, ledger, Present, Behind
  <2>3. Exists(i, "legacy") => work'[i].row.bound = "legacy"
    BY <1>1, <2>1 DEF Mirrored, LegacyAlone
  <2>4. Mirrored(i)'
    BY <1>1, <1>2, <1>3, <2>2, <2>3, ProgressKeeps
  <2> QED
    BY <1>1, <1>3, <2>4, OthersSpared DEF ledger, Goes, TypeOK
<1>4. CASE Fails(i)
  <2>1. Mirrored(i)'
    BY <1>1, <1>2, <1>4, FailKeeps
  <2> QED
    BY <1>1, <1>4, <2>1, OthersSpared, FailSparesOthers
<1> QED
  BY <1>3, <1>4 DEF Probe

LEMMA FetchKeeps ==
    ASSUME TypeOK, MirrorInv, NEW i \in Ideas, Fetch(i)
    PROVE  MirrorInv'
<1> USE MirrorAssumption
<1>1. work[i].at = "fetch" /\ cards' = cards /\ PostedOn(i) /\ Mirrored(i)
  BY NothingPosted DEF Fetch, MirrorInv
<1>2. chain[i] # <<>> /\ work[i].row.bound \in Bindings
  BY <1>1 DEF Mirrored, WorkSound, TypeOK, Works, Rows
<1>3. ASSUME NEW shown \in BOOLEAN,
             IF Kind(i) = "create" /\ ~EnsureTask(i, shown).made
             THEN Succeeds(i, EnsureTask(i, shown).card, FALSE)
             ELSE /\ work' = [work EXCEPT ![i].target = EnsureTask(i, shown).card,
                         ![i].at = IF EnsureTask(i, shown).made THEN "create" ELSE "verb"]
                  /\ UNCHANGED <<chain, ledger, owed>>
      PROVE  MirrorInv'
  <2> DEFINE k == work[i].row.bound
             ensured == EnsureTask(i, shown)
             kept == k # None /\ (shown => Exists(i, k))
  <2>1. /\ ensured.card = IF kept THEN k ELSE "own"
        /\ ensured.made <=> ~kept /\ ~(shown /\ Exists(i, "own"))
        /\ ensured.card \in CardIds
    BY <1>2 DEF EnsureTask, Ensured, Bindings, CardIds
  <2>2. /\ ~ensured.made => ensured.card = k \/ Exists(i, ensured.card)
        /\ ensured.made => ensured.card = "own" /\ ~Exists(i, "legacy")
        /\ ensured.card # None
    BY <1>1, <2>1 DEF Mirrored, LegacyAlone, Exists, CardIds
  <2> HIDE DEF ensured, kept
  <2>3. CASE Kind(i) = "create" /\ ~ensured.made
    <3>1. Succeeds(i, ensured.card, FALSE)
      BY <1>3, <2>3 DEF ensured
    <3>2. Mirrored(i)'
      BY <1>1, <2>1, <2>2, <2>3, <3>1, SuccessKeeps
    <3> QED
      BY <1>1, <3>1, <3>2, OthersSpared, SuccessSparesOthers
  <2>4. CASE ~(Kind(i) = "create" /\ ~ensured.made)
    <3>1. /\ work' = [work EXCEPT ![i].target = ensured.card,
                         ![i].at = IF ensured.made THEN "create" ELSE "verb"]
          /\ UNCHANGED <<chain, ledger, owed>>
      BY <1>3, <2>4 DEF ensured
    <3>2. /\ work'[i].target = ensured.card /\ work'[i].row = work[i].row
          /\ work'[i].at = IF ensured.made THEN "create" ELSE "verb"
          /\ \A j \in Ideas \ {i} : work'[j] = work[j]
      BY <3>1 DEF TypeOK, Works
    <3>3. UNCHANGED <<status, text, bound, parent>>
      BY <3>1 DEF ledger
    <3>4. WorkSound(i)'
      BY <1>1, <1>2, <2>2, <2>4, <3>1, <3>2, <3>3
         DEF Mirrored, WorkSound, Present, Behind, Kind, Exists
    <3>5. Exists(i, "legacy") => work'[i].row.bound = "legacy"
      BY <1>1, <3>2 DEF Mirrored, LegacyAlone
    <3>6. Mirrored(i)'
      BY <1>1, <1>2, <3>1, <3>4, <3>5, ProgressKeeps
    <3> QED
      BY <1>1, <3>1, <3>2, <3>3, <3>6, OthersSpared
  <2> QED
    BY <2>3, <2>4
<1>4. CASE Fails(i)
  <2>1. Mirrored(i)'
    BY <1>1, <1>2, <1>4, FailKeeps
  <2> QED
    BY <1>1, <1>4, <2>1, OthersSpared, FailSparesOthers
<1> QED
  BY <1>3, <1>4 DEF Fetch

\* What a post that is accepted makes of the cards.
LEMMA PostMakes ==
    ASSUME TypeOK, NEW i \in Ideas, Mirrored(i), work[i].at \in {"create", "move", "verb"},
           NEW post, post = IF work[i].at = "verb" THEN Kind(i) ELSE work[i].at,
           Accepts(i, post, work[i].target), cards' = Posted(i, post, work[i].target)
    PROVE  /\ PostedOn(i)
           /\ work[i].target \in CardIds
           /\ work[i].at # "create" => Exists(i, work[i].target)
           /\ work[i].at = "create" => cards'[i]["own"].text = work[i].row.text
           /\ work[i].at = "move" => cards' = cards
           /\ work[i].at = "verb" =>
                 /\ Kind(i) = "update" => cards'[i][work[i].target].text = work[i].row.text
                 /\ Kind(i) = "archive" => cards'[i][work[i].target].column = "archived"
                 /\ Kind(i) = "restore" => cards'[i][work[i].target].column = "live"
<1> USE MirrorAssumption
<1> DEFINE k == work[i].target
<1>1. k \in Bindings /\ cards \in [Ideas -> [CardIds -> Cards]]
  BY DEF TypeOK, Works
<1>2. k # None => k \in CardIds
  BY <1>1 DEF Bindings
<1>3. Kind(i) \in Kinds /\ (work[i].at = "verb" => Kind(i) # "create" /\ k # None)
  <2>1. chain[i] \in Seq(Ops) /\ chain[i] # <<>>
    BY DEF Mirrored, WorkSound, TypeOK
  <2>2. Head(chain[i]) \in Ops
    BY <2>1
  <2> QED
    BY <2>2 DEF Kind, Ops, Mirrored, WorkSound
<1> HIDE DEF k
<1>4. CASE work[i].at = "create"
  <2>1. post = "create" /\ k = "own" /\ ~Exists(i, "own") /\ ~Exists(i, "legacy")
    BY <1>4 DEF Mirrored, WorkSound, Accepts, k
  <2>2. cards'[i] = [cards[i] EXCEPT !["own"] =
                        [column |-> "live", text |-> work[i].row.text]]
    BY <1>1, <2>1 DEF Posted, k
  <2>3. /\ cards'[i]["own"] = [column |-> "live", text |-> work[i].row.text]
        /\ cards'[i]["legacy"] = cards[i]["legacy"]
    BY <1>1, <2>2 DEF CardIds
  <2> QED
    BY <1>4, <2>1, <2>3 DEF PostedOn, Exists, CardIds, k
<1>5. CASE work[i].at = "move"
  <2>1. post = "move" /\ Exists(i, k) /\ k = "own"
    BY <1>5 DEF Accepts, k, Mirrored, WorkSound
  <2>2. cards' = cards
    BY <1>1, <2>1 DEF Posted, CardIds, k
  <2> QED
    BY <1>5, <2>1, <2>2, NothingPosted DEF CardIds, k
<1>6. CASE work[i].at = "verb"
  <2>1. /\ post = Kind(i) /\ post \in {"update", "archive", "restore"}
        /\ Accepts(i, post, k)
    BY <1>3, <1>6 DEF Kinds, k
  <2>2. Exists(i, k) \/ (post = "update" /\ cards[i][k].column = "live")
    BY <2>1 DEF Accepts
  <2>3. k \in CardIds /\ Exists(i, k)
    BY <1>2, <1>3, <1>6, <2>2 DEF Exists
  <2> QED
    BY <1>1, <1>3, <1>6, <2>1, <2>3 DEF Posted, PostedOn, Exists, Cards, k
<1> QED
  BY <1>4, <1>5, <1>6


LEMMA PostKeeps ==
    ASSUME TypeOK, MirrorInv, NEW i \in Ideas, Post(i)
    PROVE  MirrorInv'
<1> USE MirrorAssumption
<1> DEFINE at == work[i].at
           k == work[i].target
           post == IF at = "verb" THEN Kind(i) ELSE at
<1>1. Mirrored(i) /\ at \in {"create", "move", "verb"} /\ chain[i] # <<>>
  BY DEF Post, MirrorInv, Mirrored, WorkSound
<1>2. \A j \in Ideas \ {i} : cards' = cards \/ cards' = Posted(i, post, k) => cards'[j] = cards[j]
  BY DEF Posted, TypeOK
<1>3. ASSUME Accepts(i, post, k), cards' = Posted(i, post, k)
      PROVE  /\ PostedOn(i) /\ k \in CardIds
             /\ at # "create" => Exists(i, k)
             /\ at = "create" => cards'[i]["own"].text = work[i].row.text
             /\ at = "move" => cards' = cards
             /\ at = "verb" =>
                   /\ Kind(i) = "update" => cards'[i][k].text = work[i].row.text
                   /\ Kind(i) = "archive" => cards'[i][k].column = "archived"
                   /\ Kind(i) = "restore" => cards'[i][k].column = "live"
  BY <1>1, <1>3, PostMakes
<1>4. ASSUME Accepts(i, post, k), cards' = Posted(i, post, k),
             NEW next, (at = "create" /\ next = "move") \/ (at = "move" /\ next = "verb"
                                                          /\ Kind(i) # "create"),
             Goes(i, next), UNCHANGED <<chain, ledger, owed>>
      PROVE  MirrorInv'
  <2>1. /\ work'[i].at = next /\ work'[i].row = work[i].row /\ work'[i].target = k
        /\ \A j \in Ideas \ {i} : work'[j] = work[j]
        /\ UNCHANGED <<status, text, bound, parent>>
    BY <1>4 DEF Goes, TypeOK, Works, ledger
  <2>2. at # "idle" /\ at # "verb" /\ k = "own" /\ ~Exists(i, "legacy")
    BY <1>1, <1>4 DEF Mirrored, WorkSound
  <2>3. ~Exists(i, "legacy")'
    BY <1>3, <1>4, <2>2 DEF PostedOn, CardIds
  <2>4. /\ Present(i)' <=> Present(i)
        /\ Behind(i, "update")' <=> Behind(i, "update")
        /\ Kind(i)' = Kind(i)
    BY <1>4, <2>1 DEF Present, Behind, Kind
  <2>5. next = "move" => cards'[i]["own"].text = work[i].row.text
    BY <1>3, <1>4
  <2>6. WorkSound(i)
    BY <1>1 DEF Mirrored
  <2>7. WorkSound(i)'
    <3>1. /\ chain'[i] # <<>>
          /\ Present(i) => /\ work[i].row.bound = bound[i]
                           /\ work[i].row.text = text[i] \/ Behind(i, "update")
      BY <1>1, <1>4, <2>2, <2>6 DEF WorkSound
    <3>2. CASE next = "move"
      BY <2>1, <2>2, <2>3, <2>4, <2>5, <3>1, <3>2 DEF WorkSound
    <3>3. CASE next = "verb" /\ Kind(i) # "create"
      BY <2>1, <2>2, <2>4, <3>1, <3>3 DEF WorkSound, CardIds
    <3> QED
      BY <1>4, <3>2, <3>3
  <2>8. PostedOn(i)
    BY <1>3, <1>4
  <2>9. Mirrored(i)'
    BY <1>1, <1>4, <2>2, <2>7, <2>8, ProgressKeeps
  <2> QED
    BY <1>2, <1>4, <2>1, <2>9, OthersSpared
<1>5. ASSUME Accepts(i, post, k), cards' = Posted(i, post, k),
             at = "verb" \/ (at = "move" /\ Kind(i) = "create"),
             Succeeds(i, k, at = "move")
      PROVE  MirrorInv'
  <2>1. work[i].at # "idle" /\ work[i].at # "create" /\ (at = "move" => k = "own")
    BY <1>1, <1>5 DEF Mirrored, WorkSound
  <2>2. Mirrored(i)'
    BY <1>1, <1>3, <1>5, <2>1, SuccessKeeps
  <2> QED
    BY <1>2, <1>5, <2>2, OthersSpared, SuccessSparesOthers
<1>6. ASSUME Fails(i), cards' = cards \/ (Accepts(i, post, k) /\ cards' = Posted(i, post, k))
      PROVE  MirrorInv'
  <2>1. PostedOn(i)
    BY <1>3, <1>6, NothingPosted
  <2>2. Mirrored(i)'
    BY <1>1, <1>6, <2>1, FailKeeps
  <2> QED
    BY <1>2, <1>6, <2>2, OthersSpared, FailSparesOthers
<1> QED
  <2>1. \/ /\ Accepts(i, post, k) /\ cards' = Posted(i, post, k)
           /\ \/ at = "create" /\ Goes(i, "move") /\ UNCHANGED <<chain, ledger, owed>>
              \/ /\ at = "move" /\ Kind(i) # "create"
                 /\ Goes(i, "verb") /\ UNCHANGED <<chain, ledger, owed>>
              \/ /\ at = "verb" \/ (at = "move" /\ Kind(i) = "create")
                 /\ Succeeds(i, k, at = "move")
        \/ /\ Fails(i)
           /\ cards' = cards \/ (Accepts(i, post, k) /\ cards' = Posted(i, post, k))
    BY <1>1 DEF Post
  <2> HIDE DEF at, k, post
  <2> QED
    BY <1>4, <1>5, <1>6, <2>1

----------------------------------------------------------------------------
(* The verbs.                                                              *)

Appends(i, kind) ==
    chain'[i] = Append(chain[i], [kind |-> kind, captured |-> RowAfter(i)])

\* A verb that queues an operation for an idea.
LEMMA QueueKeeps ==
    ASSUME TypeOK, NEW i \in Ideas, Mirrored(i), Present(i), NEW kind \in Kinds,
           Appends(i, kind),
           bound'[i] = bound[i], work'[i] = work[i], cards'[i] = cards[i],
           owed'[i] = owed[i],
           kind = "update" \/ text'[i] = text[i],
           \/ kind = "archive" /\ status'[i] = "archived"
           \/ kind = "restore" /\ status'[i] = "open"
           \/ kind \in {"create", "update"} /\ status'[i] \in {status[i], "reworked"}
    PROVE  Mirrored(i)'
<1> DEFINE op == [kind |-> kind, captured |-> RowAfter(i)]
<1>1. /\ DOMAIN chain[i] \subseteq DOMAIN chain'[i]
      /\ \A n \in DOMAIN chain[i] : chain'[i][n] = chain[i][n]
      /\ \E last \in DOMAIN chain'[i] :
            /\ DOMAIN chain'[i] = DOMAIN chain[i] \cup {last}
            /\ chain'[i][last] = op
            /\ \A n \in DOMAIN chain[i] : last > n
      /\ chain'[i] # <<>>
      /\ chain[i] # <<>> => Kind(i)' = Kind(i) /\ \E last \in DOMAIN chain'[i] :
            last > 1 /\ chain'[i][last] = op
  BY LongerChain DEF Appends
<1>2. op.kind = kind /\ op.captured.bound = bound[i]
  BY DEF RowAfter
<1> HIDE DEF op
<1>3. /\ Queued(i, kind)' /\ (chain[i] # <<>> => Behind(i, kind)')
      /\ \A other : Queued(i, other) => Queued(i, other)'
      /\ \A other : Behind(i, other) => Behind(i, other)'
      /\ \A k \in CardIds : Exists(i, k)' <=> Exists(i, k)
      /\ Present(i)'
  BY <1>1, <1>2 DEF Queued, Behind, Exists, Present
<1>4. UnbornIsBlank(i)'
  BY <1>3 DEF UnbornIsBlank, Present
<1>5. WorkSound(i)'
  BY <1>1, <1>3 DEF Mirrored, WorkSound, CardIds
<1>6. LegacyAlone(i)'
  <2>1. \A n \in DOMAIN chain'[i] : n \in DOMAIN chain[i] \/ chain'[i][n] = op
    BY <1>1
  <2> QED
    BY <1>1, <1>2, <1>3, <2>1 DEF Mirrored, LegacyAlone, CardIds
<1>7. CardToCome(i)'
  BY <1>3 DEF Mirrored, CardToCome
<1>8. TextToCome(i)'
  BY <1>3 DEF Mirrored, TextToCome
<1>9. ASSUME NEW one, NEW other, one # other,
             kind = other \/ (kind # one /\ Followed(i, one, other))
      PROVE  Followed(i, one, other)'
  <2>1. SUFFICES ASSUME NEW n \in DOMAIN chain'[i], chain'[i][n].kind = one
                 PROVE  \E m \in DOMAIN chain'[i] : m > n /\ chain'[i][m].kind = other
    BY DEF Followed
  <2>2. CASE kind = other
    <3>1. PICK last \in DOMAIN chain'[i] :
             /\ DOMAIN chain'[i] = DOMAIN chain[i] \cup {last}
             /\ chain'[i][last] = op
             /\ \A m \in DOMAIN chain[i] : last > m
      BY <1>1
    <3>2. chain'[i][last].kind = other
      BY <1>2, <2>2, <3>1
    <3>3. n \in DOMAIN chain[i]
      BY <1>9, <2>1, <3>1, <3>2
    <3> QED
      BY <3>1, <3>2, <3>3
  <2>3. CASE kind # one /\ Followed(i, one, other)
    <3>1. n \in DOMAIN chain[i] /\ chain[i][n].kind = one
      BY <1>1, <1>2, <2>1, <2>3
    <3> QED
      BY <1>1, <2>3, <3>1 DEF Followed
  <2> QED
    BY <1>9, <2>2, <2>3
<1>10. MovesInOrder(i)'
  BY <1>9 DEF Mirrored, MovesInOrder
<1>11. ColumnToCome(i)'
  BY <1>3 DEF Mirrored, ColumnToCome, Present
<1>12. ArchivedIsBound(i)'
  BY <1>3 DEF Mirrored, ArchivedIsBound
<1> QED
  BY <1>4, <1>5, <1>6, <1>7, <1>8, <1>10, <1>11, <1>12 DEF Mirrored


\* A verb that queues nothing for an idea leaves it where it is, or where its
\* card may stay as it is.
LEMMA MoveKeeps ==
    ASSUME NEW i \in Ideas, Mirrored(i), Present(i),
           bound'[i] = bound[i], work'[i] = work[i], cards'[i] = cards[i],
           owed'[i] = owed[i], chain'[i] = chain[i], text'[i] = text[i],
           status'[i] \in {"underReview", "reworked", "deleted"}
    PROVE  Mirrored(i)'
<1>1. /\ \A kind : Queued(i, kind)' <=> Queued(i, kind)
      /\ \A kind : Behind(i, kind)' <=> Behind(i, kind)
      /\ \A k : Exists(i, k)' <=> Exists(i, k)
      /\ chain[i] # <<>> => Kind(i)' = Kind(i)
      /\ status'[i] \notin {"unborn", "open", "archived"}
  BY DEF Queued, Behind, Exists, Kind
<1>2. UnbornIsBlank(i)' /\ MovesInOrder(i)' /\ ColumnToCome(i)'
  BY <1>1 DEF UnbornIsBlank, MovesInOrder, ColumnToCome
<1>3. WorkSound(i)'
  BY <1>1 DEF Mirrored, WorkSound
<1>4. LegacyAlone(i)'
  BY <1>1 DEF Mirrored, LegacyAlone
<1>5. CardToCome(i)' /\ TextToCome(i)' /\ ArchivedIsBound(i)'
  BY <1>1 DEF Mirrored, CardToCome, TextToCome, ArchivedIsBound
<1> QED
  BY <1>2, <1>3, <1>4, <1>5 DEF Mirrored

\* An idea is born: its card is queued for, or owed.
LEMMA BirthKeeps ==
    ASSUME TypeOK, NEW i \in Ideas, Mirrored(i), status[i] = "unborn", status'[i] = "open",
           bound'[i] = bound[i], work'[i] = work[i], cards'[i] = cards[i],
           Appends(i, "create") \/ (chain'[i] = chain[i] /\ owed'[i] = {"card"})
    PROVE  Mirrored(i)'
<1>1. chain[i] = <<>> /\ bound[i] = None /\ \A k \in CardIds : ~Exists(i, k)
  BY DEF Mirrored, UnbornIsBlank
<1>2. work'[i].at = "idle"
  BY <1>1 DEF Mirrored, WorkSound
<1>3. \A k \in CardIds : ~Exists(i, k)'
  BY <1>1 DEF Exists
<1>4. /\ "card" \in owed'[i] \/ Queued(i, "create")'
      /\ \A n \in DOMAIN chain'[i] : chain'[i][n].kind = "create"
  <2>1. CASE Appends(i, "create")
    <3>1. /\ chain'[i] = <<[kind |-> "create", captured |-> RowAfter(i)]>>
      BY <1>1, <2>1 DEF Appends
    <3> QED
      BY <3>1 DEF Queued
  <2>2. CASE chain'[i] = chain[i] /\ owed'[i] = {"card"}
    BY <1>1, <2>2
  <2> QED
    BY <2>1, <2>2
<1>5. UnbornIsBlank(i)' /\ WorkSound(i)' /\ MovesInOrder(i)'
  BY <1>2, <1>4 DEF UnbornIsBlank, WorkSound, MovesInOrder, Followed
<1>6. LegacyAlone(i)' /\ CardToCome(i)' /\ TextToCome(i)'
  BY <1>1, <1>3, <1>4 DEF LegacyAlone, CardToCome, TextToCome, CardIds
<1>7. ColumnToCome(i)' /\ ArchivedIsBound(i)'
  BY <1>3 DEF ColumnToCome, ArchivedIsBound
<1> QED
  BY <1>5, <1>6, <1>7 DEF Mirrored

\* What each verb queues.
LEMMA QueuesFor ==
    ASSUME TypeOK, NEW kindOf, Queues(kindOf), NEW i \in Ideas
    PROVE  /\ i \in DOMAIN kindOf => Appends(i, kindOf[i])
           /\ i \notin DOMAIN kindOf => chain'[i] = chain[i]
BY DEF Queues, Appends

LEMMA VerbsKeep ==
    ASSUME TypeOK, MirrorInv,
           \E i \in Ideas : \/ Create(i) \/ Update(i) \/ Delete(i)
                            \/ \E to \in {"open", "underReview", "archived"} : Move(i, to)
                            \/ \E j \in Ideas : FollowUp(i, j) \/ Merge(i, j)
    PROVE  MirrorInv'
<1> USE MirrorAssumption
<1>0. \A i \in Ideas : Mirrored(i)
  BY DEF MirrorInv
<1>s. ASSUME UNCHANGED <<bound, work, cards>>, NEW i \in Ideas,
             status'[i] = status[i], text'[i] = text[i], owed'[i] = owed[i],
             chain'[i] = chain[i], parent'[i] = parent[i] \/ status[i] # "unborn"
      PROVE  Mirrored(i)'
  BY <1>0, <1>s, SparedKeeps
<1>e. DOMAIN <<>> = {}
  OBVIOUS
<1>1. ASSUME NEW i \in Ideas, Create(i) PROVE MirrorInv'
  <2>1. /\ UNCHANGED <<bound, work, cards, text, parent, owed>>
        /\ status[i] = "unborn" /\ status'[i] = "open"
        /\ \A j \in Ideas \ {i} : status'[j] = status[j]
        /\ Queues([j \in {i} |-> "create"])
    BY <1>1 DEF Create, Verb, TypeOK
  <2>2. Appends(i, "create") /\ \A j \in Ideas \ {i} : chain'[j] = chain[j]
    BY <2>1, QueuesFor
  <2>3. Mirrored(i)'
    BY <1>0, <2>1, <2>2, BirthKeeps
  <2> QED
    BY <1>s, <2>1, <2>2, <2>3 DEF MirrorInv
<1>2. ASSUME NEW i \in Ideas, Update(i) PROVE MirrorInv'
  <2>1. /\ UNCHANGED <<bound, work, cards, status, parent, owed>>
        /\ Present(i)
        /\ \A j \in Ideas \ {i} : text'[j] = text[j]
        /\ Queues([j \in {i} |-> "update"])
    BY <1>2 DEF Update, Verb, TypeOK
  <2>2. Appends(i, "update") /\ \A j \in Ideas \ {i} : chain'[j] = chain[j]
    BY <2>1, QueuesFor
  <2>3. Mirrored(i)'
    BY <1>0, <2>1, <2>2, QueueKeeps DEF Kinds
  <2> QED
    BY <1>s, <2>1, <2>2, <2>3 DEF MirrorInv
<1>3. ASSUME NEW i \in Ideas, NEW to \in {"open", "underReview", "archived"}, Move(i, to)
      PROVE  MirrorInv'
  <2>1. /\ UNCHANGED <<bound, work, cards, text, parent, owed>>
        /\ Present(i) /\ status'[i] = to
        /\ \A j \in Ideas \ {i} : status'[j] = status[j]
        /\ Queues(IF KindOfMove(to) = None THEN <<>> ELSE [j \in {i} |-> KindOfMove(to)])
    BY <1>3 DEF Move, Verb, TypeOK
  <2>2. CASE to = "underReview"
    <3>1. KindOfMove(to) = None
      BY <2>2 DEF KindOfMove
    <3>2. \A j \in Ideas : chain'[j] = chain[j]
      BY <1>e, <2>1, <3>1, QueuesFor
    <3>3. Mirrored(i)'
      BY <1>0, <2>1, <2>2, <3>2, MoveKeeps
    <3> QED
      BY <1>s, <2>1, <3>2, <3>3 DEF MirrorInv
  <2>3. CASE to # "underReview"
    <3>1. /\ KindOfMove(to) \in Kinds /\ KindOfMove(to) # None
          /\ KindOfMove(to) = IF to = "archived" THEN "archive" ELSE "restore"
      BY <2>3 DEF KindOfMove, Kinds
    <3>2. Queues([j \in {i} |-> KindOfMove(to)])
      BY <2>1, <3>1
    <3>3. Appends(i, KindOfMove(to)) /\ \A j \in Ideas \ {i} : chain'[j] = chain[j]
      BY <3>2, QueuesFor
    <3>4. Mirrored(i)'
      BY <1>0, <2>1, <2>3, <3>1, <3>3, QueueKeeps
    <3> QED
      BY <1>s, <2>1, <3>3, <3>4 DEF MirrorInv
  <2> QED
    BY <2>2, <2>3
<1>4. ASSUME NEW i \in Ideas, Delete(i) PROVE MirrorInv'
  <2>1. /\ UNCHANGED <<bound, work, cards, text, parent, owed>>
        /\ Present(i) /\ status'[i] = "deleted"
        /\ \A j \in Ideas \ {i} : status'[j] = status[j]
        /\ Queues(<<>>)
    BY <1>4 DEF Delete, Verb, TypeOK
  <2>2. \A j \in Ideas : chain'[j] = chain[j]
    BY <1>e, <2>1, QueuesFor
  <2>3. Mirrored(i)'
    BY <1>0, <2>1, <2>2, MoveKeeps
  <2> QED
    BY <1>s, <2>1, <2>2, <2>3 DEF MirrorInv
<1>5. ASSUME NEW i \in Ideas, NEW child \in Ideas, FollowUp(i, child) PROVE MirrorInv'
  <2>1. /\ UNCHANGED <<bound, work, cards, text>>
        /\ status[i] = "underReview" /\ status'[i] = "reworked"
        /\ status[child] = "unborn" /\ status'[child] = "open" /\ i # child
        /\ \A j \in Ideas \ {i, child} : status'[j] = status[j]
        /\ \A j \in Ideas \ {child} : parent'[j] = parent[j]
    BY <1>5 DEF FollowUp, Verb, TypeOK
  <2>2. PICK first \in Ideas :
           /\ parent'[first] = i /\ status'[first] # "deleted"
           /\ Queues([j \in {first} |-> "create"])
           /\ owed' = [owed EXCEPT ![child] = IF first = child THEN @ ELSE {"card"}]
    BY <1>5 DEF FollowUp
  <2>3. Appends(first, "create") /\ \A j \in Ideas \ {first} : chain'[j] = chain[j]
    BY <2>2, QueuesFor
  <2>4. /\ \A j \in Ideas \ {child} : owed'[j] = owed[j]
        /\ first # child => owed'[child] = {"card"}
    BY <2>2 DEF TypeOK
  <2>5. Mirrored(child)'
    BY <1>0, <2>1, <2>3, <2>4, BirthKeeps
  <2>6. first # child => Present(first) /\ status'[first] \in {status[first], "reworked"}
    <3>1. SUFFICES ASSUME first # child
                   PROVE  Present(first) /\ status'[first] \in {status[first], "reworked"}
      OBVIOUS
    <3>2. status[first] # "unborn"
      BY <1>0, <2>1, <2>2, <3>1 DEF Mirrored, UnbornIsBlank
    <3>3. status[first] # "deleted" /\ status'[first] \in {status[first], "reworked"}
      BY <2>1, <2>2, <3>1
    <3> QED
      BY <3>2, <3>3 DEF Present, TypeOK
  <2>7. first # child => Mirrored(first)'
    BY <1>0, <2>1, <2>3, <2>4, <2>6, QueueKeeps DEF Kinds
  <2>8. first # i => Mirrored(i)'
    BY <1>0, <2>1, <2>3, <2>4, MoveKeeps DEF Present
  <2>9. \A j \in Ideas \ {i, child, first} : Mirrored(j)'
    BY <1>s, <2>1, <2>3, <2>4
  <2> QED
    BY <2>1, <2>5, <2>7, <2>8, <2>9 DEF MirrorInv
<1>6. ASSUME NEW loser \in Ideas, NEW survivor \in Ideas, Merge(loser, survivor)
      PROVE  MirrorInv'
  <2>1. /\ UNCHANGED <<bound, work, cards, owed>>
        /\ loser # survivor /\ Present(loser) /\ Present(survivor)
        /\ status'[loser] = "archived"
        /\ \A j \in Ideas \ {loser} : status'[j] = status[j]
        /\ \A j \in Ideas \ {survivor} : text'[j] = text[j]
        /\ Queues([j \in {loser, survivor} |-> IF j = loser THEN "archive" ELSE "update"])
    BY <1>6 DEF Merge, Verb, TypeOK
  <2>2. \A j \in Ideas : status[j] = "unborn" => parent'[j] = parent[j]
    <3>1. SUFFICES ASSUME NEW j \in Ideas, status[j] = "unborn" PROVE parent'[j] = parent[j]
      OBVIOUS
    <3>2. j # survivor /\ parent[j] = None
      BY <1>0, <2>1, <3>1 DEF Mirrored, UnbornIsBlank, Present
    <3>3. parent'[j] = CASE j = survivor /\ parent[j] = None /\ parent[loser] # survivor
                              -> parent[loser]
                         [] j # survivor /\ parent[j] = loser -> survivor
                         [] OTHER -> parent[j]
      BY <1>6 DEF Merge
    <3> QED
      BY <3>2, <3>3
  <2>3. /\ Appends(loser, "archive") /\ Appends(survivor, "update")
        /\ \A j \in Ideas \ {loser, survivor} : chain'[j] = chain[j]
    BY <2>1, QueuesFor
  <2>4. Mirrored(loser)' /\ Mirrored(survivor)'
    BY <1>0, <2>1, <2>3, QueueKeeps DEF Kinds
  <2>5. \A j \in Ideas \ {loser, survivor} : Mirrored(j)'
    BY <1>s, <2>1, <2>2, <2>3
  <2> QED
    BY <2>4, <2>5 DEF MirrorInv
<1> QED
  BY <1>1, <1>2, <1>3, <1>4, <1>5, <1>6


----------------------------------------------------------------------------
(* The board, the human and the end of the process.                        *)

LEMMA HandKeeps ==
    ASSUME TypeOK, MirrorInv, NEW i \in Ideas, NEW k \in CardIds, Hand(i, k)
    PROVE  MirrorInv'
<1>1. UNCHANGED <<status, text, bound, parent, chain, work>> /\ Mirrored(i)
  BY DEF Hand, ledger, host, MirrorInv
<1>2. /\ "column" \in owed'[i]
      /\ \/ {"card", "text"} \subseteq owed'[i]
         \/ owed'[i] = owed[i] \cup {"column"} /\ \A o \in CardIds : Exists(i, o) => Exists(i, o)'
      /\ \A o \in CardIds : Exists(i, o)' =>
            Exists(i, o) /\ cards'[i][o].text = cards[i][o].text
      /\ \A j \in Ideas \ {i} : owed'[j] = owed[j] /\ cards'[j] = cards[j]
  <2>1. CASE /\ cards' = [cards EXCEPT ![i][k] = NoCard]
             /\ owed' = [owed EXCEPT ![i] = {"card", "text", "column"}]
    BY <2>1 DEF NoCard, Exists, TypeOK
  <2>2. CASE /\ cards' = [cards EXCEPT ![i][k].column =
                             IF @ = "live" THEN "archived" ELSE "live"]
             /\ owed' = [owed EXCEPT ![i] = @ \cup {"column"}]
    <3>1. cards'[i] = [cards[i] EXCEPT ![k].column = IF @ = "live" THEN "archived" ELSE "live"]
      BY <2>2 DEF TypeOK
    <3>2. \A o \in CardIds : /\ cards'[i][o].text = cards[i][o].text
                             /\ o # k => cards'[i][o] = cards[i][o]
      BY <3>1 DEF TypeOK, Cards
    <3>3. cards'[i][k].column # "none"
      BY <3>1 DEF TypeOK, Cards
    <3>4. Exists(i, k)
      BY DEF Hand
    <3> QED
      BY <2>2, <3>2, <3>3, <3>4 DEF Exists, TypeOK
  <2> QED
    BY <2>1, <2>2 DEF Hand
<1>3. /\ Present(i)' <=> Present(i)
      /\ \A kind : Queued(i, kind)' <=> Queued(i, kind)
      /\ \A kind : Behind(i, kind)' <=> Behind(i, kind)
      /\ Kind(i)' = Kind(i)
  BY <1>1 DEF Present, Queued, Behind, Kind
<1>4. UnbornIsBlank(i)' /\ MovesInOrder(i)'
  BY <1>1, <1>2 DEF Mirrored, UnbornIsBlank, MovesInOrder, Followed
<1>5. WorkSound(i)'
  BY <1>1, <1>2, <1>3 DEF Mirrored, WorkSound, CardIds
<1>6. LegacyAlone(i)'
  BY <1>1, <1>2 DEF Mirrored, LegacyAlone, CardIds
<1>7. CardToCome(i)' /\ TextToCome(i)'
  BY <1>1, <1>2, <1>3 DEF Mirrored, CardToCome, TextToCome
<1>8. ColumnToCome(i)' /\ ArchivedIsBound(i)'
  BY <1>2 DEF ColumnToCome, ArchivedIsBound
<1>9. Mirrored(i)'
  BY <1>4, <1>5, <1>6, <1>7, <1>8 DEF Mirrored
<1> QED
  BY <1>1, <1>2, <1>9, OthersSpared

LEMMA CrashKeeps ==
    ASSUME TypeOK, MirrorInv, Crash
    PROVE  MirrorInv'
<1> SUFFICES ASSUME NEW i \in Ideas PROVE Mirrored(i)'
  BY DEF MirrorInv
<1>1. /\ UNCHANGED <<status, text, bound, parent, cards>> /\ Mirrored(i)
      /\ chain'[i] = <<>> /\ work'[i].at = "idle"
      /\ owed'[i] = owed[i] \cup UNION {Undone(chain[i][n].kind) : n \in DOMAIN chain[i]}
  BY DEF Crash, ledger, MirrorInv, Idle
<1>2. /\ Present(i)' <=> Present(i)
      /\ \A k \in CardIds : Exists(i, k)' <=> Exists(i, k)
  BY <1>1 DEF Present, Exists
<1>3. /\ owed[i] \subseteq owed'[i]
      /\ \A kind : Queued(i, kind) => Undone(kind) \subseteq owed'[i]
  BY <1>1 DEF Queued
<1>4. UnbornIsBlank(i)' /\ WorkSound(i)' /\ MovesInOrder(i)'
  BY <1>1, <1>2 DEF Mirrored, UnbornIsBlank, WorkSound, MovesInOrder, Followed
<1>5. LegacyAlone(i)'
  BY <1>1, <1>2 DEF Mirrored, LegacyAlone, CardIds
<1>6. CardToCome(i)'
  BY <1>1, <1>2, <1>3 DEF Mirrored, CardToCome, Undone
<1>7. TextToCome(i)'
  BY <1>1, <1>2, <1>3 DEF Mirrored, TextToCome, Undone
<1>8. ColumnToCome(i)'
  BY <1>1, <1>2, <1>3 DEF Mirrored, ColumnToCome, Undone
<1>9. ArchivedIsBound(i)'
  BY <1>1, <1>2, <1>3 DEF Mirrored, ArchivedIsBound
<1> QED
  BY <1>4, <1>5, <1>6, <1>7, <1>8, <1>9 DEF Mirrored

LEMMA MirrorStep == TypeOK /\ MirrorInv /\ [Next]_vars => MirrorInv'
<1> SUFFICES ASSUME TypeOK, MirrorInv, [Next]_vars PROVE MirrorInv'
  OBVIOUS
<1>1. CASE UNCHANGED <<ledger, chain, work, cards, owed>>
  BY <1>1, SparedKeeps DEF MirrorInv, ledger
<1> QED
  BY <1>1, VerbsKeep, BeginKeeps, ProbeKeeps, FetchKeeps, PostKeeps, HandKeeps, CrashKeeps
     DEF Next, ProbeElsewhere, ProbeDue, vars, host

LEMMA MirrorInit == Init => MirrorInv
<1> SUFFICES ASSUME Init, NEW i \in Ideas PROVE Mirrored(i)
  BY DEF MirrorInv
<1>1. PICK old \in SUBSET OldIdeas :
         /\ status = [j \in Ideas |-> IF j \in old THEN "open" ELSE "unborn"]
         /\ bound = [j \in Ideas |-> IF j \in old THEN "legacy" ELSE None]
         /\ cards = [j \in Ideas |-> [k \in CardIds |->
               IF j \in old /\ k = "legacy" THEN [NoCard EXCEPT !.column = "live"]
                                            ELSE NoCard]]
  BY DEF Init
<1>2. /\ status[i] = IF i \in old THEN "open" ELSE "unborn"
      /\ bound[i] = IF i \in old THEN "legacy" ELSE None
      /\ cards[i]["own"] = NoCard
      /\ cards[i]["legacy"] = IF i \in old THEN [NoCard EXCEPT !.column = "live"] ELSE NoCard
      /\ chain[i] = <<>> /\ text[i] = 0 /\ parent[i] = None /\ work[i].at = "idle"
  BY <1>1 DEF Init, Idle, CardIds
<1>3. /\ ~Exists(i, "own") /\ (Exists(i, "legacy") => i \in old)
      /\ i \in old => Exists(i, "legacy")
      /\ i \in old => cards[i]["legacy"].column = "live" /\ cards[i]["legacy"].text = 0
  BY <1>2, MirrorAssumption DEF Exists, NoCard, CardIds
<1>4. UnbornIsBlank(i) /\ WorkSound(i) /\ MovesInOrder(i) /\ LegacyAlone(i)
  BY <1>2, <1>3 DEF UnbornIsBlank, WorkSound, MovesInOrder, Followed, LegacyAlone, CardIds
<1>5. CardToCome(i) /\ TextToCome(i) /\ ColumnToCome(i) /\ ArchivedIsBound(i)
  BY <1>2, <1>3 DEF CardToCome, TextToCome, ColumnToCome, ArchivedIsBound, CardIds, Present
<1> QED
  BY <1>4, <1>5 DEF Mirrored


----------------------------------------------------------------------------
(* Types.                                                                  *)

Statuses == {"unborn", "open", "underReview", "archived", "reworked", "deleted"}

\* The end of an operation keeps the types of what it changes.
LEMMA UnchainTypes ==
    ASSUME TypeOK, NEW i \in Ideas, chain[i] # <<>>, Unchains(i)
    PROVE  /\ chain' \in [Ideas -> Seq(Ops)] /\ work' \in [Ideas -> Works]
           /\ Kind(i) \in Kinds
<1>1. chain[i] \in Seq(Ops) /\ chain[i] # <<>>
  BY DEF TypeOK
<1>2. Tail(chain[i]) \in Seq(Ops) /\ Head(chain[i]) \in Ops
  BY <1>1
<1>3. Idle \in Works
  BY DEF Idle, Works, Rows, Texts, Bindings
<1> QED
  BY <1>2, <1>3 DEF Unchains, TypeOK, Kind, Ops

LEMMA FailTypes ==
    ASSUME TypeOK, NEW i \in Ideas, chain[i] # <<>>, Fails(i)
    PROVE  /\ chain' \in [Ideas -> Seq(Ops)] /\ work' \in [Ideas -> Works]
           /\ owed' \in [Ideas -> SUBSET {"card", "text", "column"}]
           /\ UNCHANGED ledger
<1>1. Unchains(i) /\ owed' = [owed EXCEPT ![i] = @ \cup Undone(Kind(i))]
  BY DEF Fails, GivesUp
<1>2. \A kind : Undone(kind) \subseteq {"card", "text", "column"}
  BY DEF Undone
<1>3. owed' \in [Ideas -> SUBSET {"card", "text", "column"}]
  BY <1>1, <1>2 DEF TypeOK
<1> QED
  BY <1>1, <1>3, UnchainTypes DEF Fails

LEMMA SuccessTypes ==
    ASSUME TypeOK, NEW i \in Ideas, chain[i] # <<>>, NEW target \in Bindings, NEW created,
           Succeeds(i, target, created)
    PROVE  /\ chain' \in [Ideas -> Seq(Ops)] /\ work' \in [Ideas -> Works]
           /\ owed' \in [Ideas -> SUBSET {"card", "text", "column"}]
           /\ bound' \in [Ideas -> Bindings]
           /\ UNCHANGED <<status, text, parent>>
<1>1. /\ Unchains(i) /\ owed' = [owed EXCEPT ![i] = @ \ Settled(i, target, created)]
      /\ bound' = [bound EXCEPT ![i] = target] \/ bound' = bound
      /\ UNCHANGED <<status, text, parent>>
  BY DEF Succeeds
<1>2. owed' \in [Ideas -> SUBSET {"card", "text", "column"}]
  BY <1>1 DEF TypeOK
<1>3. bound' \in [Ideas -> Bindings]
  BY <1>1 DEF TypeOK
<1> QED
  BY <1>1, <1>2, <1>3, UnchainTypes

LEMMA PostedTypes ==
    ASSUME TypeOK, NEW i \in Ideas, NEW post, NEW k
    PROVE  Posted(i, post, k) \in [Ideas -> [CardIds -> Cards]]
<1>1. work[i].row.text \in Texts
  BY DEF TypeOK, Works, Rows
<1>2. ASSUME k \in CardIds
      PROVE  (CASE post = "create" -> [column |-> "live", text |-> work[i].row.text]
                [] post = "update" -> [cards[i][k] EXCEPT !.text = work[i].row.text]
                [] post = "archive" -> [cards[i][k] EXCEPT !.column = "archived"]
                [] post = "restore" -> [cards[i][k] EXCEPT !.column = "live"]
                [] OTHER -> cards[i][k]) \in Cards
  <2>1. cards[i][k] \in Cards
    BY <1>2 DEF TypeOK
  <2>2. [column |-> "live", text |-> work[i].row.text] \in Cards
    BY <1>1 DEF Cards
  <2>3. [cards[i][k] EXCEPT !.text = work[i].row.text] \in Cards
    BY <1>1, <2>1 DEF Cards
  <2>4. [cards[i][k] EXCEPT !.column = "archived"] \in Cards
    BY <2>1 DEF Cards
  <2>5. [cards[i][k] EXCEPT !.column = "live"] \in Cards
    BY <2>1 DEF Cards
  <2> QED
    BY <2>1, <2>2, <2>3, <2>4, <2>5
<1>3. CASE k \in CardIds
  BY <1>2, <1>3 DEF TypeOK, Posted
<1>4. CASE k \notin CardIds
  BY <1>4 DEF TypeOK, Posted
<1> QED
  BY <1>3, <1>4

LEMMA VerbTypes ==
    ASSUME TypeOK, Verb, status' \in [Ideas -> Statuses], text' \in [Ideas -> Texts],
           parent' \in [Ideas -> Ideas \cup {None}],
           owed' \in [Ideas -> SUBSET {"card", "text", "column"}],
           NEW kindOf, Queues(kindOf), \A i \in Ideas : i \in DOMAIN kindOf => kindOf[i] \in Kinds
    PROVE  TypeOK'
<1>1. \A i \in Ideas : RowAfter(i) \in Rows
  BY DEF RowAfter, Rows, Verb, TypeOK
<1>2. chain' \in [Ideas -> Seq(Ops)]
  <2>1. ASSUME NEW i \in Ideas, i \in DOMAIN kindOf
        PROVE  Append(chain[i], [kind |-> kindOf[i], captured |-> RowAfter(i)]) \in Seq(Ops)
    <3>1. [kind |-> kindOf[i], captured |-> RowAfter(i)] \in Ops
      BY <1>1, <2>1 DEF Ops
    <3>2. chain[i] \in Seq(Ops)
      BY DEF TypeOK
    <3> QED
      BY <3>1, <3>2
  <2> QED
    BY <2>1 DEF Queues, TypeOK
<1>3. verbs' \in 0..MaxVerbs
  BY MirrorAssumption DEF Verb, TypeOK
<1> QED
  BY <1>2, <1>3 DEF Verb, TypeOK, Statuses

LEMMA TypeOKStep == TypeOK /\ MirrorInv /\ [Next]_vars => TypeOK'
<1> SUFFICES ASSUME TypeOK, MirrorInv, [Next]_vars PROVE TypeOK'
  OBVIOUS
<1> USE MirrorAssumption DEF ledger, host
<1>t. /\ status \in [Ideas -> Statuses] /\ text \in [Ideas -> Texts]
      /\ parent \in [Ideas -> Ideas \cup {None}]
      /\ owed \in [Ideas -> SUBSET {"card", "text", "column"}]
  BY DEF TypeOK, Statuses
<1>n. \A i \in Ideas : work[i].at # "idle" => chain[i] # <<>>
  BY DEF MirrorInv, Mirrored, WorkSound
<1>f. Faulty => faults' \in 0..MaxFaults
  BY DEF Faulty, TypeOK
<1>g. \A i \in Ideas, at \in {"fetch", "move", "verb"} : Goes(i, at) => work' \in [Ideas -> Works]
  <2> SUFFICES ASSUME NEW i \in Ideas, NEW at \in {"fetch", "move", "verb"}, Goes(i, at)
               PROVE  work' \in [Ideas -> Works]
    OBVIOUS
  <2>1. work \in [Ideas -> Works] /\ work[i] \in Works
    BY DEF TypeOK
  <2>2. [work[i] EXCEPT !.at = at] \in Works
    BY <2>1 DEF Works
  <2> QED
    BY <2>1, <2>2 DEF Goes
<1>1. ASSUME NEW i \in Ideas, Create(i) PROVE TypeOK'
  <2>1. status' \in [Ideas -> Statuses]
    BY <1>1, <1>t DEF Create, Statuses
  <2> QED
    BY <1>1, <1>t, <2>1, VerbTypes DEF Create, Kinds
<1>2. ASSUME NEW i \in Ideas, Update(i) PROVE TypeOK'
  <2>1. text' \in [Ideas -> Texts]
    BY <1>2, <1>t DEF Update, Texts
  <2> QED
    BY <1>2, <1>t, <2>1, VerbTypes DEF Update, Kinds
<1>3. ASSUME NEW i \in Ideas, Delete(i) PROVE TypeOK'
  <2>1. status' \in [Ideas -> Statuses]
    BY <1>3, <1>t DEF Delete, Statuses
  <2>2. DOMAIN <<>> = {}
    OBVIOUS
  <2> QED
    BY <1>3, <1>t, <2>1, <2>2, VerbTypes DEF Delete
<1>4. ASSUME NEW i \in Ideas, NEW to \in {"open", "underReview", "archived"}, Move(i, to)
      PROVE  TypeOK'
  <2>1. status' \in [Ideas -> Statuses]
    BY <1>4, <1>t DEF Move, Statuses
  <2> DEFINE kindOf == IF KindOfMove(to) = None THEN <<>> ELSE [j \in {i} |-> KindOfMove(to)]
  <2>2. \A j \in Ideas : j \in DOMAIN kindOf => kindOf[j] \in Kinds
    <3>1. CASE to = "underReview"
      <4>1. kindOf = <<>>
        BY <3>1 DEF KindOfMove
      <4> QED
        BY <4>1
    <3>2. CASE to # "underReview"
      BY <3>2 DEF KindOfMove, Kinds
    <3> QED
      BY <3>1, <3>2
  <2>3. Queues(kindOf) /\ Verb /\ UNCHANGED <<text, parent, owed>>
    BY <1>4 DEF Move
  <2> HIDE DEF kindOf
  <2> QED
    BY <1>t, <2>1, <2>2, <2>3, VerbTypes
<1>5. ASSUME NEW i \in Ideas, NEW child \in Ideas, FollowUp(i, child) PROVE TypeOK'
  <2>1. /\ status' \in [Ideas -> Statuses] /\ parent' \in [Ideas -> Ideas \cup {None}]
    BY <1>5, <1>t DEF FollowUp, Statuses
  <2>2. PICK first \in Ideas :
           /\ Queues([j \in {first} |-> "create"])
           /\ owed' = [owed EXCEPT ![child] = IF first = child THEN @ ELSE {"card"}]
    BY <1>5 DEF FollowUp
  <2>3. owed' \in [Ideas -> SUBSET {"card", "text", "column"}]
    BY <1>t, <2>2
  <2>4. Verb /\ text' = text
    BY <1>5 DEF FollowUp
  <2> QED
    BY <1>t, <2>1, <2>2, <2>3, <2>4, VerbTypes DEF Kinds
<1>6. ASSUME NEW i \in Ideas, NEW j \in Ideas, Merge(i, j) PROVE TypeOK'
  <2>1. status' \in [Ideas -> Statuses] /\ text' \in [Ideas -> Texts]
    BY <1>6, <1>t DEF Merge, Statuses, Texts
  <2>2. parent' \in [Ideas -> Ideas \cup {None}]
    BY <1>6, <1>t DEF Merge
  <2>3. /\ Queues([o \in {i, j} |-> IF o = i THEN "archive" ELSE "update"])
        /\ Verb /\ owed' = owed
    BY <1>6 DEF Merge
  <2> QED
    BY <1>t, <2>1, <2>2, <2>3, VerbTypes DEF Kinds
<1>7. ASSUME NEW i \in Ideas, Begin(i) PROVE TypeOK'
  <2>1. chain[i] # <<>> /\ UNCHANGED <<available, cards, verbs, faults, status, text, parent>>
    BY <1>7 DEF Begin, Fails
  <2>2. MirroredRow(i) \in Rows
    <3>1. chain[i] \in Seq(Ops) /\ chain[i] # <<>>
      BY <2>1 DEF TypeOK
    <3>2. Head(chain[i]) \in Ops
      BY <3>1
    <3> QED
      BY <3>2 DEF MirroredRow, Ops, Rows, TypeOK
  <2>3. \A at \in {"verb", "fetch", "probe"} :
           work' = [work EXCEPT ![i] = [at |-> at, row |-> MirroredRow(i),
                                        target |-> MirroredRow(i).bound]]
             => work' \in [Ideas -> Works]
    BY <2>2 DEF TypeOK, Works, Rows
  <2>4. lastProbe' \in {"due", "recent"}
    BY <1>7 DEF Begin, TypeOK
  <2>5. \/ \E at \in {"verb", "fetch", "probe"} :
              work' = [work EXCEPT ![i] = [at |-> at, row |-> MirroredRow(i),
                                           target |-> MirroredRow(i).bound]]
              /\ UNCHANGED <<chain, bound, owed>>
        \/ Unchains(i) /\ UNCHANGED <<bound, owed>>
        \/ Fails(i)
    BY <1>7 DEF Begin
  <2>6. /\ chain' \in [Ideas -> Seq(Ops)] /\ work' \in [Ideas -> Works]
        /\ owed' \in [Ideas -> SUBSET {"card", "text", "column"}] /\ bound' = bound
    BY <1>t, <2>1, <2>3, <2>5, FailTypes, UnchainTypes DEF TypeOK
  <2> QED
    BY <2>1, <2>4, <2>6 DEF TypeOK
<1>8. ASSUME NEW i \in Ideas, Probe(i) PROVE TypeOK'
  <2>1. chain[i] # <<>>
    BY <1>8, <1>n DEF Probe
  <2>2. CASE available' = TRUE /\ Goes(i, "fetch") /\ UNCHANGED <<chain, ledger, owed, faults>>
    BY <1>8, <1>g, <2>2 DEF Probe, TypeOK
  <2>3. CASE available' = available /\ Fails(i) /\ Faulty
    BY <1>8, <1>f, <2>1, <2>3, FailTypes DEF Probe, TypeOK
  <2> QED
    BY <1>8, <2>2, <2>3 DEF Probe
<1>9. ASSUME NEW i \in Ideas, Fetch(i) PROVE TypeOK'
  <2>1. chain[i] # <<>> /\ UNCHANGED <<available, lastProbe, cards, verbs>>
    BY <1>9, <1>n DEF Fetch
  <2>2. ASSUME NEW shown \in BOOLEAN, faults' = faults \/ Faulty,
               \/ Succeeds(i, EnsureTask(i, shown).card, FALSE)
               \/ /\ work' = [work EXCEPT ![i].target = EnsureTask(i, shown).card,
                         ![i].at = IF EnsureTask(i, shown).made THEN "create" ELSE "verb"]
                  /\ UNCHANGED <<chain, ledger, owed>>
        PROVE  TypeOK'
    <3>1. faults' \in 0..MaxFaults
      BY <1>f, <2>2 DEF TypeOK
    <3>2. EnsureTask(i, shown).card \in Bindings
      BY DEF EnsureTask, Ensured, TypeOK, Works, Rows, Bindings, CardIds
    <3>3. CASE Succeeds(i, EnsureTask(i, shown).card, FALSE)
      BY <2>1, <3>1, <3>2, <3>3, SuccessTypes DEF TypeOK
    <3>4. CASE /\ work' = [work EXCEPT ![i].target = EnsureTask(i, shown).card,
                              ![i].at = IF EnsureTask(i, shown).made THEN "create" ELSE "verb"]
               /\ UNCHANGED <<chain, ledger, owed>>
      <4>1. work \in [Ideas -> Works] /\ work[i] \in Works
        BY DEF TypeOK
      <4>2. \A at \in {"create", "verb"}, k \in Bindings :
               [work[i] EXCEPT !.target = k, !.at = at] \in Works
        BY <4>1 DEF Works
      <4> DEFINE at == IF EnsureTask(i, shown).made THEN "create" ELSE "verb"
      <4>3. at \in {"create", "verb"}
        OBVIOUS
      <4>4. work' = [work EXCEPT ![i] =
                       [work[i] EXCEPT !.target = EnsureTask(i, shown).card, !.at = at]]
        BY <3>4, <4>1
      <4> HIDE DEF at
      <4>5. work' \in [Ideas -> Works]
        BY <3>2, <4>1, <4>2, <4>3, <4>4
      <4> QED
        BY <2>1, <3>1, <3>4, <4>5 DEF TypeOK
    <3> QED
      BY <2>2, <3>3, <3>4
  <2>3. CASE Fails(i) /\ Faulty
    BY <1>f, <2>1, <2>3, FailTypes DEF TypeOK
  <2> QED
    BY <1>9, <2>2, <2>3 DEF Fetch
<1>10. ASSUME NEW i \in Ideas, Post(i) PROVE TypeOK'
  <2> DEFINE at == work[i].at
             k == work[i].target
             post == IF at = "verb" THEN Kind(i) ELSE at
  <2>1. /\ chain[i] # <<>> /\ UNCHANGED <<available, lastProbe, verbs>>
        /\ k \in Bindings
    BY <1>10, <1>n DEF Post, TypeOK, Works
  <2>2. faults' \in 0..MaxFaults
    BY <1>10, <1>f DEF Post, TypeOK
  <2>3. cards' \in [Ideas -> [CardIds -> Cards]]
    <3>1. cards' = cards \/ cards' = Posted(i, post, k)
      BY <1>10 DEF Post
    <3> QED
      BY <3>1, PostedTypes DEF TypeOK
  <2>4. \/ \E next \in {"move", "verb"} : Goes(i, next) /\ UNCHANGED <<chain, ledger, owed>>
        \/ Succeeds(i, k, at = "move")
        \/ Fails(i)
    BY <1>10 DEF Post
  <2> HIDE DEF at, k, post
  <2>5. CASE \E next \in {"move", "verb"} : Goes(i, next) /\ UNCHANGED <<chain, ledger, owed>>
    BY <1>g, <2>1, <2>2, <2>3, <2>5 DEF TypeOK
  <2>6. CASE Succeeds(i, k, at = "move")
    BY <2>1, <2>2, <2>3, <2>6, SuccessTypes DEF TypeOK
  <2>7. CASE Fails(i)
    BY <2>1, <2>2, <2>3, <2>7, FailTypes DEF TypeOK
  <2> QED
    BY <2>4, <2>5, <2>6, <2>7
<1>11. ASSUME NEW i \in Ideas, NEW k \in CardIds, Hand(i, k) PROVE TypeOK'
  <2>1. cards' \in [Ideas -> [CardIds -> Cards]]
    <3>1. cards \in [Ideas -> [CardIds -> Cards]] /\ cards[i][k] \in Cards
      BY DEF TypeOK
    <3> DEFINE moved == [cards[i][k] EXCEPT !.column = IF @ = "live" THEN "archived" ELSE "live"]
    <3>2. NoCard \in Cards
      BY DEF NoCard, Cards, Texts
    <3>3. moved \in Cards
      BY <3>1 DEF Cards
    <3>4. \/ cards' = [cards EXCEPT ![i][k] = NoCard]
          \/ cards' = [cards EXCEPT ![i][k] = moved]
      BY <1>11, <3>1 DEF Hand, Cards
    <3> HIDE DEF moved
    <3> QED
      BY <3>1, <3>2, <3>3, <3>4
  <2>2. owed' \in [Ideas -> SUBSET {"card", "text", "column"}]
    BY <1>11, <1>t DEF Hand
  <2> QED
    BY <1>11, <1>f, <2>1, <2>2 DEF Hand, TypeOK
<1>12. CASE ProbeElsewhere \/ ProbeDue
  BY <1>12 DEF ProbeElsewhere, ProbeDue, TypeOK
<1>13. CASE Crash
  <2>1. \A kind : Undone(kind) \subseteq {"card", "text", "column"}
    BY DEF Undone
  <2>2. owed' \in [Ideas -> SUBSET {"card", "text", "column"}]
    BY <1>13, <1>t, <2>1 DEF Crash
  <2>3. Idle \in Works /\ <<>> \in Seq(Ops)
    BY DEF Idle, Works, Rows, Texts, Bindings
  <2> QED
    BY <1>13, <1>f, <2>2, <2>3 DEF Crash, TypeOK
<1>14. CASE UNCHANGED vars
  BY <1>14 DEF vars, TypeOK
<1> QED
  BY <1>1, <1>2, <1>3, <1>4, <1>5, <1>6, <1>7, <1>8, <1>9, <1>10, <1>11, <1>12, <1>13, <1>14
     DEF Next

LEMMA TypeOKInit == Init => TypeOK
<1> SUFFICES ASSUME Init PROVE TypeOK
  OBVIOUS
<1> USE MirrorAssumption
<1>1. /\ status \in [Ideas -> Statuses] /\ bound \in [Ideas -> Bindings]
      /\ cards \in [Ideas -> [CardIds -> Cards]]
  BY DEF Init, Statuses, Bindings, CardIds, Cards, NoCard, Texts
<1>2. Idle \in Works /\ <<>> \in Seq(Ops)
  BY DEF Idle, Works, Rows, Texts, Bindings
<1>3. /\ text \in [Ideas -> Texts] /\ parent \in [Ideas -> Ideas \cup {None}]
      /\ owed \in [Ideas -> SUBSET {"card", "text", "column"}]
  BY DEF Init, Texts
<1>4. chain \in [Ideas -> Seq(Ops)] /\ work \in [Ideas -> Works]
  BY <1>2 DEF Init
<1>5. verbs \in 0..MaxVerbs /\ faults \in 0..MaxFaults
  BY DEF Init
<1>6. available \in BOOLEAN /\ lastProbe \in {"due", "recent"}
  BY DEF Init
<1> QED
  BY <1>1, <1>3, <1>4, <1>5, <1>6 DEF TypeOK, Statuses

----------------------------------------------------------------------------
(* The theorems.                                                           *)

LEMMA MirrorInvHolds == Spec => [](TypeOK /\ MirrorInv)
<1>1. Init => TypeOK /\ MirrorInv
  BY TypeOKInit, MirrorInit
<1>2. TypeOK /\ MirrorInv /\ [Next]_vars => (TypeOK /\ MirrorInv)'
  BY TypeOKStep, MirrorStep
<1> QED
  BY <1>1, <1>2, PTL DEF Spec

\* The ledger, the chains and the cards keep their types: an operation that ends
\* lets go of its chain (enqueueChain, runMirror).
THEOREM MirrorTypeCorrect == Spec => []TypeOK
BY MirrorInvHolds, PTL

\* An idea never has two cards, whatever answers, lists and processes are lost
\* (ensureTask).
THEOREM NeverTwoCards == Spec => []OneCard
<1>1. MirrorInv => OneCard
  BY DEF MirrorInv, Mirrored, LegacyAlone, OneCard, CardIds
<1> QED
  BY MirrorInvHolds, <1>1, PTL

\* Once its chain is empty an idea has its card, as it is itself but for what is
\* owed (scheduleMirror, runMirror).
THEOREM QuietCardsAgreeAlways == Spec => []QuietCardsAgree
<1>1. MirrorInv => QuietCardsAgree
  <2> SUFFICES ASSUME MirrorInv, NEW i \in Ideas,
                      Present(i), chain[i] = <<>>, "card" \notin owed[i]
               PROVE  CardAgrees(i)
    BY DEF QuietCardsAgree
  <2>1. Mirrored(i) /\ \A kind : ~Queued(i, kind)
    BY DEF MirrorInv, Queued
  <2>2. PICK k \in CardIds : Exists(i, k)
    BY <2>1 DEF Mirrored, CardToCome
  <2>3. \A o \in CardIds : Exists(i, o) => o = k
    BY <2>1, <2>2, OneOfTwo DEF Mirrored
  <2>4. "text" \notin owed[i] => cards[i][k].text = text[i]
    BY <2>1, <2>2 DEF Mirrored, TextToCome
  <2>5. "column" \notin owed[i] =>
           /\ status[i] = "open" => cards[i][k].column = "live"
           /\ status[i] = "archived" => cards[i][k].column = "archived"
    BY <2>1, <2>2, <2>3 DEF Mirrored, ColumnToCome
  <2> QED
    BY <2>2, <2>4, <2>5 DEF CardAgrees
<1> QED
  BY MirrorInvHolds, <1>1, PTL


=============================================================================
