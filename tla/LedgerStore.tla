---------------------------- MODULE LedgerStore ----------------------------
(***************************************************************************)
(* How the ledger document lives: the request-id cache, the commit of a    *)
(* mutation, the tmp+rename write with its direct-write fallback, a crash  *)
(* at any point of it, the boot that reads the document back or sets it    *)
(* aside, and the snapshots a board is restored from (host-ledger.ts,      *)
(* backup.ts).                                                             *)
(*                                                                         *)
(* What a verb does to the rows is the subject of IdeasLedger; here a      *)
(* board is a function from Items to BOOLEAN, and a request sets one item, *)
(* finds it set already, or is refused.  One item, Stamp, is the `running` *)
(* stamp of an execution in flight, which only the host writes.            *)
(***************************************************************************)
EXTENDS Integers, Sequences

CONSTANTS
    Items,          \* the facts a board records
    Stamp,          \* the item that says an execution is in flight
    Requests,       \* request ids
    EffectOf,       \* the action of each request: the item it sets, to what
    Refused,        \* the effect of a request whose verb throws
    Torn,           \* a file that does not parse
    Absent,         \* no file
    CacheLimit,     \* MAX_REQUEST_CACHE
    Retention,      \* IDEAS_SNAPSHOT_RETENTION
    Imports,        \* boards handed over in full by a portable import
    Faults,         \* what the file system may do besides losing power
    MaxRevision,    \* bound on the revision
    MaxKept         \* bound on the snapshots in the folder

Boards == [Items -> BOOLEAN]

Effects == [item : Items \ {Stamp}, to : BOOLEAN]

Documents ==
    [board : Boards, revision : Nat, recent : Seq(Requests)]

ASSUME StoreAssumption ==
    /\ Stamp \in Items
    /\ EffectOf \in [Requests -> Effects \cup {Refused}]
    /\ Refused \notin Effects
    /\ CacheLimit \in Nat \ {0}
    /\ Retention \in Nat \ {0}
    /\ Imports \subseteq Boards
    /\ Faults \subseteq {"rename", "write", "read"}
    /\ MaxRevision \in Nat
    /\ MaxKept \in Nat
    /\ Torn # Absent
    /\ Torn \notin Documents \cup Boards
    /\ Absent \notin Documents \cup Boards

VARIABLES
    up,             \* the process runs
    memory,         \* this.document: its board and its revision
    cache,          \* requestCache, oldest first
    file,           \* ledger-v2.json
    kept,           \* the snapshot folder, newest first
    aside,          \* documents renamed out of the way
    unsaved,        \* the last write of the document failed and was reported
    age,            \* ids cached since a request was answered; CacheLimit = long ago
    committed,      \* requests whose last answer came with a commit
    tab             \* the snapshot that some tab of the browser shows

vars == <<up, memory, cache, file, kept, aside, unsaved, age, committed, tab>>

ghosts == <<age, committed, tab>>

IsWhole(f) == f \notin {Torn, Absent}

EmptyBoard == [x \in Items |-> FALSE]

EmptyDocument == [board |-> EmptyBoard, revision |-> 0, recent |-> <<>>]

Held(d) == [board |-> d.board, revision |-> d.revision]

\* What a tab shows, and of what: nothing yet, the document on disk, the memory
\* after a write that failed, or a document of before the last boot that started
\* empty.
Snapshots ==
    [board : Boards, revision : Nat, of : {"nothing", "disk", "memory", "earlier"}]

Snapshot(held, of) == [board |-> held.board, revision |-> held.revision, of |-> of]

\* Types of the memory, the file and the copies, and the limit of the cache:
\* requestCache never holds more than it may.
TypeOK ==
    /\ up \in BOOLEAN
    /\ memory \in [board : Boards, revision : Nat]
    /\ cache \in Seq(Requests) /\ Len(cache) <= CacheLimit
    /\ file \in Documents \cup {Torn, Absent}
    /\ kept \in Seq(Boards \cup {Torn})
    /\ aside \subseteq Documents \cup {Torn}
    /\ unsaved \in BOOLEAN
    /\ age \in [Requests -> 0..CacheLimit]
    /\ committed \subseteq Requests
    /\ tab \in Snapshots

Init ==
    /\ up = FALSE
    /\ memory = Held(EmptyDocument)
    /\ cache = <<>>
    /\ file = Absent
    /\ kept = <<>>
    /\ aside = {}
    /\ unsaved = FALSE
    /\ age = [r \in Requests |-> CacheLimit]
    /\ committed = {}
    /\ tab = Snapshot(memory, "nothing")

----------------------------------------------------------------------------
(* Writing a file.                                                         *)

TornBy(fault) == IF fault \in Faults THEN {Torn} ELSE {}

\* A slip: a failed rename is taken for a success.
WrittenOrNot(old, new) ==
    {[end |-> "done", file |-> f] : f \in {old, new}} \cup
    {[end |-> "crash", file |-> f] : f \in {old, new} \cup TornBy("rename")}

\* Where writeAtomic may leave the file `old` when it writes `new`.  The
\* rename may fail, and the bytes then go straight to the file; any write may
\* fail; and the process may die at any point.
Written(old, new) ==
    {[end |-> "done", file |-> new]} \cup
    {[end |-> "crash", file |-> f] : f \in {old, new} \cup TornBy("rename")} \cup
    {[end |-> "error", file |-> f] :
        f \in IF "write" \in Faults THEN {old} \cup TornBy("rename") ELSE {}}

\* A slip: the ids are persisted as they were before this mutation.
DocumentBehind(board, ids) ==
    [board |-> board, revision |-> memory.revision + 1, recent |-> cache]

\* A slip: the revision of a restored board is not moved forward.
DocumentInPlace(board, ids) ==
    [board |-> board, revision |-> memory.revision, recent |-> ids]

\* The document commit() persists.
DocumentOf(board, ids) ==
    [board |-> board, revision |-> memory.revision + 1, recent |-> ids]

\* commit(): memory holds the new document whether or not the write succeeds.
Commit(outcome, document, ids) ==
    /\ file' = outcome.file
    /\ up' = (outcome.end # "crash")
    /\ memory' = IF up' THEN Held(document) ELSE Held(EmptyDocument)
    /\ cache' = IF up' THEN ids ELSE <<>>
    /\ unsaved' = (outcome.end = "error")

----------------------------------------------------------------------------
(* Requests.                                                               *)

Cached(r) == \E n \in DOMAIN cache : cache[n] = r

\* A slip: nothing is ever evicted.
RememberAll(r) == Append(cache, r)

\* requestCache.set, and the eviction of the oldest id past the limit.
Remember(r) == Append(IF Len(cache) < CacheLimit THEN cache ELSE Tail(cache), r)

\* requestCache.delete of the id just set: what it evicted stays evicted.
Forget(ids) == SubSeq(ids, 1, Len(ids) - 1)

Older(r) ==
    [q \in Requests |-> IF q = r \/ age[q] = CacheLimit THEN age[q] ELSE age[q] + 1]

\* The verb changes the board: it is committed, and the answer is the state.
\* A write that fails answers an error and takes the id back, not the change.
Execute(r) ==
    /\ up /\ ~Cached(r)
    /\ EffectOf[r] # Refused
    /\ memory.board[EffectOf[r].item] # EffectOf[r].to
    /\ memory.revision < MaxRevision
    /\ LET board == [memory.board EXCEPT ![EffectOf[r].item] = EffectOf[r].to]
           document == DocumentOf(board, Remember(r))
       IN  \E outcome \in Written(file, document) :
              /\ Commit(outcome, document,
                        IF outcome.end = "done" THEN Remember(r)
                                                ELSE Forget(Remember(r)))
              /\ age' = [Older(r) EXCEPT
                            ![r] = IF outcome.end = "done" THEN 0 ELSE @]
              /\ committed' = IF outcome.end = "done" THEN committed \cup {r}
                                                      ELSE committed
    /\ UNCHANGED <<kept, aside, tab>>

\* The verb finds nothing to change: no commit, and the id is in memory only.
ExecuteNothing(r) ==
    /\ up /\ ~Cached(r)
    /\ EffectOf[r] # Refused
    /\ memory.board[EffectOf[r].item] = EffectOf[r].to
    /\ cache' = Remember(r)
    /\ age' = [Older(r) EXCEPT ![r] = 0]
    /\ committed' = committed \ {r}
    /\ UNCHANGED <<up, memory, file, kept, aside, unsaved, tab>>

\* The verb throws: the id is taken back.
Refuse(r) ==
    /\ up /\ ~Cached(r)
    /\ EffectOf[r] = Refused
    /\ cache' = Forget(Remember(r))
    /\ age' = Older(r)
    /\ UNCHANGED <<up, memory, file, kept, aside, unsaved, committed, tab>>

\* A cached id answers the current state.
Replay(r) ==
    /\ up /\ Cached(r)
    /\ UNCHANGED vars

\* setRunStatus and the other writes of the host itself.
StampRun(running) ==
    /\ up
    /\ memory.board[Stamp] # running
    /\ memory.revision < MaxRevision
    /\ LET document == DocumentOf([memory.board EXCEPT ![Stamp] = running], cache)
       IN  \E outcome \in Written(file, document) : Commit(outcome, document, cache)
    /\ UNCHANGED <<kept, aside, ghosts>>

----------------------------------------------------------------------------
(* Snapshots.                                                              *)

Newest(entries) ==
    IF Len(entries) <= Retention THEN entries ELSE SubSeq(entries, 1, Retention)

\* The folder after a snapshot of `board` is written.
Keeping(outcome) ==
    IF outcome.file = Absent THEN kept ELSE <<outcome.file>> \o kept

TakeSnapshot ==
    /\ up
    /\ Len(kept) < MaxKept
    /\ \E outcome \in Written(Absent, memory.board) :
          /\ kept' = IF outcome.end = "done" THEN Newest(Keeping(outcome))
                                             ELSE Keeping(outcome)
          /\ up' = (outcome.end # "crash")
    /\ memory' = IF up' THEN memory ELSE Held(EmptyDocument)
    /\ cache' = IF up' THEN cache ELSE <<>>
    /\ unsaved' = (up' /\ unsaved)
    /\ UNCHANGED <<file, aside, ghosts>>

\* A slip: the snapshot taken first is of the board to come.
Displaced(board) == board

\* The board a restore writes to the folder before it replaces it.
Replaced(board) == memory.board

\* A restore of a board that reads well: the live one is written to the
\* folder first, and nothing is replaced unless that write succeeds.
RestoreBoard(board) ==
    /\ up
    /\ ~memory.board[Stamp]
    /\ memory.revision < MaxRevision
    /\ Len(kept) < MaxKept
    /\ \E copy \in Written(Absent, Replaced(board)) :
          /\ kept' = Keeping(copy)
          /\ IF copy.end = "done"
             THEN LET document == DocumentOf(board, cache)
                  IN  \E outcome \in Written(file, document) :
                         Commit(outcome, document, cache)
             ELSE /\ up' = (copy.end # "crash")
                  /\ memory' = IF up' THEN memory ELSE Held(EmptyDocument)
                  /\ cache' = IF up' THEN cache ELSE <<>>
                  /\ file' = file
                  /\ unsaved' = (up' /\ unsaved)
    /\ UNCHANGED <<aside, ghosts>>

Restorable == Imports \cup ({kept[n] : n \in DOMAIN kept} \ {Torn})

Without(entries, n) ==
    SubSeq(entries, 1, n - 1) \o SubSeq(entries, n + 1, Len(entries))

\* A restore of a snapshot that does not: refused, and the file renamed.
RestoreTorn(n) ==
    /\ up
    /\ ~memory.board[Stamp]
    /\ kept[n] = Torn
    /\ kept' = Without(kept, n)
    /\ aside' = aside \cup {Torn}
    /\ UNCHANGED <<up, memory, cache, file, unsaved, ghosts>>

----------------------------------------------------------------------------
(* The process.                                                            *)

Crash ==
    /\ up
    /\ up' = FALSE
    /\ memory' = Held(EmptyDocument)
    /\ cache' = <<>>
    /\ unsaved' = FALSE
    /\ UNCHANGED <<file, kept, aside, ghosts>>

\* load(): the document is read back, its request ids with it.
Boot ==
    /\ ~up
    /\ IsWhole(file)
    /\ up' = TRUE
    /\ memory' = Held(file)
    /\ cache' = file.recent
    /\ UNCHANGED <<file, kept, aside, unsaved, ghosts>>

\* recoverCorrupt(): the file could not be read, or is not there.  It is
\* renamed if that works, and the board starts empty at revision 0 either
\* way; a failed write is ignored.
BootFresh ==
    /\ ~up
    /\ IsWhole(file) => "read" \in Faults
    /\ \E renamed \in {TRUE} \cup (IF "rename" \in Faults THEN {FALSE} ELSE {}) :
          LET rest == IF renamed THEN Absent ELSE file
          IN  /\ aside' = IF renamed THEN aside \cup ({file} \ {Absent}) ELSE aside
              /\ \E outcome \in Written(rest, EmptyDocument) :
                    /\ file' = outcome.file
                    /\ up' = (outcome.end # "crash")
                    /\ unsaved' = (outcome.end = "error")
    /\ memory' = Held(EmptyDocument)
    /\ cache' = <<>>
    /\ age' = [r \in Requests |-> CacheLimit]
    /\ committed' = {}
    /\ tab' = [tab EXCEPT !.of = IF @ = "nothing" THEN @ ELSE "earlier"]
    /\ UNCHANGED kept

\* list(), answered to the tab: it adopts another revision than the one it shows,
\* an equal one it does not.  It outlives the process.
Poll ==
    /\ up
    /\ tab.of = "nothing" \/ tab.revision # memory.revision
    /\ tab' = Snapshot(memory, IF unsaved THEN "memory" ELSE "disk")
    /\ UNCHANGED <<up, memory, cache, file, kept, aside, unsaved, age, committed>>

Next ==
    \/ \E r \in Requests :
          Execute(r) \/ ExecuteNothing(r) \/ Refuse(r) \/ Replay(r)
    \/ \E running \in BOOLEAN : StampRun(running)
    \/ TakeSnapshot
    \/ \E board \in Restorable : RestoreBoard(board)
    \/ \E n \in DOMAIN kept : RestoreTorn(n)
    \/ Crash
    \/ Boot
    \/ Poll
    \/ BootFresh

Spec == Init /\ [][Next]_vars

----------------------------------------------------------------------------
(* What the store owes its readers.                                        *)

\* Unless the last write failed and said so, whatever the process answers is
\* on disk, what earlier failed writes left in memory included: a boot brings
\* the same board and the same revision back.
AnswersAreOnDisk == up /\ ~unsaved => IsWhole(file) /\ Held(file) = memory

\* A request whose mutation was committed is recognised as long as the cache
\* limit says, across crashes, restores of older boards and floods of refused
\* requests.  (A board that starts empty forgets the requests with the rows.)
CommittedOnce ==
    \A r \in committed : up /\ age[r] < CacheLimit => Cached(r)

\* A tab that shows the revision of the host shows its board, through failed
\* writes, crashes, boots and restores in between.  (Not promised once a boot has
\* started an empty board: its revisions go up from 0 again, and the tab of an
\* earlier start keeps the board it shows when they pass the revision it shows.
\* Nor of a board that was shown after a write that failed, whose revision the
\* next boot issues again.)
RevisionNamesBoard ==
    up /\ tab.of = "disk" /\ tab.revision = memory.revision
    => tab.board = memory.board

OnDisk == IF IsWhole(file) THEN file.board ELSE Absent

Kept ==
    INSTANCE KeptBoard WITH
        Nothing <- Absent,
        board <- IF up THEN memory.board ELSE OnDisk,
        saved <- OnDisk,
        safe <- {kept[n] : n \in DOMAIN kept} \ {Torn}

\* The board changes by one fact at a time or is replaced by a kept one, no
\* board is replaced that is not kept first, and a crash brings the board on
\* disk back.
BoardsAreKept == Kept!Spec

============================================================================
