# Ideas manager: TLA+ models and proofs

This folder is the verification project of the ideas manager plugin: TLA+ modules
translated from the source, TLC runs that check them on small instances, and
proofs that TLAPS checks. `PROJECT.json` lists the components, the runs, the
source lines every definition stands for, a mutant for every property, the hazards
and the theorems.

Source paths below are relative to `src/src/`.

## 1. The system

The plugin keeps a board of ideas. A host process owns one JSON document, serves
it over HTTP to browser panels and agent tools, mirrors each idea to a card of the
optional task-board plugin, and runs an idea on its card or in a fresh session.
Handlers run on one thread: a handler is not interrupted between two `await`s, and
everything may happen at one.

| Component | Code | State | Operations | Hard behaviour | What makes it correct |
|---|---|---|---|---|---|
| Ledger document and verbs | `host-ledger.ts` (`apply`), `core/ideas.ts` | rows in order: column, workspace, rank, number, follow-up parent, delivery stamp, relation lists; capture sequence; imported sources | create, update, move, decline, deliver, triage, followUp, merge, restore, delete, reorder, import | one verb rewrites many rows; a repair runs over edges written by other verbs; ranks over groups that keep changing | relations live, symmetric, loop-free; numbers issued once; a verb moves what it names and nothing else |
| Ledger persistence | `host-ledger.ts`, `backup.ts` | the document in memory and on disk, the revision, the request-id cache, the snapshot folder, quarantined files | applyRequest, commit, writeAtomic, load, recoverCorrupt, takeSnapshot, restore | a crash inside a write, a rename that fails, a retry after a crash, cache eviction | an answer is on disk; a committed request is not executed twice; a revision names one board of a document; no board is replaced that is not kept |
| Single-writer lock | `host-ledger.ts` (`acquireLock`) | lock directory, owner marker | acquire, take over, release | two boots over one stale lock; death between directory and marker; a pid that comes back | one writer; nobody turned away without a cause |
| Run lifecycle | `host-service.ts`, `session-runner.ts`, `taskboard-bridge.ts`, `client/launch.ts` | `runStatus`, `runSessionId`, the tracked direct runs, the per-idea chain, the last board snapshot | launch, poll of cards, poll of the session roster, settle, re-attach | a launch, a poll and a restart in any order; two backends that both report on one idea; reads that fail | a run in flight is followed and settles; a finished one reaches review |
| Task-board mirror | `taskboard-bridge.ts`, `host-service.ts` | card binding per idea, chains of card operations | create, update, archive, restore, rebuild | lost answers, transient empty snapshots | one card per idea |
| Settings store | `host-settings.ts` | one document with a revision | read, fenced write, quarantine | the fence across a quarantine | no lost update |
| Board client, undo | `client/ideas-client.ts`, `client/undo.ts` | adopted snapshot, undo stack, the open batch | refresh, action, undo | answers late or lost; a drift check that ages; two undos at once | the tab catches up with the host; an undo puts back what its action wrote and nothing else |
| Bulk actions, session queue | `client/bulk.ts`, `client/session-queue.ts` | a plan and its report | run a verb over a selection, queue launches | a step fails half way, with an archived idea open | every idea of the plan is reported once, and truly |
| Ordering by hand | `client/board-view.tsx` (`performDrop`), `client/priorities-view.tsx`, `client/ordering.ts` | a drag, the snapshot it is read from, the order of the open column | drop in a column, drop and step in the Priorities list, one order of the whole board per post | two posts per drop, an order read before the first and sent in the second, a board that others change | the card lands on its line and no other card moves |
| Virtual list | `client/windowing.ts`, `client/virtual-column.ts` | measured heights, the cached scroll of each column | render, measure, observe, scroll | four callbacks that ask for each other, heights that were estimated | the window covers the viewport, the reader stays when a mounted card changes, the callbacks come to rest |
| Routes, agent tools, health, export, wiring, user interface | the other files | none of their own | adapters, folds and rendering | | |

How they interact. Routes and agent tools send verbs through the service to the
ledger; the ledger calls its subscribers after a commit, and the service then
queues a card operation on the chain of the idea. The poll reads the task board
and the session roster and writes what it finds as ledger writes of its own. A
restore hands the ledger a whole board. The browser polls by revision.

## 2. Modules

| Module | What it is |
|---|---|
| `IdeaRelations` | Relation lists and what a write, merge, delete and repair make of them: pure operators over graphs. |
| `IdeasLedger` | The document and its verbs, one action each. EXTENDS `IdeaRelations`. |
| `IdeasLedgerProofs` | Lemmas on the operators of both; theorems on the relations, the numbers, the parents and the ranks that the verbs write; lemmas on lists; theorems on the drops of `BoardOrder`, which it extends. |
| `BoardOrder` | A tab that drags and steps cards, beside the document its posts land on. EXTENDS `IdeasLedger`, whose actions are the host's half of every step. |
| `MCBoardOrder` | The instance of both. By `focus` it drives the verbs that write relations, those that write ranks, those that write follow-up parents, or the drags. |
| `KeptBoard` | Abstract: what may happen to a board and to its copy on disk. |
| `LedgerStore`, `MCLedgerStore` | Cache, commit, write, crash, boot, quarantine, snapshots, restore. Implements `KeptBoard`. |
| `LedgerStoreProofs` | Types, answers, revisions, request ids, and the refinement of `KeptBoard`. |
| `LedgerLock`, `MCLedgerLock` | The lock of the ledger, one step per file operation, for hosts of several processes. |
| `LedgerLockProofs` | One writer, turned away only for cause, and the types. |
| `RunLifecycle`, `MCRunLifecycle` | Launch, poll, settle, restart, with the task board and the sessions as the outside. |
| `RunLifecycleProofs` | Types, runs in flight are followed, direct runs are shown. |
| `CardMirror`, `MCCardMirror` | The operations each verb queues for the card of an idea, against a task board that may do anything but lie. |
| `CardMirrorProofs` | Types, one card per idea, and a quiet card agrees with its idea. |
| `SettingsStore`, `MCSettingsStore` | The settings document of the host and the tabs that edit it. |
| `SettingsStoreProofs` | What the revision fence guarantees, and the types. |
| `BoardClient`, `MCBoardClient` | One tab: adopted snapshots, verbs, bulk runs, the undo stack. |
| `BoardClientProofs` | Types, reports that tell the truth, no archived idea left open, and undos that put back. |
| `VirtualColumn`, `MCVirtualColumn` | The windowed columns and the four callbacks that keep them. |
| `VirtualColumnProofs` | Types, a hook at rest is up to date, the filled viewport, and the reader who stays. |

### IdeasLedger

A row of the document is spread over functions from `Ids`: `place` is its index (0
= no such row), `rank` and `number` use 0 for an absent field, `parent` uses
`None`. A relation list is the set of its entries, because normalized lists have
no repeats; where the cap truncates one and the order would matter, the operator
returns every list the cap may leave. The guard of an action is the refusals and
early returns of the verb, its effect the document that is committed. The repair
(`reconcileRelations`) is part of Merge and Import: the order in which the last
pass visits the rows matters, so `IsPruning` states it row by row, and the model
picks the one subgraph that satisfies it. The rows of an import may come twice and
each may leave a field out: `Stating` are the rows of an id that state a field,
`Overlaid` the column once the last of them has spoken, `Arrivals` the rows that
bring an id the board does not have, in the order they are appended. `minted` is
history: `randomUUID` does not return an id twice. Ranks of inputs are positive
here; the code also lets other finite numbers through, which the sort treats
alike.

Left out: text, tags, scores, clocks, the activity log, reanalyze, export.

### BoardOrder

`snap` is the snapshot of one tab, `shown` what its filter lets through,
`openOrder` how its open column is painted, `drop` the gesture under way. A drop
in another column is two posts: `DropOn` reads the rows as they are painted
(before the `await`, as `performDrop` does), `ServeMove` is the `move` on the
host, `MoveAnswered` builds the order of the whole board on the board that came
back, and `ServeOrder` is the `reorder`. A drop in the same column, a row drop and
an arrow step of the Priorities list go straight to the order. `Rebuilt` is
`rebuildOrder`, `Grouped` is `groupedIdOrder`. A sort is `Sorted`: the n-th of a
set is the one with n - 1 before it; a filter of a list is `Within`. Between any
two steps others write the document (`Other`), the tab polls (`Poll`), or the post
is lost (`Abandon`). `BoardSpec` lets any verb of the ledger come in between, the
run a few of them.

The properties are about the step at which an order is served. `LineStands` is
when a line means a place among the peers of the card: the row below it is one of
them on the board the order was built on, or none was painted below it.

Left out: the cards in flight that a setting floats to the top of a column, and
the preview of a drag.

### LedgerStore

A board is a function from a few items to BOOLEAN; a request sets an item, finds
it set, or is refused. `Written(old, new)` is every way `writeAtomic` may end:
done, an error that is reported, or the death of the process, with the old file,
the new one or a torn one left behind (torn only where the rename has failed and
the bytes go straight to the file). `Commit` follows the code in moving memory
before the file. `unsaved` says that the last write failed and its caller was
told. `age` and `committed` are history for the properties. `tab` is the snapshot
that some tab of the browser shows, and of what it was: the document on disk, the
memory after a write that failed, or a document of before the last boot that
started empty. The tab outlives the process; `Poll` is its `adopt`, which takes
another revision than the one it shows and leaves an equal one.

Left out: the comparison of a replayed id with the action it came with, the
trimming of text, the host-internal writes other than the running stamp, the
second document format that boots are able to read.

### LedgerLock

A host is one ledger object; `pc` is where it stands in `acquireLock`, its
takeover or `releaseLock`, and every file operation is a step: make the directory,
write the marker, read it, unlink it, remove the directory. Those calls are
synchronous, so hosts of one process do not interleave (`ThreadFree`); hosts of
different processes do. `Crash` ends a process and all its hosts, `Reuse` gives
its pid to a stranger, and `CanSignal` says which pids the liveness probe is able
to see: the code takes any error of the probe for a dead process. `Holds` is what
a lock in the way of a host must be for the host to be refused, `Beaten` what must
have happened before it gives up: each of its `MaxAttempts` attempts met the lock
of yet another host. `makers` is history for that: the hosts that have made the
lock directory. `crossed`, `failed` and `denied` are history: the lock was changed
while another host stood between its look and its deed; a file operation failed; a
live process was taken for dead. In each the code admits a second writer, so the
properties are about behaviours that are `Undisturbed`.

### RunLifecycle

An `await` is two steps: the outside does its part (a session is opened, a card is
asked to run, a snapshot or a roster is read) and, any time later, the handler
goes on with the answer. Between the two every other action may happen. `polling`
is where the poll is, `answer` what came back for the launch at the head of the
chain of an idea. Cards and sessions change by themselves, also while the host is
down. `hasty` and `overtaken` are history: they name the two orders of events that
the code does not survive (section 5), so that the properties can say what holds
otherwise. A session is `overtaken` if it was tracked while an older roster was at
hand, or if it was in flight (`InFlight`) when a hasty process gave up looking for
such runs. RestartReattaches says of every process what RunsFollowed says of those
that are not hasty.

`Callers` says who launches: the board offers a launch only on an open idea with
no run in flight (`canLaunch`); an agent may ask at any time.

Left out: request-id replay (a replay that finds its answer changes nothing, one
that does not is one more launch), delivery notes, model and permission choice, a
crash between the two stamps of a direct launch, overlapping polls.

### CardMirror

An idea is a column and a text. Each verb appends to `chain` the operations it
queues, with the row they captured; `work` is where the first of a chain is: the
probe of `availableNow`, the fetch of `ensureTask`, the create and the move behind
it, or the post of the verb. A card has one of two ids: `own`, derived from the id
of the idea, or `legacy`, the one an older version bound. The board may be away,
list nothing, refuse, or do its part and lose the answer; humans delete and move
cards; the host dies with its chains. `owed` is history: what an operation that
failed, or a hand on the card, left undone, until an operation that succeeds puts
it right. A create that succeeds because the list it read still showed a card
which is gone leaves the card owed: only a card that exists settles it.

A post and its answer are one step: what others do between the two can as well be
done before the next step of the host. The ways out of the backlog are one column,
but for the archive by a follow-up, which queues no operation.

### SettingsStore

The value is the map of launch models by workspace, which a write replaces whole;
the other settings are single values that the last write wins. A handler of the
host is one step and its answer another. A document may be missing, valid or
corrupt (damaged from outside, torn by a write whose rename failed, or a load that
fails); `reported` is the once-per-process rename. `restarted` is history: once a
document was set aside, revisions begin at 1 again.

### BoardClient

Everything a tab does is a job: a plan of items, one per idea, whose steps are
posted one at a time. At the desk there is one job, an edit or a bulk dialog; each
Ctrl+Z is one more beside it. A post is three steps: posted, served by the host,
answered. The answer is adopted, its inverse goes to the open batch or on the
stack, and the job goes on. Polls are answered at any time, late ones too.
`InOrder` lists the steps of an undo entry that name one idea, and the ideas in
the order in which they come; `Rebound` is what they are on the row they meet. A
row is a column and a tag, the tag standing for every field of an update that has
an inverse. `spoilt` (written by others while the job ran), `blind` (a restore
done, its answer lost), `start`, `deed` and the `by` of an item are history.
Others edit ideas, delete them and bring them to the board (`Other`: a capture, an
import, a restore), also after the document was set aside (`Quarantine`,
`restarted` as above), so that revisions which started again reach those a tab
still shows.
UndoPutsBack is about what an entry holds `Whole`: everything one action did to an
idea, with an inverse kept of each verb.

Left out: the inverse of a triage, the body cache, bulk re-home, launches.

### VirtualColumn

A height is that of the slot, gap included; the estimate is a constant. `Render`
is the render and its refs, `Effect` measures, `Observe` is the resize observer,
`OnScroll` the scroll handler; `due` and `scrolled` say which are to come, and the
reader, the board and the layout change between any two. Heights really change the
document, so the browser's clamp of a scroll is part of every step. `reading` is
history: the row a reader was at, at rest, when a card of that column took another
height. `calls` counts callbacks since the last event. `Paint` is what a render
puts in the document, `Delta` what grew above the anchor of a column, `Together`
the sum that `measureAll` adds to every scroller. A board shows an idea in one
column, the one of its status.

`Render` measures the cards it mounts, and as in the code nothing is added to a
scroll for them: `reading` is about cards that are mounted already.

Left out: the reveal of a deep link, a panel that closes, heights estimated from
texts, viewport heights remembered between panes. Heights and viewports are
positive: a card that reports height 0 (refused by `measure`), and the answer
`window` gives to a viewport that cannot be measured (`viewport <= 0`: the whole
column), are outside the model.

## 3. Runs

| Run | Instance | States | What it shows |
|---|---|---|---|
| `LedgerVerbs` | 3 ids, 2 workspaces; per behaviour one of: the relation verbs with every relation patch, lists up to 3 and one hand-edited import; the rank verbs; the lineage verbs; one gesture and one verb of others on a board of three rows | 382 thousand | RelationsLive, BlocksAcyclic, RelatesSymmetric, NewNumberFresh, MergeFoldsLoser; TriageLands, OneIdeaMoves, ReorderHonoured; NoSelfParent; DropLands, OnlyTheCardMoves |
| `LedgerStore` | 4 requests on one item and the running stamp, cache of 2, retention 1, revisions up to 2 by any number of starts, one tab, renames and writes that fail | 1.4 million | TypeOK, AnswersAreOnDisk, CommittedOnce, RevisionNamesBoard, BoardsAreKept |
| `LedgerLock` | 5 hosts, four of them of one pid and alike, the fifth of another user | 398 thousand | SingleWriter, TurnedAwayForCause |
| `RunLifecycle` | 1 idea, both backends, 2 sessions, 1 restart | 676 thousand | TypeOK, RunsFollowed, DirectRunShown, RunsSettle, FinishedReachesReview |
| `RunSessions` | 2 ideas, sessions only, an agent that launches at any time, 2 sessions, 1 restart | 218 thousand | RunsSettle |
| `RunForgotten` | 2 ideas, sessions only, launched from the board, 2 sessions, 1 restart | fails | RestartReattaches |
| `CardMirror` | 2 ideas, one bound by an older version, 3 verbs, 1 fault | 219 thousand | TypeOK, OneCard, QuietCardsAgree, ChainsDrain |
| `SettingsStore` | 2 tabs, 2 workspaces, 2 models, revisions up to 3 | 394 thousand | RevisionNamesMap, FencedWritesSafe |
| `BoardClient` | 2 ideas, one with a card, 2 undos, stack of 2, 3 jobs or faults each | 2.2 million | TypeOK, UndoPutsBack, ReportTells, NothingElseLeftOpen |
| `BoardCatchesUp` | 1 archived idea with a card, 1 undo, 3 jobs or faults each | 126 thousand | RunsEnd, CatchesUp |
| `VirtualColumn` | 2 columns, 4 cards of height 1 or 3 estimated at 2, viewports 2 and 3, 2 events | 521 thousand | TypeOK, ViewportFilled, ReaderStays, ComesToRest |
| `BoardUndoneTwice` | as `BoardClient` | fails | UndoneStaysUndone |

`RunForgotten` is expected to fail: the comment at `host-service.ts:636` calls the
re-attachment of direct runs "what makes a direct run survive a Host restart".
`launchInSession` sets the flag that says it was done (`host-service.ts:631`), so
a launch that comes back before the first poll of the new process makes the poll
skip it. The run of the process before, on another idea, is then followed by
nobody, and the idea shows running although its session has long ended.

`BoardUndoneTwice` is expected to fail: docs/architecture.md says that after the
restore button of the bulk dialog "a second press cannot undo the first undo". The
restores of the button are verbs like any other and each pushes an entry of its
own; the entry of the archive is then not the newest, is not discarded, and Ctrl+Z
archives again what was just restored.

### What the code does not promise

Each of these was met as a counterexample, and is an exception written into a
property, a bound on a run, or a hypothesis of a theorem:

- Two merges along a follow-up chain leave two ideas each the follow-up of the
  other: the guards look one step up. NoSelfParent is what remains.
- At the cap of a relation list a `relatesTo` write lands on one side only.
- The id of a request that changed nothing is in memory only; after a crash its
  replay executes.
- A corrupt document whose quarantine rename fails is overwritten by an empty one.
- A boot that starts an empty board starts at revision 0 again. A tab that
  outlives it shows a board of before, and when the new revisions come to the one
  it shows, `adopt` takes the new board for the old one and keeps the old until
  the next commit. The comment at `client/ideas-client.ts:1110`, "equal revision
  means identical content", so holds of one document only. RevisionNamesBoard and
  CatchesUp except that tab; without the exception CatchesUp fails by a document
  that is set aside and one capture.
- A write that fails leaves a revision in memory which the next boot issues again
  for another board; RevisionNamesBoard excepts a tab that was shown it.
- A second host gets in where it changes the lock between another's look and its
  deed, where a file operation fails, and where the owner belongs to a user it may
  not signal.
- A direct launch that answers before the first poll of a restarted host closes
  the re-attachment (`hasty`): an older run stays `running` for ever, or is told
  over by its card although the session runs (`overtaken`).
- If the board is silent on the first poll after a restart, the session of a card
  is adopted as a direct run.
- A session tracked while an older roster was at hand is reported as over
  (`overtaken`).
- The mirror of a second follow-up of one idea mirrors the first one again.
- Settings that were set aside restart their revisions, so a tab with an old
  revision may pass the fence.
- A round trip whose restore is done and its answer lost leaves an archived idea
  open (`blind`).
- With two undos at once, the first to end takes the flag away: the verbs the
  other still posts are captured, on the stack or in the batch of a bulk run, and
  a bulk run begun while an undo runs loses its first inverses. The entries that
  come of it are not `Whole`, and an undo of one puts back what it can.
- A card dropped on the lower half of the row above it is its own anchor, is not
  found among its peers and goes to the end of its group.
- So does a card dropped on a line whose lower row others move out of the group,
  or delete, while the card itself is being moved: the anchor is no peer any more,
  and the rows further down are not looked at (`LineStands`).
- An order built on a stale snapshot rewrites the ranks of groups the drop was not
  about; rows hidden by the filter keep ranks that may collide with those given to
  the rows that are painted.
- `measureAll` adds what grew above the anchor to the scroll of every column, so
  the readers of the other columns are moved.
- A card that is measured as it is mounted above the reader moves the row he is
  at. The ref of the card (`client/virtual-column.ts:293`) drops what `measure()`
  returns; the observer then finds the height noted and nothing to make up for,
  and the next render shifts the rows below the card. So "refinement is anchored"
  (`client/windowing.ts:22`: "the caller adds that to `scrollTop`"), the comment
  at `client/virtual-column.ts:189` and docs/architecture.md:946 hold of a card
  that is resized while mounted, not of the first measurement of a card, nor of
  one that took another height while it was out of the window. The tests at
  tests/windowing.test.ts:160 and tests/virtualization.test.tsx:382 measure cards
  by hand or cards that are mounted. ReaderStays is about cards already mounted,
  and about a height that changes while no callback is due.

### Bounds, and why they are enough

- Three ids: a loop of waits, a follow-up chain with a merge at its end, and a
  mover with two ideas that must not move all need three rows and no more. Ids are
  interchangeable, hence the symmetry of `LedgerVerbs`; a source of imports is an
  order of the ids, so that what is imported is permuted with them.
  `RelationLimit` is 3, so that the cap does not bite.
- `MaxNumber` is 4: an id is never captured twice, and the import brings the
  numbers up to 3, so that one capture may follow it.
- `MaxGestures` and `MaxOthers` are 1: a drop reads once and writes twice, and one
  verb of others in any of the gaps is what makes what it read stale. The boards
  have one workspace or two, one row archived or none, ranks against the order of
  creation, shared or missing, and a filter that hides at most one row: two
  neighbours and a third that must keep its place.
- The cache of `LedgerStore` holds 2 ids and there are 4 requests, so ids are
  evicted, by floods of refusals too. Two revisions are a commit and a restore of
  the board kept before it, and a tab that shows the first while the host, after a
  boot that started empty, comes to it again; boots are not bounded. Retention 1
  prunes at the second snapshot. The two requests with the same effect are alike,
  hence the symmetry.
- Five hosts: one whose lock is stale, and four that find it. To give up, a host
  has to meet the lock of yet another host at each of its four attempts, and a
  host makes the lock once: with fewer hosts none ever does. Four share a pid,
  which covers a plugin loaded twice and a pid that comes back, and nothing else
  tells them apart, hence the symmetry.
- Two sessions are what it takes for one to be the old run and one the new, or one
  the card's and one a direct run; one restart separates a process that tracked a
  run from one that must find it.
- Two ideas are what a merge and a follow-up of the mirror name; three verbs make
  a chain of operations in which the middle one fails.
- Two tabs and a third revision: both read, one writes, the other writes, and the
  first writes on what it still shows.
- Two ideas in `BoardClient`: a run has one to go on to after a failure. A stack
  of 2 overflows at the third entry; 3 events are a bulk run, its undo and a third
  that gets between, or a document set aside, a capture that brings the revision
  back to the one shown, and one thing more.
- Heights 1 and 3 around an estimate of 2 err both ways; a viewport shorter than
  the list leaves cards unmounted on both sides. Two events: one that leaves
  callbacks due, and one that falls between them. `MaxCalls` (16) is a claim and
  not a bound: ComesToRest says it is never exceeded.

### Fairness

`RunLifecycle`, `RunSessions`. The timer of the poll and the continuation of a
read that was answered are weakly fair: they are a `setInterval` and a resolved
promise of a live process. A host that went down is started again. A session and a
card that run do end (weak fairness on `SessionEnds`, `CardEnds`): RunsSettle is
about the host noticing, not about an agent finishing. The task board and the
roster may fail to answer, but not each and every time they are asked: their reads
are strongly fair, since every tick may take the failing branch. Launches, moves
by humans, crashes and resets of cards get none. RunsSettle and
FinishedReachesReview make an exception of a process that was `hasty`.

`CardMirror`. For each idea the step its chain is at is weakly fair: a queued
operation is a promise that is run, and the board answers, if only with an error
(the bridge has timeouts). Verbs, hands and crashes get none.

`BoardCatchesUp`. The timer of the poll, the answer of a poll (or its loss) and
the steps of a job that is under way: a fetch ends, with an answer or an error.
New jobs and faults get none.

`VirtualColumn` claims no liveness: coming to rest is a bound on callbacks, which
is stronger.

`CHECK_DEADLOCK FALSE` is set everywhere: the bounds on numbers, revisions,
sessions, verbs and restarts are reached, every host of the lock may be dead, and
nothing has to happen after that.

## 4. Proofs

| Theorem | Says |
|---|---|
| `IdeasLedgerProofs!TypeCorrect` | `Spec => []TypeOK` |
| `RelationsStayLive` | no relation names its own row or a row that is gone |
| `NothingWaitsForItself` | `blocks` is acyclic whatever verbs wrote it |
| `NumbersWereIssued`, `NewNumbersAreFresh` | no row carries a number to come; a new #N is nobody else's |
| `RelatesStaySymmetric` | `relatesTo` is symmetric if a list can hold every id |
| `NobodyIsItsOwnParent` | no idea becomes its own parent if no imported row is |
| `TriageLandsWhereAsked` | a triage puts its idea where it was asked to, out of range included, and numbers the open group 1..n |
| `OneIdeaMovesAtMost` | a triage or a merge renumbers a group and leaves any two other ideas in their order |
| `ReordersAreHonoured` | a reorder shows the groups it lists in the order sent, and touches no other |
| `MergesFoldTheLoser` | a merge keeps what the loser stated, and nothing waits for it any more |
| `DropsLandOnTheirLine` | a card that is dropped lands between the rows painted above its line and those below, and these keep their order |
| `DropsMoveNoOtherCard` | an order built on the board as it is moves no card of another group, nor of its own if that was painted in full and by rank |
| `PruningAcyclic` | the repair in document order leaves an acyclic graph, for every order |
| `AcceptedWriteAcyclic` | edges accepted one by one leave the graph acyclic together |
| `LedgerStoreProofs!StoreTypeCorrect` | types of memory, cache, file and copies |
| `AnswersStayOnDisk` | unless the last write failed and said so, what the process answers is on disk |
| `RevisionsNameBoards` | a tab that shows the revision of the host shows its board, if it was on disk and no boot has started empty since |
| `CommittedIdsAreRecognised` | a committed request is recognised until its id is pushed out of the cache |
| `StoreKeepsBoards` | the store implements `KeptBoard`, if a file that is there can be read |
| `LedgerLockProofs!LockTypeCorrect` | types of the lock and of the steps of the hosts |
| `OneWriter` | undisturbed, two hosts never write one ledger |
| `TurnedAwayOnlyForCause` | undisturbed, a host is refused only for a live holder or a pid that came back, and gives up only when each attempt met yet another host's lock |
| `RunLifecycleProofs!RunTypeCorrect` | types of the runs, the tracker, the chains and the poll |
| `RunsAreFollowed` | a process that is not hasty follows every run it shows |
| `DirectRunsAreShown` | a direct run of record is shown running as long as its session runs |
| `CardMirrorProofs!MirrorTypeCorrect` | types of the rows, the chains and the cards |
| `NeverTwoCards` | an idea never has two cards |
| `QuietCardsAgreeAlways` | once its chain is empty a card is as its idea is, but for what is owed |
| `SettingsStoreProofs!SettingsTypeCorrect` | types of the document and of what is on its way |
| `RevisionsNameMaps` | a tab that holds the revision of the document shows its map |
| `FencedWritesAreSafe` | a fenced write replaces the map its tab was looking at |
| `BoardClientProofs!ClientTypeCorrect` | types of the board, the jobs, the open batch and the stack |
| `ReportsTell` | a job reports on every idea of its plan, and truly where nobody else wrote |
| `RunsLeaveNothingOpen` | a tag run leaves no archived idea open without saying so |
| `UndosPutBack` | an undo puts back what its action wrote, keeps off what others wrote since, and changes nothing else |
| `VirtualColumnProofs!WindowTypes` | types of the sizes, the views, the paint and the scrollers |
| `WindowInvariant` | a callback that is not due has nothing to do: the rows, the paint, the sizes and the view are up to date |
| `ViewportAlwaysFilled` | at rest every line of every viewport is covered by one card, and the list ends where its last row does |
| `ReaderAlwaysStays` | a mounted card that, at rest, grows or shrinks above the row a reader is at does not move that row |

They hold for every set of ids, workspaces, patches, imports, filters, requests,
boards, hosts, pids, tabs, models, columns, heights and viewports, for every
limit, cache, stack and overscan, and for any number of commits, sessions,
restarts, verbs, drags, undos, faults and events.

Assumptions. Each is named, stated in the module that declares the constants, and
evaluated by TLC: `IdsAssumption` (finitely many ids), `RelationLimitAssumption`,
`NoneAssumption` and `InputsAssumption` (types of the inputs) for the ledger;
`OrderAssumption` (each workspace is listed once, filters are sets of ids);
`StoreAssumption` (what a request does is an effect or a refusal, limits above 0),
`LockAssumption`, `RunAssumption`, `MirrorAssumption`, `SettingsAssumption`,
`ClientAssumption` (the markers are none of the values, the bounds have their
types, a tab has finitely many ideas), `WindowAssumption` (finitely many columns
and viewports, positive heights, a column shows an idea once and two columns never
the same one). Three theorems state more. `RelatesStaySymmetric` asks that a list
can hold every id, since the cap is how symmetry is lost; `NobodyIsItsOwnParent`
that no imported row is its own parent; `StoreKeepsBoards` that a file which is
there can be read, since a boot that cannot read a whole file sets it aside and
starts empty. SingleWriter, TurnedAwayForCause, the run and the settings
properties carry theirs in the formula (`Undisturbed`, `~hasty`, `overtaken`,
`~restarted`), and so does RevisionNamesBoard (`tab.of`).

The ledger. Types come first, and the other invariants use them. Liveness of
relations and acyclicity are inductive as they stand once one knows what the
repair returns, so they rest on lemmas about `Cleaned`, `Symmetrized`, `IsPruning`
and `WithRelatesTo`. For `PruningAcyclic`: take a loop in what is left and the
last of its rows in document order; when that row was visited the rest of the loop
was already as it ended, so its edge closed a loop and was dropped. Reachability
is defined by closed sets, which needs no recursion and no induction. Numbers need
the strengthening `NumbersBounded` (a row that is gone carries no number), and the
own-parent theorem needs `LiveMinted` (only an id that was minted is on the
board). The ranks need `PlacesDistinct`: ties are broken by the order of the
document, so two rows in one place would share a rank. A rank is one more than the
number of rows ahead, so a renumbered group keeps its order and takes every rank
once (`RerankedOrder`, `NumberingIsOnto`). A merge needs that a row nobody names
is never cut by the repair (`UnnamedKeepsList`).

The drops. What a sort, a filter and a concatenation return is usually proved by
induction over lists. Here a list is described by its members and by who precedes
whom: it is a `Listing` of a set, without repeats. Counting those that come before
takes the place of the induction (`Counting`, `SortedList`, `WithinList`), and a
concatenation, a fold in the library, is shown to exist and to unfold from the
set of lengths it can handle (`FlatList`, `FlatOrder`). An order that is posted is
then a listing of the board in which the painted mates keep their order around the
card (`LineKept`) and every other group is by rank (`RestByRank`); that is
`OrderSound`, for drops (`DropPostSound`, `ListPostSound`) and for steps
(`StepPostSound`). The inductive invariant `BoardInv` adds it to the types,
`LiveMinted` and `PlacesDistinct`: a post under way holds a sound order, whatever
board the tab has adopted since. The host ranks the rows it still has by their
index in that list, so any two of one group stand as they do in it
(`ServedInOrder`), and the step that serves the order shows both properties
(`OrderServes`).

The store. `AnswersAreOnDisk` is inductive on its own. RevisionNamesBoard needs
`TabInv`: a tab that shows what was on disk is `Behind` the memory and the file,
since a failed write leaves the memory ahead of the file and a crash takes it
back; a board that starts empty is ahead of no tab, which is why the tabs of
before are excepted. Request ids need `CacheInv`: a committed id is, in memory and
in the file, no further from the end of the list than ids were cached since; and
`FileFits`, that the ids in the file fit the cache they are read into. The
refinement maps what can be read from the file, the quarantine and the snapshot
folder to the copies of `KeptBoard`; every step of the store is then a `Start`, an
`Edit`, a `Save`, an `Adopt` or a `Restart` of it, or a stutter (`KeptStep`).

The lock. SingleWriter is not inductive: a host on its way in must know that
nobody else is. `LockInv` adds that, undisturbed, the marker on disk is that of
the owner (`OwnerMarked`), a host between directory and marker is alone in the
lock (`MakerAlone`), a marker is in a lock directory (`MarkerInLock`), a host
removes only a lock that is stale or its own (`RemovedIfStale`), and that only
live processes have hosts that take steps (`HostsLive`). Two owners would each
have to be the one the marker names. `CauseInv` counts for TurnedAwayForCause: a
host makes the directory at most once (`NotYetMaker`), a lock that is there was
made by some host (`MadeBySome`), and a host at attempt n has met n makers
(`AttemptsMet`).

Runs. RunsFollowed and DirectRunShown are proved by one invariant, `RunInv`. A
session is of one idea in all that remembers it: the row, its card, the poll, the
tracker, an answer to come (`OneOwner`); what is remembered of a card's session
was opened by the card (`CardsOwn`); a run that names no session is that of a card
the idea knows (`CardRunsBound`); what a roster says is over is over, and it lacks
no session that was tracked when it was read (`RosterTold`); once a process has
looked for the runs in flight, it tracks each direct run of record
(`DirectTracked`).

Cards. `MirrorInv` says of each idea what its chain still owes: a card, its text
or its column is right, or owed, or an operation in the chain will put it right
(`CardToCome`, `TextToCome`, `ColumnToCome`); archive and restore are queued in
the order of the columns (`MovesInOrder`); the operation at work read what is
still so, or an update behind it knows better (`WorkSound`); the card of an older
version is the only one (`LegacyAlone`). With an empty chain nothing is left but
agreement or debt. An operation on one idea touches no other, so the proof is for
one idea.

The settings. A request on its way carries the revision its tab still shows, since
a tab that saves waits for its answer (`Carried`); with RevisionNamesMap, a
request that passes the fence was built on the map that is replaced.

The tab. `ClientInv` says that each job is `Sound`: what it is done with is `Told`
truly, what is to come is as it was when the job began, and the idea at work is as
the steps served so far left it (`Reached`, `Working`), for every idea that others
did not write meanwhile (`spoilt`); what a bulk run plans has one of the few
shapes of `Fits`. A report is then true because it is written from such a state.

The undos. UndoPutsBack joins an action to the undo that may come much later, so
its invariant `UndoInv` goes by what an entry holds. An entry is `Honest` when the
items of each idea it is `Whole` for are the inverse of the deed (`Matches`): one
step per field, the first move settling the column, or one round trip. The open
batch is `Tallied` with what its run has done, and each job is `Mindful`: of an
idea it has not come to it knows that no verb of its own touched it, of the one at
work what it has written and which inverse it holds (`Poised`, `Captures`,
`Hears`). Three facts carry it. What is expected of a field is what the last verb
left in it (`MergedIsLeft`), so a drift is seen where there is one
(`DriftIsSeen`). The plan made of the snapshot leads from each row to what the
undo owes (`MatchesLeads`, `PlanPutsBack`): `Leads` says so by a path of rows, one
for each step, and each post advances one row along it (`LeadsOn`). And an item
more is the last of its idea and none of any other (`ItemsOfAppended`), which
takes the order of a set of numbers apart by ranks (`InOrderRanks`,
`InOrderGrows`). The code owes the last fact to arrays that only grow.

The windowed columns. `HookSound` says of each callback that is not due why it
would change nothing: without "rows" the hook has the rows of the board; without
"tick" the paint is what the sizes and the view make it; without "observe" each
mounted card is as high as its slot; and the view of a column without a scroll
event holds its scroll and its height. At rest that is all of it, and then every
line above the end of a list is in one slot (`OneSlot`) and the slots that meet
the viewport are in the range (`RangeShape`). Sums of heights are recursive
functions: `OffsetsDefined` and `SumDefined` show that they exist and unfold, by a
set of numbers that holds 0 and the successor of each of its members (`Counting`),
which needs no induction theorem. For ReaderStays, `ReadingSound` follows the one
card that took another height. Until the observer comes it is `Noted`: one mounted
card, above the row at the top, is not as high as its slot, all others are. The
observer then finds a difference in that column alone, since no other column
mounts the card; it is what the card grew by, and all of it lies above the anchor,
which is the row whose slot holds the top. From then on it is `MadeUp`: the row is
as far from the edge as it was, and what is measured later is as it was noted.
That a card is in one column is needed: with the same card mounted in two, each
scroller would be moved by the sum of both.

What the proofs found in the models. Six attempts failed because the statement
was false, and TLC showed it on a larger instance: with five hosts a host gives up
without a lock of long standing, so TurnedAwayForCause counts makers; with two
ideas a hasty process leaves a direct run to be told over by a card, so
`overtaken` holds such runs too; with three ideas a create that takes a deleted
card to be there leaves the idea without a card and nothing owed, so such a card
stays owed; an import whose rows repeat an id would have put two rows in one
place, where the code merges them; with four ids a card misses its line when the
row below it leaves the group between the two posts, so DropLands asks that the
line stands; and an entry that two overlapping undos had a hand in is not put
back, so UndoPutsBack asks that the entry is `Whole`. That last attempt also
showed that the property had said nothing of an undo of more than one post. The
models and the runs were corrected accordingly.

Only model-checked. ComesToRest: its bound is a claim about the instance, and
grows with the columns. Liveness under fairness (RunsSettle,
FinishedReachesReview, ChainsDrain, RunsEnd, CatchesUp) and `ENABLED` are beyond
the prover, and no module declares a RECURSIVE operator. The types of
`IdeasLedger`, `LedgerLock` and `SettingsStore` and NumbersIssued are proved, and
in no run.

## 5. Hazards

`PROJECT.json` lists them with the line where each bites. Those without a property
carry the reason; all are in `host-service.ts`:

- 676: the roster is read before an `await` and used after it; a session tracked
  in between is missing from it and its run is settled early (`overtaken`).
- 415: after a direct run has settled, the poll of cards writes the session and
  the status of an older card execution over it.
- 489: the launch cache is filled after the run has started, so a retry meanwhile
  starts another.
- 311: the poll timer does not wait for the pass before it.
- 628: the running stamp and the session are two commits.
- 655: which backend owns a run is guessed after a restart.

## 6. Not modelled, and what is left

Next, in this order: the request ids of launches and the queue of the browser that
retries them; a second poll in flight; the two stamps of a direct launch as two
steps; the inverse of a triage; the reveal of a deep link.

Not planned: rendering, styles and locale texts; routes and the parsing of
requests; agent tools; export; health statistics; wiring. They keep no state of
their own, and what the routes let through bounds the inputs of the verbs.
`client/session-queue.ts` only starts sessions and holds nothing between two
calls. `lib/` is the compiled output of the same source. Together these are by far
most of the lines of the repository, so the share that the models stand for is
small although most of the stateful logic is in them.
