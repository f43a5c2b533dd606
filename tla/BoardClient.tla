---------------------------- MODULE BoardClient ----------------------------
(***************************************************************************)
(* One tab of the board: the snapshot it shows, the verbs it posts, the    *)
(* bulk runs and the stack of inverses behind Ctrl+Z                       *)
(* (client/ideas-client.ts, refresh, run, undoLast; client/undo.ts;        *)
(* client/bulk.ts; client/bulk-bar.tsx, BulkDialog).                       *)
(*                                                                         *)
(* An idea is a column and a tag, the tag standing for every field of an   *)
(* update that has an inverse.  Everything the tab does is a job: a list   *)
(* of plan items, one per idea, whose steps are posted one at a time.  At  *)
(* the desk there is one at a time, an edit or a bulk dialog; each press   *)
(* of Ctrl+Z is one more, beside it.  Between a post, what the host does   *)
(* with it and the answer the host may serve anybody else, and the polls   *)
(* of the tab may be answered.                                             *)
(***************************************************************************)
EXTENDS Integers, Sequences, SequencesExt, FiniteSets, FiniteSetsExt, TLC

CONSTANTS
    Ideas,
    Bound,          \* those with a card on the task board
    Undos,          \* how many undos may run at once
    None,
    FirstBoards,    \* the boards a behaviour may begin with
    StackLimit,     \* UNDO_STACK_LIMIT
    MaxEvents       \* bound on the jobs and on what goes wrong: answers that are
                    \* lost or late, writes of others, documents set aside

ASSUME ClientAssumption ==
    /\ IsFiniteSet(Ideas) /\ Bound \subseteq Ideas /\ Undos \in Nat
    /\ FirstBoards \subseteq [Ideas -> [status : {"open", "underReview", "archived"}, tag : {"bare", "tagged"}]]
    /\ StackLimit \in Nat \ {0} /\ MaxEvents \in Nat

VARIABLES
    \* the host
    rows,
    revision,
    \* the tab
    snapshot,       \* the board it shows
    poll,           \* the answer of a poll, on its way
    jobs,
    undoing,
    batch,          \* the items of the batch that is open
    stack,
    undoKey,        \* the entry of the bulk run the dialog reports on
    \* history
    started,        \* jobs
    faults,
    restarted       \* the revisions have started again

vars == <<rows, revision, snapshot, poll, jobs, undoing, batch, stack, undoKey,
          started, faults, restarted>>

Columns == {"open", "underReview", "archived"}
Tags == {"bare", "tagged"}
Row == [status : Columns \cup {"declined"}, tag : Tags]
Gone == [status |-> "gone", tag |-> "gone"]
Boards == [Ideas -> Row \cup {Gone}]
Desk == 0
Slots == Desk..Undos
Kinds == {"none", "edit", "tag", "archive", "restore", "undo"}
Results == {"none", "applied", "skipped", "failed", "rearchived", "leftOpen"}

Restore == [verb |-> "restore", to |-> "open"]
MoveTo(column) == [verb |-> "move", to |-> column]
SetTag(tag) == [verb |-> "update", to |-> tag]
Steps == {Restore} \cup {MoveTo(column) : column \in Columns} \cup {SetTag(tag) : tag \in Tags}

Field(step) == IF step.verb = "update" THEN "tag" ELSE "status"

View == [revision |-> revision, rows |-> rows]
Views == [revision : Nat, rows : Boards]

\* An item of an undo entry, and a batch of them that is open.
Expectations == UNION {[F -> Columns \cup {"declined"} \cup Tags] : F \in SUBSET {"status", "tag"}}
Items == [id : Ideas, steps : Seq(Steps) \ {<<>>}, round : BOOLEAN, expect : Expectations,
          by : Kinds]
Batches == [key : Nat, items : Seq(Items)]

\* What a job did to an idea: from what to what, and whether an inverse was kept
\* of all of it.
KnownDeeds == [was : Row \cup {Gone}, is : Row \cup {Gone}, wrote : SUBSET {"status", "tag"},
               noted : BOOLEAN]

\* No answer, no batch, no job and no deed are told from any other.
ASSUME NoneAssumption ==
    None \notin Views /\ None \notin Batches /\ None \notin Slots /\ None \notin KnownDeeds

----------------------------------------------------------------------------
(* Plans and inverses: pure functions of the row they are given.           *)

\* updateSteps, with needsMirrorRoundTrip: the card of an archived idea is
\* read-only, so the update goes through the open column.
UpdateSteps(i, row, tag) ==
    IF row.status = "archived" /\ i \in Bound
    THEN <<Restore, SetTag(tag), MoveTo("archived")>>
    ELSE <<SetTag(tag)>>

RoundTrip(steps) == \E n \in DOMAIN steps : steps[n] = Restore

Planned(i, steps) == [id |-> i, steps |-> steps, round |-> RoundTrip(steps)]

\* invertUpdate, and invertColumn: to the column the idea came from.
InverseSteps(i, row, step) ==
    IF step.verb = "update" THEN UpdateSteps(i, row, row.tag) ELSE <<MoveTo(row.status)>>

Invertible(row, step) ==
    /\ row # Gone
    /\ step.verb # "update" => row.status # "declined"

\* undoExpectationOf: what the action left in the fields the inverse writes.
Expectation(steps, after) ==
    [f \in {Field(steps[n]) : n \in DOMAIN steps} |-> after[f]]

\* planBulkTag and planBulkArchive, for one of the ideas selected.
BulkSteps(kind, i, row) ==
    CASE row.status = "declined" -> <<>>
      [] row.status # "declined" /\ kind = "tag" ->
            IF row.tag = "tagged" THEN <<>> ELSE UpdateSteps(i, row, "tagged")
      [] OTHER -> IF row.status = "archived" THEN <<>> ELSE <<MoveTo("archived")>>

BulkPlan(kind, chosen) ==
    [n \in DOMAIN chosen |->
        Planned(chosen[n], BulkSteps(kind, chosen[n], snapshot.rows[chosen[n]]))]

Guarded(items) == UNION {DOMAIN items[n].expect : n \in DOMAIN items}

\* A slip: the first verb that wrote a field settles what is expected of it.
FirstExpectation(items) ==
    [f \in Guarded(items) |->
        items[Min({n \in DOMAIN items : f \in DOMAIN items[n].expect})].expect[f]]

\* mergedExpectation: of each field, what the last verb that wrote it left.
MergedExpectation(items) ==
    [f \in Guarded(items) |->
        items[Max({n \in DOMAIN items : f \in DOMAIN items[n].expect})].expect[f]]

\* undoDriftedFields.
Drifted(expect, row) == \E f \in DOMAIN expect : row[f] # expect[f]

\* reboundPlan: what is replayed of an item.  The first one that moves the idea
\* settles its column, and an update goes through the archive as the row now asks.
Moves(item) == item.round \/ Head(item.steps).verb # "update"

Replayed(i, items, n, row) ==
    IF items[n].round THEN items[n].steps
    ELSE IF ~Moves(items[n]) THEN UpdateSteps(i, row, Head(items[n].steps).to)
    ELSE IF Head(items[n].steps).to = row.status \/ \E m \in 1..(n - 1) : Moves(items[m])
    THEN <<>> ELSE items[n].steps

Rebound(i, items, row) == FlattenSeq([n \in DOMAIN items |-> Replayed(i, items, n, row)])

\* The numbers of a set, from the least.
InOrder(S) ==
    [n \in 1..Cardinality(S) |-> CHOOSE m \in S : Cardinality({k \in S : k <= m}) = n]

ItemsOf(entry, i) ==
    LET of == InOrder({n \in DOMAIN entry.items : entry.items[n].id = i})
    IN  [n \in DOMAIN of |-> entry.items[of[n]]]

\* The ideas of an entry, in the order in which they first come.
IdeasOf(entry) ==
    LET first == InOrder({n \in DOMAIN entry.items :
                             \A m \in 1..(n - 1) : entry.items[m].id # entry.items[n].id})
    IN  [n \in DOMAIN first |-> entry.items[first[n]].id]

\* planUndo: an idea that drifted gets no step.
UndoPlan(entry) ==
    LET order == IdeasOf(entry)
        PlanFor(i) ==
            LET items == ItemsOf(entry, i)
                row == snapshot.rows[i]
            IN  Planned(i, IF Drifted(MergedExpectation(items), row)
                           THEN <<>> ELSE Rebound(i, items, row))
    IN  [n \in DOMAIN order |-> PlanFor(order[n])]

----------------------------------------------------------------------------
(* Jobs.                                                                   *)

\* spoilt: the ideas somebody else wrote, or that were not as shown, while the
\* job ran; blind: those whose restore was done and its answer lost; start: the
\* board when it began; deed: what it is known to have done to an idea, and
\* whether an inverse was kept of all of it.
Idle ==
    [kind |-> "none", phase |-> "idle", plan |-> <<>>, step |-> 1,
     inverse |-> None, reply |-> None, mark |-> None,
     report |-> [i \in Ideas |-> "none"],
     entry |-> None, start |-> None, spoilt |-> {}, blind |-> {},
     deed |-> [i \in Ideas |-> None]]

\* What is left of a job that is over: its report.
Over(job) ==
    [Idle EXCEPT !.phase = "done", !.kind = job.kind, !.report = job.report]

Busy(j) == jobs[j].phase \in {"posted", "served"}

\* The idea and the step of the post of a job; 0 is the move that puts back in
\* the archive what a failed round trip left open.
Target(job) == Head(job.plan).id
StepOf(job) == IF job.step = 0 THEN MoveTo("archived") ELSE Head(job.plan).steps[job.step]

\* captureUndo, from the snapshot shown when the post is made.
Captured(job, shown, quiet) ==
    LET row == shown.rows[Target(job)]
    IN  IF quiet \/ ~Invertible(row, StepOf(job)) THEN None
        ELSE Planned(Target(job), InverseSteps(Target(job), row, StepOf(job)))

Posts(job, shown, quiet) ==
    [job EXCEPT !.phase = "posted",
        !.inverse = Captured(job, shown, quiet),
        !.spoilt = IF job.kind # "undo" /\ shown.rows[Target(job)] # rows[Target(job)]
                   THEN @ \cup {Target(job)} ELSE @]

\* runBulkPlan: the job goes on to the next idea that has steps, and reports
\* the ones before it as skipped.
Proceeds(job, shown, quiet) ==
    LET todo == {n \in DOMAIN job.plan : job.plan[n].steps # <<>>}
        first == IF todo = {} THEN Len(job.plan) + 1 ELSE Min(todo)
        passed == {job.plan[n].id : n \in 1..(first - 1)}
        next == [job EXCEPT !.step = 1,
                    !.plan = SubSeq(@, first, Len(@)),
                    !.report = [i \in Ideas |-> IF i \in passed THEN "skipped" ELSE @[i]]]
    IN  IF todo = {} THEN Over(next)
        ELSE Posts(next, shown, quiet)

\* The idea at work is settled, and the next one is begun.
Settles(job, result, shown, quiet) ==
    Proceeds([job EXCEPT !.report[Target(job)] = result, !.plan = Tail(@)], shown, quiet)

\* runPlanItem, after an answer that is not an error.
Continues(job, shown, quiet) ==
    CASE job.step = 0 -> Settles(job, "rearchived", shown, quiet)
      [] job.step = Len(Head(job.plan).steps) -> Settles(job, "applied", shown, quiet)
      [] OTHER -> Posts([job EXCEPT !.step = @ + 1], shown, quiet)

\* A slip: a round trip that fails is left where it stands.
GivesUpItem(job, shown, quiet) == Settles(job, "failed", shown, quiet)

\* A slip: the first failure ends the run.
Aborts(job, shown, quiet) ==
    Over([job EXCEPT !.report[Target(job)] = "failed"])

\* A slip: a step that failed is posted again.
Retries(job, shown, quiet) == Posts(job, shown, quiet)

\* runPlanItem, after an error: a round trip past its restore puts the idea
\* back in the archive.
Recovers(job, shown, quiet) ==
    CASE job.step = 0 -> Settles(job, "leftOpen", shown, quiet)
      [] job.step = 1 \/ (job.step # 0 /\ ~Head(job.plan).round) ->
            Settles(job, "failed", shown, quiet)
      [] OTHER -> Posts([job EXCEPT !.step = 0], shown, quiet)

\* The deeds of a job that are known for sure.
Known(job) == [i \in Ideas |-> IF i \in job.spoilt THEN None ELSE job.deed[i]]

\* A slip: the stack grows past its limit by one.
PushedPast(entries, entry) ==
    LET all == Append(entries, entry)
    IN  SubSeq(all, Max({1, Len(all) - StackLimit}), Len(all))

\* pushUndoEntry.
Pushed(entries, entry) ==
    LET all == Append(entries, entry)
    IN  SubSeq(all, Max({1, Len(all) - StackLimit + 1}), Len(all))

\* discardUndoBatch: the entry goes if it is the newest.
Discarded(entries, key) ==
    IF key # None /\ entries # <<>> /\ Last(entries).key = key
    THEN Front(entries) ELSE entries

\* What the job leaves of the batch, the stack and the flag when it is over.
\* An undo takes the flag away, whoever else is still undoing.
Becomes(j, job, deed, quiet, open, entries) ==
    /\ jobs' = [jobs EXCEPT ![j] = job]
    /\ undoing' = (quiet /\ ~(job.kind = "undo" /\ job.phase = "done"))
    /\ IF job.kind \in {"tag", "archive"} /\ job.phase = "done"
       THEN /\ batch' = None
            /\ IF open.items = <<>>
               THEN stack' = entries /\ undoKey' = None
               ELSE /\ stack' = Pushed(entries, [key |-> open.key, by |-> job.kind,
                                     items |-> open.items, deed |-> deed])
                    /\ undoKey' = open.key
       ELSE /\ batch' = open
            /\ undoKey' = undoKey
            /\ stack' = IF job.kind = "restore" /\ job.phase = "done"
                        THEN Discarded(entries, undoKey) ELSE entries

\* A job, or what goes wrong, uses one of the events of a behaviour.
Starting == started + faults < MaxEvents /\ started' = started + 1
Faulty == started + faults < MaxEvents /\ faults' = faults + 1

Starts(j, job, quiet, open, entries) ==
    /\ Starting
    /\ Becomes(j, Proceeds([job EXCEPT !.start = rows,
                       !.spoilt = {i \in Ideas : snapshot.rows[i] # rows[i]}], snapshot, quiet),
               Idle.deed, quiet, open, entries)
    /\ UNCHANGED <<rows, revision, snapshot, poll, faults, restarted>>

----------------------------------------------------------------------------
(* The desk.                                                               *)

\* One verb, from the detail of an idea or by a drag.
Edit(i, step) ==
    /\ ~Busy(Desk)
    /\ LET row == snapshot.rows[i]
       IN  /\ row # Gone
           /\ CASE step.verb = "update" -> step.to # row.tag
                [] step.verb = "move" -> row.status \notin {"declined", step.to}
                [] OTHER -> row.status # "open"
    /\ Starts(Desk, [Idle EXCEPT !.kind = "edit",
                 !.plan = <<[id |-> i, steps |-> <<step>>, round |-> FALSE]>>],
              undoing, batch, stack)

\* apply of the bulk dialog: the whole run is one entry.
Bulk(kind, chosen) ==
    /\ ~Busy(Desk)
    /\ \A i \in chosen : snapshot.rows[i] # Gone
    /\ Starts(Desk, [Idle EXCEPT !.kind = kind, !.plan = BulkPlan(kind, SetToSeq(chosen))],
              undoing, [key |-> started + 1, items |-> <<>>], stack)

\* undo of the bulk dialog: what the report says it archived is restored, by
\* verbs that are captured like any other.
RestoreArchived ==
    /\ jobs[Desk].phase = "done" /\ jobs[Desk].kind = "archive"
    /\ LET applied == {i \in Ideas : jobs[Desk].report[i] = "applied" /\ snapshot.rows[i] # Gone}
           order == SetToSeq(applied)
       IN  /\ applied # {}
           /\ Starts(Desk, [Idle EXCEPT !.kind = "restore",
                        !.plan = [n \in DOMAIN order |-> Planned(order[n], <<Restore>>)]],
                     undoing, batch, stack)

\* Ctrl+Z: undoLast, up to its first post.  It is not refused while another
\* undo runs.
Undo(u) ==
    /\ ~Busy(u) /\ \A w \in 1..(u - 1) : Busy(w)
    /\ stack # <<>>
    /\ Starts(u, [Idle EXCEPT !.kind = "undo", !.plan = UndoPlan(Last(stack)), !.entry = Last(stack)],
              TRUE, batch, Front(stack))

\* The oldest entry is 30 minutes old.
Expire ==
    /\ stack # <<>>
    /\ stack' = Tail(stack)
    /\ UNCHANGED <<rows, revision, snapshot, poll, jobs, undoing, batch, undoKey, started, faults,
                   restarted>>

----------------------------------------------------------------------------
(* Posts and answers.                                                      *)

\* What the verb makes of the row, and whether it is a commit.
Written(row, step) == [row EXCEPT ![Field(step)] = step.to]
Commits(row, step) == step.verb = "update" \/ Written(row, step) # row

\* The ideas that changed are spoilt for every job but the one that wrote them.
Spoils(changed, writer, job) ==
    [k \in Slots |->
        IF k = writer THEN job
        ELSE IF Busy(k) THEN [jobs[k] EXCEPT !.spoilt = @ \cup changed] ELSE jobs[k]]

\* The host runs the verb of a post and answers, or the post fails: before the
\* verb, or after it.
Serve(j) ==
    /\ jobs[j].phase = "posted"
    /\ LET job == jobs[j]
           i == Target(job)
           row == rows[i]
           Runs == /\ row # Gone
                   /\ rows' = [rows EXCEPT ![i] = Written(row, StepOf(job))]
                   /\ revision' = IF Commits(row, StepOf(job)) THEN revision + 1 ELSE revision
           Answers(reply, blind) ==
               jobs' = Spoils(IF rows'[i] # row THEN {i} ELSE {}, j,
                   [job EXCEPT !.phase = "served", !.reply = reply, !.blind = blind,
                               !.mark = [was |-> row, is |-> rows'[i]]])
       IN  \/ /\ Runs
              /\ faults' = faults
              /\ Answers([revision |-> revision', rows |-> rows'], job.blind)
           \/ /\ row = Gone \/ Faulty
              /\ row = Gone => faults' = faults
              /\ UNCHANGED <<rows, revision>>
              /\ Answers(None, job.blind)
           \/ /\ Runs
              /\ Faulty
              /\ Answers(None, IF Head(job.plan).round /\ job.step = 1
                               THEN job.blind \cup {i} ELSE job.blind)
    /\ UNCHANGED <<snapshot, poll, undoing, batch, stack, undoKey, started, restarted>>

\* A slip: only a snapshot with a larger revision is adopted.
AdoptedIfNewer(fresh) == IF fresh.revision > snapshot.revision THEN fresh ELSE snapshot

\* adopt: any other revision, an older one too.
Adopted(fresh) == IF fresh.revision = snapshot.revision THEN snapshot ELSE fresh

\* commitUndo: the inverse of a post is kept, with what its verb left, unless
\* an undo runs.
Keeps(job) == ~undoing /\ job.inverse # None /\ job.reply.rows[Target(job)] # Gone

ItemKept(job) ==
    [id |-> Target(job), steps |-> job.inverse.steps, round |-> job.inverse.round,
     expect |-> Expectation(job.inverse.steps, job.reply.rows[Target(job)]), by |-> job.kind]

\* What a job has done to the idea, when its answer comes.
Done(job) ==
    LET deed == job.deed[Target(job)]
        fields == {Field(StepOf(job))}
    IN  [job EXCEPT !.deed[Target(job)] =
            IF deed = None
            THEN [was |-> job.mark.was, is |-> job.mark.is, wrote |-> fields, noted |-> Keeps(job)]
            ELSE [deed EXCEPT !.is = job.mark.is, !.wrote = @ \cup fields, !.noted = @ /\ Keeps(job)]]

\* run, when the answer is there: the snapshot is adopted, the inverse goes to
\* the open batch or on the stack, and the job goes on.
Answered(j) ==
    /\ jobs[j].phase = "served" /\ jobs[j].reply # None
    /\ LET job == Done(jobs[j])
           keeps == Keeps(jobs[j])
           item == ItemKept(jobs[j])
           shown == Adopted(job.reply)
           open == IF keeps /\ batch # None
                   THEN [batch EXCEPT !.items = Append(@, item)] ELSE batch
           entries == IF keeps /\ batch = None
                      THEN Pushed(stack, [key |-> None, by |-> job.kind, items |-> <<item>>,
                              deed |-> [k \in Ideas |-> IF k = item.id THEN Known(job)[k] ELSE None]])
                      ELSE stack
       IN  /\ snapshot' = shown
           /\ Becomes(j, Continues([job EXCEPT !.reply = None, !.mark = None], shown, undoing),
                      Known(job), undoing, open, entries)
    /\ UNCHANGED <<rows, revision, poll, started, faults, restarted>>

\* run, when the answer is an error, or none comes.
Refused(j) ==
    /\ jobs[j].phase = "served" /\ jobs[j].reply = None
    /\ Becomes(j, Recovers([jobs[j] EXCEPT !.mark = None], snapshot, undoing),
               Known(jobs[j]), undoing, batch, stack)
    /\ UNCHANGED <<rows, revision, snapshot, poll, started, faults, restarted>>

\* refresh: the host answers, and later the answer is there or is lost.  A poll
\* that finds nothing new matters when its answer is late, after that of a post:
\* it counts among what goes wrong.
Poll ==
    /\ poll = None
    /\ IF View # snapshot THEN faults' = faults
       ELSE Faulty /\ \E j \in Slots : Busy(j)
    /\ poll' = View
    /\ UNCHANGED <<rows, revision, snapshot, jobs, undoing, batch, stack, undoKey, started,
                   restarted>>

PollAnswered ==
    /\ poll # None
    /\ poll' = None
    /\ \/ snapshot' = Adopted(poll) /\ faults' = faults
       \/ snapshot' = snapshot /\ Faulty
    /\ UNCHANGED <<rows, revision, jobs, undoing, batch, stack, undoKey, started, restarted>>

\* Another tab, an agent or the host itself changes an idea, deletes it, or
\* brings one to the board: a capture, an import, a restore.
Other(i, row) ==
    /\ Faulty
    /\ rows[i] # row
    /\ Gone \in {rows[i], row} \/ \E f \in DOMAIN row : row[f] = rows[i][f]
    /\ rows' = [rows EXCEPT ![i] = row]
    /\ revision' = revision + 1
    /\ jobs' = Spoils({i}, None, None)
    /\ UNCHANGED <<snapshot, poll, undoing, batch, stack, undoKey, started, restarted>>

\* The host sets an unreadable document aside and starts again at revision 0.
Quarantine ==
    /\ Faulty
    /\ rows' = [i \in Ideas |-> Gone]
    /\ revision' = 0
    /\ restarted' = TRUE
    /\ jobs' = Spoils(Ideas, None, None)
    /\ UNCHANGED <<snapshot, poll, undoing, batch, stack, undoKey, started>>

Init ==
    /\ rows \in FirstBoards
    /\ revision = 1
    /\ snapshot = View /\ poll = None
    /\ jobs = [j \in Slots |-> Idle]
    /\ undoing = FALSE /\ batch = None
    /\ stack = <<>> /\ undoKey = None
    /\ started = 0 /\ faults = 0 /\ restarted = FALSE

JobStep(j) == Serve(j) \/ Answered(j) \/ Refused(j)

Next ==
    \/ \E i \in Ideas, step \in Steps : Edit(i, step)
    \/ \E kind \in {"tag", "archive"}, chosen \in SUBSET Ideas \ {{}} : Bulk(kind, chosen)
    \/ RestoreArchived
    \/ \E u \in 1..Undos : Undo(u)
    \/ \E j \in Slots : JobStep(j)
    \/ Expire \/ Poll \/ PollAnswered \/ Quarantine
    \/ \E i \in Ideas, row \in Row \cup {Gone} : Other(i, row)

Spec == Init /\ [][Next]_vars

\* The board is open: the timer polls, and a post is answered or times out.
Fairness ==
    /\ WF_vars(Poll) /\ WF_vars(PollAnswered)
    /\ \A j \in Slots : WF_vars(JobStep(j))

FairSpec == Spec /\ Fairness

----------------------------------------------------------------------------
(* What the tab owes its author, and everybody else.                       *)

Finishes(j) == Busy(j) /\ jobs'[j].phase = "done"

\* What an entry holds of an idea is all that one action did to it, with nothing
\* that an undo did.
Whole(entry, i) ==
    LET items == ItemsOf(entry, i)
    IN  items # <<>> =>
            /\ entry.deed[i] # None /\ entry.deed[i].noted
            /\ \A n \in DOMAIN items : items[n].by # "undo"

\* What an undo makes of an idea: what the action wrote is as it was before,
\* if every field the inverse goes through still holds what the action left;
\* the rest is as the undo found it.
Undone(entry, start, i) ==
    LET deed == entry.deed[i]
        items == ItemsOf(entry, i)
        intact == \A f \in Guarded(items) : start[f] = deed.is[f]
    IN  IF items # <<>> /\ intact
        THEN [f \in DOMAIN start |-> IF f \in deed.wrote THEN deed.was[f] ELSE start[f]]
        ELSE start

\* An undo is one write of the fields its action wrote, however many verbs
\* either took: it puts back what was there before the action, keeps off an
\* idea that somebody else has written since, and changes nothing else.  (Not
\* promised of an idea that is written by another, or not as shown, while the
\* action or the undo runs, nor of one whose post fails during the undo, nor
\* where the action and another undo got in each other's way.)
UndoPutsBack ==
    [][\A u \in 1..Undos : Finishes(u) =>
          LET job == jobs[u]
          IN  \A i \in Ideas \ job.spoilt :
                 /\ jobs'[u].report[i] \in {"none", "applied", "skipped"}
                 /\ Whole(job.entry, i)
                 => rows'[i] = Undone(job.entry, job.start[i], i)]_vars

\* A job reports on each of its ideas, and says what became of it: applied,
\* untouched, or back in the archive.  (Not of an idea that is written by
\* another, or not as shown, while the job runs.)
Tells(job, result, i, row) ==
    /\ result \in {"none", "skipped"} => row = job.start[i]
    /\ result = "rearchived" => row.status = "archived"
    /\ result = "applied" /\ job.kind = "tag" => row = [job.start[i] EXCEPT !.tag = "tagged"]
    /\ result = "applied" /\ job.kind = "archive" => row = [job.start[i] EXCEPT !.status = "archived"]

ReportTells ==
    [][\A j \in Slots : Finishes(j) =>
          /\ \A n \in DOMAIN jobs[j].plan : jobs'[j].report[jobs[j].plan[n].id] # "none"
          /\ \A i \in Ideas \ jobs[j].spoilt :
                Tells(jobs[j], jobs'[j].report[i], i, rows'[i])]_vars

\* An archived idea that a tag run leaves in the open backlog without a word.
OpenByAccident(i) ==
    /\ jobs[Desk].kind = "tag"
    /\ jobs[Desk].start[i].status = "archived" /\ rows'[i].status = "open"
    /\ jobs'[Desk].report[i] # "leftOpen"

\* A tag run does not leave an archived idea open without a word ("a bulk tag
\* can never leave an archived backlog open by accident").  (Not promised of an
\* idea whose restore was done and its answer lost: the run takes it for refused.)
NothingElseLeftOpen ==
    [][\A i \in Ideas : Finishes(Desk) /\ i \notin jobs[Desk].spoilt \cup jobs[Desk].blind
          => ~OpenByAccident(i)]_vars

\* No entry of the stack would take back what an undo, or the restore button of
\* the bulk dialog, has done ("a second press cannot undo the first undo").
UndoneStaysUndone == \A n \in DOMAIN stack : stack[n].by \notin {"undo", "restore"}

\* Every run ends, whatever fails on its way, and its author gets the report.
RunsEnd == \A j \in Slots : Busy(j) ~> ~Busy(j)

\* The tab ends up showing the board of the host, after a late answer and after
\* the revisions have started again.  (Not promised where they have, and are back
\* at the very revision the tab shows: it takes the new board for the one it has,
\* and keeps that until the next commit.)
CatchesUp == <>[](snapshot = View \/ (restarted /\ snapshot.revision = revision))

\* Types, and what goes together: a busy job has a plan, an undo that is noted
\* runs, a batch is open only while its run is, the stack keeps to its limit.
TypeOK ==
    /\ rows \in Boards /\ revision \in Nat
    /\ snapshot.rows \in Boards /\ snapshot.revision \in Nat
    /\ poll # None => poll.rows \in Boards /\ poll.revision \in Nat
    /\ \A j \in Slots :
          /\ jobs[j].phase \in {"idle", "posted", "served", "done"}
          /\ jobs[j].kind \in Kinds
          /\ Busy(j) <=> jobs[j].plan # <<>>
          /\ Busy(j) => jobs[j].step \in 0..Len(Head(jobs[j].plan).steps)
          /\ jobs[j].report \in [Ideas -> Results]
    /\ undoing => \E u \in 1..Undos : Busy(u)
    /\ batch # None <=> jobs[Desk].kind \in {"tag", "archive"} /\ Busy(Desk)
    /\ Len(stack) <= StackLimit
    /\ started \in 0..MaxEvents /\ faults \in 0..MaxEvents /\ restarted \in BOOLEAN

=============================================================================
