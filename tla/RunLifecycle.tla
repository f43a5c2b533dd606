---------------------------- MODULE RunLifecycle ----------------------------
(***************************************************************************)
(* An idea's run: the launch that starts it on the idea's task card or in  *)
(* a fresh session, the poll that notices its end, and the restart of the  *)
(* host in between (host-service.ts, session-runner.ts,                    *)
(* taskboard-bridge.ts).                                                   *)
(*                                                                         *)
(* The host is one thread: a handler runs to its next await and no other   *)
(* handler runs meanwhile.  An await is a step of the outside world (a     *)
(* session is created, a card is asked to run, a snapshot or a roster is   *)
(* read) followed, any time later, by the step that uses its answer.       *)
(*                                                                         *)
(* Every write of the ledger is taken to reach the disk (see LedgerStore). *)
(* The observed card status, the delivery note and the activity log are    *)
(* left out: they are shown, and decide nothing here.  So are the ids of   *)
(* launch requests: a replay that finds its answer changes nothing, and    *)
(* one that does not is one more launch.                                   *)
(***************************************************************************)
EXTENDS Integers

CONSTANTS
    Ideas,
    None,
    Backends,       \* what the deployment has: "card", "session"
    Callers,        \* who asks for launches: "board", "agent"
    MaxSessions,    \* bound on the sessions ever opened
    MaxCrashes,     \* bound on the restarts
    MaxQueue        \* bound on the launches queued for one idea

ASSUME RunAssumption ==
    /\ None \notin Ideas
    /\ Backends \subseteq {"card", "session"} /\ Backends # {}
    /\ Callers \subseteq {"board", "agent"}
    /\ MaxSessions \in Nat \ {0}
    /\ MaxCrashes \in Nat
    /\ MaxQueue \in Nat \ {0}

VARIABLES
    \* the ledger
    status,         \* the column: open or underReview
    runStatus,
    runSession,     \* 0 = none
    bound,          \* the ideas that know their card
    \* the host process
    up,
    sessionRuns,    \* the direct runs in flight: session |-> idea
    sessionRunsReattached,
    launches,       \* how many launches wait on each idea's chain
    answer,         \* what came back for the first of them
    polling,        \* where the poll is
    statuses,       \* the board it read; None if the board did not answer
    roster,         \* the sessions it read
    snapshotTasks,  \* the last board snapshot, until the direct runs are known
    \* the outside
    card,           \* the status of each idea's card
    cardSession,    \* the session of its last execution, 0 = none
    session,
    cardRuns,       \* the sessions opened by cards
    crashes,
    \* history, for the properties
    hasty,          \* this process ran a session before its first poll
    overtaken       \* the sessions tracked while an older roster was at hand,
                    \* and those in flight that a hasty process never looks for

ledger == <<status, runStatus, runSession, bound>>
poll == <<polling, statuses, roster, snapshotTasks>>
tracker == <<sessionRuns, sessionRunsReattached>>
chains == <<launches, answer>>
outside == <<card, cardSession, session, cardRuns>>
history == <<crashes, hasty, overtaken>>
vars == <<ledger, up, tracker, chains, poll, outside, history>>

RunStatuses == {"none", "running", "done", "failed"}
CardStatuses == {"none", "backlog", "running", "done", "failed"}
SessionStates == {"unborn", "running", "idle", "gone"}

\* Session ids, in the order the sessions are opened.
Sessions == 1..MaxSessions

Pointers == [Ideas -> 0..MaxSessions]
Boards == [status : [Ideas -> CardStatuses], session : Pointers]
Rosters == [Sessions -> SessionStates]

\* Types of the rows, the tracked runs and what is on its way: a status of the
\* task board reaches an idea as a run status only.
TypeOK ==
    /\ status \in [Ideas -> {"open", "underReview"}]
    /\ runStatus \in [Ideas -> RunStatuses]
    /\ runSession \in Pointers
    /\ bound \subseteq Ideas
    /\ up \in BOOLEAN
    /\ sessionRuns \in [Sessions -> Ideas \cup {None}]
    /\ sessionRunsReattached \in BOOLEAN
    /\ launches \in [Ideas -> 0..MaxQueue]
    /\ answer \in [Ideas -> [end : {"none", "card", "session", "down", "refused"},
                            session : 0..MaxSessions]]
    /\ polling \in {"idle", "card", "cardRead", "session", "sessionRead"}
    /\ statuses \in Boards \cup {None}
    /\ roster \in Rosters \cup {None}
    /\ snapshotTasks \in Pointers \cup {None}
    /\ card \in [Ideas -> CardStatuses]
    /\ cardSession \in Pointers
    /\ session \in [Sessions -> SessionStates]
    /\ cardRuns \subseteq Sessions
    /\ crashes \in 0..MaxCrashes
    /\ hasty \in BOOLEAN
    /\ overtaken \subseteq Sessions

Answer(end) == [end |-> end, session |-> 0]

\* What a process starts with.
NoRuns == [s \in Sessions |-> None]
NoLaunches == [i \in Ideas |-> 0]
NoAnswers == [i \in Ideas |-> Answer("none")]

Init ==
    /\ status = [i \in Ideas |-> "open"]
    /\ runStatus = [i \in Ideas |-> "none"]
    /\ runSession = [i \in Ideas |-> 0]
    /\ bound = {}
    /\ up = TRUE
    /\ sessionRuns = NoRuns /\ sessionRunsReattached = FALSE
    /\ launches = NoLaunches /\ answer = NoAnswers
    /\ polling = "idle" /\ statuses = None /\ roster = None /\ snapshotTasks = None
    /\ card = [i \in Ideas |-> "none"]
    /\ cardSession = [i \in Ideas |-> 0]
    /\ session = [s \in Sessions |-> "unborn"]
    /\ cardRuns = {}
    /\ crashes = 0 /\ hasty = FALSE /\ overtaken = {}

----------------------------------------------------------------------------
(* The launch.                                                             *)

\* The board offers a launch on an open idea with no run in flight, and one at
\* a time.  The host asks nothing of the kind of an agent.
CanLaunch(i) ==
    \/ "board" \in Callers
       /\ status[i] = "open" /\ runStatus[i] # "running" /\ launches[i] = 0
    \/ "agent" \in Callers

\* launchIdea, up to the chain of the idea.
Launch(i) ==
    /\ up
    /\ CanLaunch(i)
    /\ launches[i] < MaxQueue
    /\ launches' = [launches EXCEPT ![i] = @ + 1]
    /\ UNCHANGED <<ledger, up, tracker, answer, poll, outside, history>>

\* What a handler that read the board leaves for reattachSessionRuns, its only
\* reader that reads no board of its own.
Remembered == IF sessionRunsReattached THEN None ELSE cardSession

\* launchTask: the card is created if it is missing, and asked to run.  The
\* board runs it, and its answer may be lost; it refuses; it says that it is
\* switched off; or it is not there.
AskCard(i) ==
    LET answered(end) == answer' = [answer EXCEPT ![i] = Answer(end)]
        down == IF "session" \in Backends THEN "down" ELSE "refused"
        created == [card EXCEPT ![i] = IF @ = "none" THEN "backlog" ELSE @]
    IN  /\ up /\ launches[i] > 0 /\ answer[i].end = "none"
        /\ "card" \in Backends
        /\ \/ /\ card[i] \in {"none", "backlog", "failed"}
              /\ card' = [card EXCEPT ![i] = "running"]
              /\ snapshotTasks' = Remembered
              /\ \E end \in {"card", "refused"} : answered(end)
           \/ card' = created /\ snapshotTasks' = Remembered /\ answered("refused")
           \/ card' = card /\ snapshotTasks' = Remembered /\ answered(down)
           \/ card' = card /\ snapshotTasks' = snapshotTasks /\ answered(down)
        /\ UNCHANGED <<ledger, up, tracker, launches, polling, statuses,
                       roster, cardSession, session, cardRuns, history>>

\* A fresh session is created, and prompted at once.
Opens(s) ==
    /\ session[s] = "unborn"
    /\ s > 1 => session[s - 1] # "unborn"
    /\ session' = [session EXCEPT ![s] = "running"]

\* SessionRunner.launchIdea: a fresh session is created and prompted, or the
\* host refuses a step of it.
AskSession(i) ==
    /\ up /\ launches[i] > 0
    /\ "session" \in Backends
    /\ answer[i].end = IF "card" \in Backends THEN "down" ELSE "none"
    /\ \/ \E s \in Sessions :
             /\ Opens(s)
             /\ answer' = [answer EXCEPT ![i] = [end |-> "session", session |-> s]]
       \/ /\ answer' = [answer EXCEPT ![i] = Answer("refused")]
          /\ session' = session
    /\ UNCHANGED <<ledger, up, tracker, launches, poll, card,
                   cardSession, cardRuns, history>>

\* The next launch of the chain, if any, goes ahead.
Unchain(i) ==
    /\ launches' = [launches EXCEPT ![i] = @ - 1]
    /\ answer' = [answer EXCEPT ![i] = Answer("none")]

LaunchOnCard(i) ==
    /\ answer[i].end = "card"
    /\ bound' = bound \cup {i}
    /\ runStatus' = [runStatus EXCEPT ![i] = "running"]
    /\ Unchain(i)
    /\ UNCHANGED <<status, runSession, up, tracker, poll, outside, history>>

\* The sessions the ledger shows running for some ideas.
InFlight(ideas) == {runSession[i] : i \in {j \in ideas : runStatus[j] = "running"}} \ {0}

\* launchInSession, once the session runs.
LaunchInSession(i) ==
    /\ answer[i].end = "session"
    /\ runStatus' = [runStatus EXCEPT ![i] = "running"]
    /\ runSession' = [runSession EXCEPT ![i] = answer[i].session]
    /\ sessionRuns' = [sessionRuns EXCEPT ![answer[i].session] = i]
    /\ sessionRunsReattached' = TRUE
    /\ hasty' = (hasty \/ ~sessionRunsReattached)
    /\ overtaken' = overtaken
          \cup (IF polling = "sessionRead" THEN {answer[i].session} ELSE {})
          \cup (IF sessionRunsReattached THEN {} ELSE InFlight(Ideas \ {i}))
    /\ Unchain(i)
    /\ UNCHANGED <<status, bound, up, poll, outside, crashes>>

LaunchRefused(i) ==
    /\ answer[i].end = "refused"
    /\ Unchain(i)
    /\ UNCHANGED <<ledger, up, tracker, poll, outside, history>>

----------------------------------------------------------------------------
(* The poll.                                                               *)

Tracked(runs) == {runs[s] : s \in Sessions} \ {None}

\* A slip: a run is taken for a direct one only on the word of the board.
AdoptedIfKnown(board) ==
    {i \in Ideas :
        /\ runStatus[i] = "running" /\ runSession[i] # 0
        /\ i \in bound /\ board # None
        /\ board[i] # runSession[i]}

\* The runs a restarted host takes for direct ones: in flight, and with a
\* session that is not the one the card reports.
Adopted(board) ==
    {i \in Ideas :
        /\ runStatus[i] = "running" /\ runSession[i] # 0
        /\ ~(i \in bound /\ board # None /\ board[i] = runSession[i])}

\* reattachSessionRuns, once per process.
Reattached(board) ==
    IF sessionRunsReattached THEN sessionRuns
    ELSE [s \in Sessions |->
            IF \E i \in Adopted(board) : runSession[i] = s
            THEN CHOOSE i \in Adopted(board) : runSession[i] = s
            ELSE sessionRuns[s]]

\* pollSessionRuns, up to its read of the roster: no read if nothing is tracked.
SessionHalf(runs) ==
    polling' = IF "session" \in Backends /\ Tracked(runs) # {} THEN "session"
                                                              ELSE "idle"

PollCards ==
    /\ up /\ polling = "idle"
    /\ "card" \in Backends
    /\ polling' = "card"
    /\ UNCHANGED <<ledger, up, tracker, chains, statuses, roster, snapshotTasks,
                   outside, history>>

PollSessions ==
    /\ up /\ polling = "idle"
    /\ "card" \notin Backends
    /\ sessionRuns' = Reattached(None)
    /\ sessionRunsReattached' = TRUE
    /\ SessionHalf(sessionRuns')
    /\ UNCHANGED <<ledger, up, chains, statuses, roster, snapshotTasks, outside, history>>

\* fetchTaskStatuses, when the board answers.
ReadStatuses ==
    /\ polling = "card"
    /\ polling' = "cardRead"
    /\ statuses' = [status |-> card, session |-> cardSession]
    /\ UNCHANGED <<ledger, up, tracker, chains, roster, snapshotTasks, outside, history>>

\* fetchTaskStatuses, when it does not.
BoardSilent ==
    /\ polling = "card"
    /\ polling' = "cardRead"
    /\ UNCHANGED <<ledger, up, tracker, chains, statuses, roster, snapshotTasks,
                   outside, history>>

Observed(i) == statuses.status[i]

\* The ideas the board may speak for, given the direct runs.
Spoken(runs) ==
    IF statuses = None THEN {}
    ELSE {i \in bound \ Tracked(runs) : Observed(i) # "none"}

\* A slip: the status of the card is copied as it is.
StatusAsIs(observed) == observed

RunStatusOf(observed) == IF observed = "backlog" THEN "none" ELSE observed

\* A slip: the direct runs are adopted after the board has spoken.
RunsBeforeBoard(board) == sessionRuns

\* The direct runs known when the board speaks.
RunsAtBoard(board) == Reattached(board)

\* A slip: only a status that is news opens the review gate.
FinishedNews(i) == status[i] = "open" /\ Observed(i) = "done" /\ runStatus[i] # "done"

Finished(i) == status[i] = "open" /\ Observed(i) = "done"

\* A slip: only the open ideas are followed.
OpenTracked(i) == status[i] = "open"

\* A run in flight is followed in whatever column its idea is.
TrackedByCard(i) == status[i] = "open" \/ runStatus[i] # "none"

\* pollCardRuns, once the board was read.
ApplyStatuses ==
    LET board == IF statuses = None THEN snapshotTasks ELSE statuses.session
        spoken == Spoken(RunsAtBoard(board))
    IN  /\ polling = "cardRead"
        /\ snapshotTasks' = None
        /\ sessionRuns' = Reattached(board)
        /\ sessionRunsReattached' = TRUE
        /\ runSession' = [i \in Ideas |->
               IF i \in spoken /\ board[i] # 0 THEN board[i] ELSE runSession[i]]
        /\ runStatus' = [i \in Ideas |->
               IF i \in spoken /\ TrackedByCard(i)
               THEN RunStatusOf(Observed(i)) ELSE runStatus[i]]
        /\ status' = [i \in Ideas |->
               IF i \in spoken /\ Finished(i) THEN "underReview" ELSE status[i]]
        /\ SessionHalf(sessionRuns')
        /\ statuses' = None
        /\ UNCHANGED <<bound, up, chains, roster, outside, history>>

\* listRunning.
ReadRoster ==
    /\ polling = "session"
    /\ polling' = "sessionRead"
    /\ roster' = session
    /\ UNCHANGED <<ledger, up, tracker, chains, statuses, snapshotTasks, outside, history>>

\* The roster is unknown: the runs stay as they are.
RosterUnknown ==
    /\ polling = "session"
    /\ polling' = "idle"
    /\ UNCHANGED <<ledger, up, tracker, chains, statuses, roster, snapshotTasks,
                   outside, history>>

\* A slip: a session the roster lacks is taken for one still running.
OverInRoster(s) == roster[s] = "idle"

\* A tracked session is over when the roster does not show it running.
Over(s) == roster[s] # "running"

\* pollSessionRuns, once the roster was read: every tracked session that is
\* not running is settled in the order they were tracked, done if it is there
\* and failed if it is gone.
ApplyRoster ==
    LET over == {s \in Sessions : sessionRuns[s] # None /\ Over(s)}
        of(i) == {s \in over : sessionRuns[s] = i}
        last(i) == CHOOSE s \in of(i) : \A o \in of(i) : o <= s
    IN  /\ polling = "sessionRead"
        /\ sessionRuns' = [s \in Sessions |-> IF s \in over THEN None ELSE sessionRuns[s]]
        /\ runStatus' = [i \in Ideas |->
              IF of(i) = {} THEN runStatus[i]
              ELSE IF roster[last(i)] = "idle" THEN "done" ELSE "failed"]
        /\ runSession' = [i \in Ideas |-> IF of(i) = {} THEN runSession[i] ELSE last(i)]
        /\ status' = [i \in Ideas |->
              IF \E s \in of(i) : roster[s] = "idle" THEN "underReview" ELSE status[i]]
        /\ polling' = "idle"
        /\ roster' = None
        /\ UNCHANGED <<bound, up, sessionRunsReattached, chains, statuses,
                       snapshotTasks, outside, history>>

----------------------------------------------------------------------------
(* The board, the mirror and the process.                                  *)

\* A human sends an idea back to the backlog, or to review by hand.
Move(i) ==
    /\ up
    /\ status' = [status EXCEPT ![i] = IF @ = "open" THEN "underReview" ELSE "open"]
    /\ UNCHANGED <<runStatus, runSession, bound, up, tracker, chains, poll, outside, history>>

\* The mirror of an idea that knows no card: the card is created, or the one
\* an earlier try left behind is adopted.
Mirror(i) ==
    /\ up
    /\ "card" \in Backends
    /\ launches[i] = 0
    /\ i \notin bound
    /\ snapshotTasks' = Remembered
    /\ card' = [card EXCEPT ![i] = IF @ = "none" THEN "backlog" ELSE @]
    /\ bound' = bound \cup {i}
    /\ UNCHANGED <<status, runStatus, runSession, up, tracker, chains, polling,
                   statuses, roster, cardSession, session, cardRuns, history>>

\* The process ends: what it holds in memory is gone.
Crash ==
    /\ up
    /\ crashes < MaxCrashes
    /\ crashes' = crashes + 1 /\ hasty' = FALSE /\ overtaken' = overtaken
    /\ up' = FALSE
    /\ sessionRuns' = NoRuns /\ sessionRunsReattached' = FALSE
    /\ launches' = NoLaunches /\ answer' = NoAnswers
    /\ polling' = "idle" /\ statuses' = None /\ roster' = None /\ snapshotTasks' = None
    /\ UNCHANGED <<ledger, outside>>

Boot ==
    /\ ~up
    /\ up' = TRUE
    /\ UNCHANGED <<ledger, tracker, chains, poll, outside, history>>

----------------------------------------------------------------------------
(* The outside: sessions and cards run whether the host is up or not.      *)

SessionEnds(s) ==
    /\ session[s] = "running"
    /\ \E end \in {"idle", "gone"} : session' = [session EXCEPT ![s] = end]
    /\ UNCHANGED <<ledger, up, tracker, chains, poll, card, cardSession, cardRuns,
                   history>>

\* The runner of a card opens the session of the execution it was asked for.
CardOpens(i, s) ==
    /\ card[i] = "running"
    /\ cardSession[i] # 0 => session[cardSession[i]] # "running"
    /\ Opens(s)
    /\ cardSession' = [cardSession EXCEPT ![i] = s]
    /\ cardRuns' = cardRuns \cup {s}
    /\ UNCHANGED <<ledger, up, tracker, chains, poll, card, history>>

CardEnds(i) ==
    /\ card[i] = "running"
    /\ \E end \in {"done", "failed"} : card' = [card EXCEPT ![i] = end]
    /\ UNCHANGED <<ledger, up, tracker, chains, poll, cardSession, session, cardRuns,
                   history>>

\* A human moves the card back on the task board.
CardReset(i) ==
    /\ card[i] \in {"done", "failed"}
    /\ card' = [card EXCEPT ![i] = "backlog"]
    /\ UNCHANGED <<ledger, up, tracker, chains, poll, cardSession, session, cardRuns,
                   history>>

Next ==
    \/ \E i \in Ideas :
          \/ Launch(i)
          \/ AskCard(i) \/ AskSession(i)
          \/ LaunchOnCard(i) \/ LaunchInSession(i) \/ LaunchRefused(i)
          \/ Move(i) \/ Mirror(i) \/ CardEnds(i) \/ CardReset(i)
          \/ \E s \in Sessions : CardOpens(i, s)
    \/ PollCards \/ PollSessions
    \/ ReadStatuses \/ BoardSilent \/ ApplyStatuses
    \/ ReadRoster \/ RosterUnknown \/ ApplyRoster
    \/ \E s \in Sessions : SessionEnds(s)
    \/ Crash \/ Boot

Spec == Init /\ [][Next]_vars

\* The timer of the poll fires and its reads are answered now and again, a run
\* ends, and a host that went down is started again.
Fairness ==
    /\ WF_vars(PollCards \/ PollSessions \/ ApplyStatuses \/ ApplyRoster \/ Boot)
    /\ SF_vars(ReadStatuses) /\ SF_vars(ReadRoster)
    /\ \A i \in Ideas : WF_vars(CardEnds(i))
    /\ \A s \in Sessions : WF_vars(SessionEnds(s))

FairSpec == Spec /\ Fairness

----------------------------------------------------------------------------
(* What the lifecycle owes the board.                                      *)

\* Once a process has looked for the runs in flight, an idea shown running is
\* followed, by the roster or by its card, whatever was lost with the process
\* before it: nothing else could ever settle it.
Followed(i) ==
    i \in Tracked(sessionRuns) \cup (IF "card" \in Backends THEN bound ELSE {})

RunsFollowed ==
    up /\ sessionRunsReattached /\ ~hasty =>
        \A i \in Ideas : runStatus[i] = "running" => Followed(i)

\* The same of every process, a hasty one included: "adopting it is what makes
\* a direct run survive a Host restart".
RestartReattaches ==
    up /\ sessionRunsReattached =>
        \A i \in Ideas : runStatus[i] = "running" => Followed(i)

\* An idea whose run of record is a direct session that still runs is shown
\* running, through restarts, frozen cards and other runs: only a session the
\* process never looked for may be told otherwise.
DirectRunShown ==
    \A i \in Ideas :
        /\ runSession[i] \in Sessions \ (cardRuns \cup overtaken)
        /\ session[runSession[i]] = "running"
        => runStatus[i] = "running"

\* An idea is not left running: its run ends, and the poll finds out, through
\* restarts, reads that fail and runs that start and end beside it.
RunsSettle ==
    \A i \in Ideas : runStatus[i] = "running" ~> runStatus[i] # "running" \/ hasty

\* A finished run reaches the review gate.
FinishedReachesReview ==
    \A i \in Ideas :
        card[i] = "done" /\ i \in bound /\ status[i] = "open"
            ~> status[i] # "open" \/ card[i] # "done" \/ hasty

============================================================================
