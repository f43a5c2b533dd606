------------------------- MODULE RunLifecycleProofs -------------------------
(* Every run in flight is followed and a direct run is shown running, for   *)
(* every set of ideas, backends and callers and any number of sessions,     *)
(* launches and restarts.                                                   *)
EXTENDS RunLifecycle, WellFoundedInduction, TLAPS

\* A process that is down holds nothing, and one that has not looked for the
\* runs in flight tracks none and has no roster to read.
DownIsBlank ==
    /\ ~up => ~sessionRunsReattached /\ answer = NoAnswers /\ polling = "idle"
    /\ ~sessionRunsReattached =>
          sessionRuns = NoRuns /\ polling \notin {"session", "sessionRead"}

\* An answer is that of a launch that waits for it; a board gave it if there is
\* one, or a session that it names.
AnswersSound ==
    /\ \A i \in Ideas :
          /\ answer[i].end # "none" => launches[i] > 0
          /\ answer[i].end = "card" => "card" \in Backends
          /\ answer[i].end = "session" => answer[i].session # 0
    /\ polling \in {"card", "cardRead"} => "card" \in Backends

\* All that names a session for an idea: the ledger, its card as it is, as the
\* poll read it or as a launch left it, an answer to come, the tracker.
PointsAt(i, s) ==
    \/ runSession[i] = s \/ cardSession[i] = s \/ answer[i].session = s
    \/ statuses # None /\ statuses.session[i] = s
    \/ snapshotTasks # None /\ snapshotTasks[i] = s
    \/ sessionRuns[s] = i

\* A session is of one idea, and it was opened.
OneOwner ==
    \A s \in Sessions, i \in Ideas :
        PointsAt(i, s) =>
            /\ session[s] # "unborn"
            /\ \A j \in Ideas : PointsAt(j, s) => i = j

\* The sessions of a card, whoever remembers them, are its runner's.
CardsOwn ==
    \A i \in Ideas :
        /\ cardSession[i] # 0 => cardSession[i] \in cardRuns
        /\ statuses # None /\ statuses.session[i] # 0 => statuses.session[i] \in cardRuns
        /\ snapshotTasks # None /\ snapshotTasks[i] # 0 => snapshotTasks[i] \in cardRuns

\* A run with no session is that of a card its idea knows.
CardRunsBound ==
    \A i \in Ideas :
        runStatus[i] = "running" /\ runSession[i] = 0 => i \in bound /\ "card" \in Backends

\* What a roster says is over is over, and it lacks none of the sessions that
\* were tracked when it was read.
RosterTold ==
    polling = "sessionRead" =>
        /\ roster \in Rosters
        /\ \A s \in Sessions :
            /\ roster[s] \in {"idle", "gone"} => session[s] = roster[s]
            /\ sessionRuns[s] # None /\ s \notin overtaken => roster[s] # "unborn"

\* The run of record of an idea is a direct session that still runs.
Direct(i) ==
    /\ runSession[i] \in Sessions \ (cardRuns \cup overtaken)
    /\ session[runSession[i]] = "running"

DirectTracked ==
    sessionRunsReattached =>
        \A i \in Ideas : Direct(i) => sessionRuns[runSession[i]] = i

RunInv ==
    /\ DownIsBlank /\ AnswersSound /\ OneOwner /\ CardsOwn /\ CardRunsBound
    /\ RosterTold /\ DirectTracked
    /\ RunsFollowed /\ DirectRunShown

----------------------------------------------------------------------------
(* Types.                                                                  *)

\* The latest of some sessions.
LEMMA LastSession ==
    ASSUME NEW of \in SUBSET Sessions, of # {}
    PROVE  LET last == CHOOSE s \in of : \A o \in of : o <= s
           IN  last \in of /\ \A o \in of : o <= last
<1> DEFINE before == {MaxSessions - s : s \in of}
<1>1. MaxSessions \in Nat
  BY RunAssumption
<1> DEFINE less == {pair \in Nat \X Nat : pair[1] < pair[2]}
<1>2. before \subseteq Nat /\ before # {}
  <2>1. ASSUME NEW s \in of PROVE MaxSessions - s \in Nat
    BY <1>1 DEF Sessions
  <2> QED
    BY <2>1
<1>w. IsWellFoundedOn(less, Nat)
  BY NatLessThanWellFounded DEF OpToRel
<1>3. PICK m \in before : \A n \in before : ~(<<n, m>> \in less)
  <2> HIDE DEF less, before
  <2> QED
    BY <1>2, <1>w, WFMin
<1>4. \A n \in before : ~(n < m)
  BY <1>2, <1>3
<1>5. PICK s \in of : m = MaxSessions - s
  BY <1>3
<1>6. \A o \in of : o <= s
  <2> SUFFICES ASSUME NEW o \in of PROVE o <= s
    OBVIOUS
  <2>1. MaxSessions - o \in before /\ o \in Nat /\ s \in Nat
    BY DEF Sessions
  <2>2. ~(MaxSessions - o < MaxSessions - s)
    <3> HIDE DEF before
    <3> QED
      BY <1>4, <1>5, <2>1
  <2> QED
    BY <1>1, <2>1, <2>2
<1> QED
  BY <1>6

LEMMA TypeOKStep == TypeOK /\ AnswersSound /\ [Next]_vars => TypeOK'
<1> SUFFICES ASSUME TypeOK, AnswersSound, [Next]_vars PROVE TypeOK'
  OBVIOUS
<1> USE RunAssumption DEF ledger, poll, tracker, chains, outside, history
<1>a. MaxSessions \in Nat /\ Sessions \subseteq 0..MaxSessions
  BY DEF Sessions
<1>1. ASSUME NEW i \in Ideas, Launch(i) PROVE TypeOK'
  <2>1. launches' \in [Ideas -> 0..MaxQueue]
    BY <1>1 DEF Launch, TypeOK
  <2> QED
    BY <1>1, <2>1 DEF Launch, TypeOK
<1>2. ASSUME NEW i \in Ideas, AskCard(i) PROVE TypeOK'
  <2>1. Remembered \in Pointers \cup {None}
    BY DEF Remembered, TypeOK
  <2>2. \A end \in {"card", "refused", "down"} :
           [answer EXCEPT ![i] = Answer(end)]
             \in [Ideas -> [end : {"none", "card", "session", "down", "refused"},
                            session : 0..MaxSessions]]
    BY <1>a DEF Answer, TypeOK
  <2>3. card' \in [Ideas -> CardStatuses]
    BY <1>2 DEF AskCard, TypeOK, CardStatuses
  <2>4. snapshotTasks' \in Pointers \cup {None}
    BY <1>2, <2>1 DEF AskCard, TypeOK
  <2>5. answer' \in [Ideas -> [end : {"none", "card", "session", "down", "refused"},
                               session : 0..MaxSessions]]
    BY <1>2, <2>2 DEF AskCard
  <2> QED
    BY <1>2, <2>3, <2>4, <2>5 DEF AskCard, TypeOK
<1>3. ASSUME NEW i \in Ideas, AskSession(i) PROVE TypeOK'
  <2>1. answer' \in [Ideas -> [end : {"none", "card", "session", "down", "refused"},
                               session : 0..MaxSessions]]
    BY <1>3, <1>a DEF AskSession, Answer, TypeOK
  <2>2. session' \in [Sessions -> SessionStates]
    BY <1>3 DEF AskSession, Opens, TypeOK, SessionStates
  <2> QED
    BY <1>3, <2>1, <2>2 DEF AskSession, TypeOK
<1>b. ASSUME NEW i \in Ideas, answer[i].end # "none", Unchain(i)
      PROVE  /\ launches' \in [Ideas -> 0..MaxQueue]
             /\ answer' \in [Ideas -> [end : {"none", "card", "session", "down", "refused"},
                                       session : 0..MaxSessions]]
  <2>1. launches[i] \in 0..MaxQueue /\ launches[i] > 0
    BY <1>b DEF AnswersSound, TypeOK
  <2>2. launches' \in [Ideas -> 0..MaxQueue]
    BY <1>b, <2>1 DEF Unchain, TypeOK
  <2>3. Answer("none") \in [end : {"none", "card", "session", "down", "refused"},
                           session : 0..MaxSessions]
    BY <1>a DEF Answer
  <2> QED
    BY <1>b, <2>2, <2>3 DEF Unchain, TypeOK
<1>4. ASSUME NEW i \in Ideas, LaunchOnCard(i) PROVE TypeOK'
  <2>1. runStatus' \in [Ideas -> RunStatuses]
    BY <1>4 DEF LaunchOnCard, TypeOK, RunStatuses
  <2> QED
    BY <1>4, <1>b, <2>1 DEF LaunchOnCard, TypeOK
<1>5. ASSUME NEW i \in Ideas, LaunchInSession(i) PROVE TypeOK'
  <2>1. answer[i].session \in Sessions
    BY <1>5 DEF LaunchInSession, AnswersSound, TypeOK, Sessions
  <2>2. runStatus' \in [Ideas -> RunStatuses]
    BY <1>5 DEF LaunchInSession, TypeOK, RunStatuses
  <2>3. runSession' \in Pointers
    BY <1>5, <1>a, <2>1 DEF LaunchInSession, TypeOK, Pointers
  <2>4. sessionRuns' \in [Sessions -> Ideas \cup {None}]
    BY <1>5, <2>1 DEF LaunchInSession, TypeOK
  <2>5. \A ideas \in SUBSET Ideas : InFlight(ideas) \subseteq Sessions
    BY <1>a DEF InFlight, TypeOK, Pointers, Sessions
  <2>6. overtaken' \subseteq Sessions
    BY <1>5, <2>1, <2>5 DEF LaunchInSession, TypeOK
  <2>7. hasty' \in BOOLEAN
    BY <1>5, Zenon DEF LaunchInSession
  <2> QED
    BY <1>5, <1>b, <2>2, <2>3, <2>4, <2>6, <2>7 DEF LaunchInSession, TypeOK
<1>6. ASSUME NEW i \in Ideas, LaunchRefused(i) PROVE TypeOK'
  BY <1>6, <1>b DEF LaunchRefused, TypeOK
<1>7. ASSUME NEW i \in Ideas, Move(i) PROVE TypeOK'
  <2>1. status' \in [Ideas -> {"open", "underReview"}]
    BY <1>7 DEF Move, TypeOK
  <2> QED
    BY <1>7, <2>1 DEF Move, TypeOK
<1>8. ASSUME NEW i \in Ideas, Mirror(i) PROVE TypeOK'
  <2>1. card' \in [Ideas -> CardStatuses]
    BY <1>8 DEF Mirror, TypeOK, CardStatuses
  <2>2. snapshotTasks' \in Pointers \cup {None}
    BY <1>8 DEF Mirror, Remembered, TypeOK
  <2> QED
    BY <1>8, <2>1, <2>2 DEF Mirror, TypeOK
<1>9. ASSUME NEW i \in Ideas, CardEnds(i) \/ CardReset(i) PROVE TypeOK'
  <2>1. card' \in [Ideas -> CardStatuses]
    BY <1>9 DEF CardEnds, CardReset, TypeOK, CardStatuses
  <2> QED
    BY <1>9, <2>1 DEF CardEnds, CardReset, TypeOK
<1>10. ASSUME NEW i \in Ideas, NEW s \in Sessions, CardOpens(i, s) PROVE TypeOK'
  <2>1. cardSession' \in Pointers /\ cardRuns' \subseteq Sessions
    BY <1>10, <1>a DEF CardOpens, TypeOK, Pointers
  <2>2. session' \in [Sessions -> SessionStates]
    BY <1>10 DEF CardOpens, Opens, TypeOK, SessionStates
  <2> QED
    BY <1>10, <2>1, <2>2 DEF CardOpens, TypeOK
<1>c. ASSUME NEW board \in Pointers \cup {None}
      PROVE  Reattached(board) \in [Sessions -> Ideas \cup {None}]
  <2>1. ASSUME NEW s \in Sessions, \E i \in Adopted(board) : runSession[i] = s
        PROVE  (CHOOSE i \in Adopted(board) : runSession[i] = s) \in Ideas
    BY <2>1 DEF Adopted
  <2> QED
    BY <2>1 DEF Reattached, TypeOK
<1>11. ASSUME PollCards PROVE TypeOK'
  BY <1>11 DEF PollCards, TypeOK
<1>12. ASSUME PollSessions PROVE TypeOK'
  BY <1>12, <1>c DEF PollSessions, SessionHalf, TypeOK
<1>13. ASSUME ReadStatuses PROVE TypeOK'
  <2>1. statuses' \in Boards
    BY <1>13 DEF ReadStatuses, Boards, TypeOK
  <2> QED
    BY <1>13, <2>1 DEF ReadStatuses, TypeOK
<1>14. ASSUME BoardSilent PROVE TypeOK'
  BY <1>14 DEF BoardSilent, TypeOK
<1>15. ASSUME ApplyStatuses PROVE TypeOK'
  <2> DEFINE board == IF statuses = None THEN snapshotTasks ELSE statuses.session
  <2> DEFINE spoken == Spoken(RunsAtBoard(board))
  <2>1. board \in Pointers \cup {None}
    BY DEF TypeOK, Boards
  <2>2. ASSUME NEW i \in spoken
        PROVE  /\ statuses # None /\ board \in Pointers
               /\ Observed(i) \in CardStatuses \ {"none"}
    BY <2>2 DEF Spoken, Observed, TypeOK, Boards
  <2> HIDE DEF board, spoken
  <2>3. runSession' = [i \in Ideas |->
             IF i \in spoken /\ board[i] # 0 THEN board[i] ELSE runSession[i]]
    BY <1>15 DEF ApplyStatuses, board, spoken
  <2>4. runSession' \in Pointers
    BY <2>2, <2>3 DEF TypeOK, Pointers
  <2>5. runStatus' = [i \in Ideas |->
             IF i \in spoken /\ TrackedByCard(i)
             THEN RunStatusOf(Observed(i)) ELSE runStatus[i]]
    BY <1>15 DEF ApplyStatuses, board, spoken
  <2>6. \A i \in spoken : RunStatusOf(Observed(i)) \in RunStatuses
    BY <2>2 DEF RunStatusOf, RunStatuses, CardStatuses
  <2>7. runStatus' \in [Ideas -> RunStatuses]
    BY <2>5, <2>6 DEF TypeOK
  <2>8. status' \in [Ideas -> {"open", "underReview"}]
    BY <1>15 DEF ApplyStatuses, TypeOK
  <2>9. sessionRuns' \in [Sessions -> Ideas \cup {None}]
    BY <1>15, <1>c, <2>1 DEF ApplyStatuses, board
  <2> QED
    BY <1>15, <2>4, <2>7, <2>8, <2>9 DEF ApplyStatuses, SessionHalf, TypeOK
<1>16. ASSUME ReadRoster PROVE TypeOK'
  BY <1>16 DEF ReadRoster, Rosters, TypeOK
<1>17. ASSUME RosterUnknown PROVE TypeOK'
  BY <1>17 DEF RosterUnknown, TypeOK
<1>18. ASSUME ApplyRoster PROVE TypeOK'
  <2> DEFINE over == {s \in Sessions : sessionRuns[s] # None /\ Over(s)}
  <2> DEFINE of(i) == {s \in over : sessionRuns[s] = i}
  <2> DEFINE last(i) == CHOOSE s \in of(i) : \A o \in of(i) : o <= s
  <2>1. ASSUME NEW i \in Ideas, of(i) # {} PROVE last(i) \in 0..MaxSessions
    <3>1. of(i) \in SUBSET Sessions
      OBVIOUS
    <3> HIDE DEF of
    <3>2. last(i) \in of(i)
      BY <2>1, <3>1, LastSession
    <3> QED
      BY <1>a, <3>1, <3>2
  <2>2. /\ sessionRuns' = [s \in Sessions |-> IF s \in over THEN None ELSE sessionRuns[s]]
        /\ runStatus' = [i \in Ideas |->
              IF of(i) = {} THEN runStatus[i]
              ELSE IF roster[last(i)] = "idle" THEN "done" ELSE "failed"]
        /\ runSession' = [i \in Ideas |-> IF of(i) = {} THEN runSession[i] ELSE last(i)]
        /\ status' = [i \in Ideas |->
              IF \E s \in of(i) : roster[s] = "idle" THEN "underReview" ELSE status[i]]
    BY <1>18 DEF ApplyRoster
  <2> HIDE DEF over, of, last
  <2>3. runSession' \in Pointers
    BY <2>1, <2>2 DEF TypeOK, Pointers
  <2>4. runStatus' \in [Ideas -> RunStatuses]
    BY <2>2 DEF TypeOK, RunStatuses
  <2>5. status' \in [Ideas -> {"open", "underReview"}]
    BY <2>2 DEF TypeOK
  <2>6. sessionRuns' \in [Sessions -> Ideas \cup {None}]
    BY <2>2 DEF TypeOK
  <2> QED
    BY <1>18, <2>3, <2>4, <2>5, <2>6 DEF ApplyRoster, TypeOK
<1>19. ASSUME NEW s \in Sessions, SessionEnds(s) PROVE TypeOK'
  <2>1. session' \in [Sessions -> SessionStates]
    BY <1>19 DEF SessionEnds, TypeOK, SessionStates
  <2> QED
    BY <1>19, <2>1 DEF SessionEnds, TypeOK
<1>20. ASSUME Crash PROVE TypeOK'
  <2>1. /\ NoRuns \in [Sessions -> Ideas \cup {None}]
        /\ NoLaunches \in [Ideas -> 0..MaxQueue]
        /\ NoAnswers \in [Ideas -> [end : {"none", "card", "session", "down", "refused"},
                                    session : 0..MaxSessions]]
    BY <1>a DEF NoRuns, NoLaunches, NoAnswers, Answer
  <2>2. crashes' \in 0..MaxCrashes
    BY <1>20 DEF Crash, TypeOK
  <2> QED
    BY <1>20, <2>1, <2>2 DEF Crash, TypeOK
<1>21. ASSUME Boot PROVE TypeOK'
  BY <1>21 DEF Boot, TypeOK
<1>22. ASSUME UNCHANGED vars PROVE TypeOK'
  BY <1>22 DEF vars, TypeOK
<1> QED
  BY <1>1, <1>2, <1>3, <1>4, <1>5, <1>6, <1>7, <1>8, <1>9, <1>10, <1>11, <1>12, <1>13,
     <1>14, <1>15, <1>16, <1>17, <1>18, <1>19, <1>20, <1>21, <1>22 DEF Next

----------------------------------------------------------------------------
(* Who a session is of.                                                    *)

\* Nothing new names a session.
LEMMA OwnerKept ==
    ASSUME OneOwner, \A s \in Sessions : session[s] # "unborn" => session'[s] # "unborn",
           \A i \in Ideas, s \in Sessions : PointsAt(i, s)' => PointsAt(i, s)
    PROVE  OneOwner'
BY DEF OneOwner

\* A session that is opened is named for the one it is opened for.
LEMMA OwnerOpened ==
    ASSUME OneOwner, NEW k \in Ideas, NEW new \in Sessions, Opens(new), TypeOK,
           \A i \in Ideas, s \in Sessions :
              PointsAt(i, s)' => PointsAt(i, s) \/ (i = k /\ s = new)
    PROVE  OneOwner'
<1>1. /\ session[new] = "unborn" /\ session'[new] # "unborn"
      /\ \A s \in Sessions : session[s] # "unborn" => session'[s] # "unborn"
  BY DEF Opens, TypeOK
<1>2. \A i \in Ideas : ~PointsAt(i, new)
  BY <1>1 DEF OneOwner
<1> QED
  BY <1>1, <1>2 DEF OneOwner

\* What a restarted host adopts is the idea whose run of record the session is.
LEMMA ReattachedRuns ==
    ASSUME TypeOK, OneOwner, DownIsBlank, NEW board, NEW s \in Sessions
    PROVE  /\ Reattached(board)[s] \in {None, sessionRuns[s]} \cup Ideas
           /\ \A i \in Ideas : Reattached(board)[s] = i =>
                 sessionRuns[s] = i \/ (~sessionRunsReattached /\ runSession[i] = s)
           /\ ~sessionRunsReattached =>
                 \A i \in Adopted(board) : runSession[i] = s => Reattached(board)[s] = i
           /\ sessionRunsReattached => Reattached(board) = sessionRuns
<1>1. CASE sessionRunsReattached
  BY <1>1 DEF Reattached
<1>2. CASE ~sessionRunsReattached
  <2>1. Reattached(board)[s] = IF \E i \in Adopted(board) : runSession[i] = s
                               THEN CHOOSE i \in Adopted(board) : runSession[i] = s
                               ELSE sessionRuns[s]
    BY <1>2 DEF Reattached
  <2>2. CASE \E i \in Adopted(board) : runSession[i] = s
    <3> DEFINE owner == CHOOSE i \in Adopted(board) : runSession[i] = s
    <3>1. owner \in Adopted(board) /\ runSession[owner] = s /\ Reattached(board)[s] = owner
      BY <2>1, <2>2
    <3> HIDE DEF owner
    <3>2. Adopted(board) \subseteq Ideas
      BY DEF Adopted
    <3>3. \A j \in Adopted(board) : runSession[j] = s => j = owner
      BY <3>1, <3>2 DEF OneOwner, PointsAt
    <3> QED
      BY <1>2, <3>1, <3>2, <3>3
  <2>3. CASE ~ \E i \in Adopted(board) : runSession[i] = s
    BY <1>2, <2>1, <2>3 DEF TypeOK
  <2> QED
    BY <2>2, <2>3
<1> QED
  BY <1>1, <1>2

----------------------------------------------------------------------------
(* The parts of the invariant, one by one.                                 *)

LEMMA BlankStep == TypeOK /\ AnswersSound /\ DownIsBlank /\ [Next]_vars => DownIsBlank'
<1> SUFFICES ASSUME TypeOK, AnswersSound, DownIsBlank, [Next]_vars PROVE DownIsBlank'
  OBVIOUS
<1> USE DEF ledger, poll, tracker, chains, outside, history
<1>1. ASSUME NEW i \in Ideas, answer[i].end # "none" PROVE up
  BY <1>1 DEF DownIsBlank, NoAnswers, Answer
<1>2. polling # "idle" => up
  BY DEF DownIsBlank
<1>3. CASE \E i \in Ideas : LaunchOnCard(i) \/ LaunchInSession(i) \/ LaunchRefused(i)
  BY <1>1, <1>3 DEF LaunchOnCard, LaunchInSession, LaunchRefused, DownIsBlank
<1>4. CASE ReadStatuses \/ BoardSilent \/ ReadRoster \/ RosterUnknown \/ ApplyStatuses
  BY <1>2, <1>4 DEF ReadStatuses, BoardSilent, ReadRoster, RosterUnknown, ApplyStatuses,
     DownIsBlank
<1>5. CASE ApplyRoster
  BY <1>2, <1>5 DEF ApplyRoster, DownIsBlank, NoRuns
<1>6. CASE \E i \in Ideas : Launch(i) \/ AskCard(i) \/ AskSession(i) \/ Move(i) \/ Mirror(i)
  BY <1>6 DEF Launch, AskCard, AskSession, Move, Mirror, DownIsBlank
<1>7. CASE PollCards \/ PollSessions \/ Crash \/ Boot
  BY <1>7 DEF PollCards, PollSessions, Crash, Boot, DownIsBlank
<1>8. CASE UNCHANGED <<up, tracker, answer, polling>>
  BY <1>8 DEF DownIsBlank
<1> QED
  BY <1>3, <1>4, <1>5, <1>6, <1>7, <1>8
     DEF Next, CardEnds, CardReset, CardOpens, SessionEnds, vars

LEMMA AnswersStep == TypeOK /\ AnswersSound /\ [Next]_vars => AnswersSound'
<1> SUFFICES ASSUME TypeOK, AnswersSound, [Next]_vars PROVE AnswersSound'
  OBVIOUS
<1> USE DEF ledger, poll, tracker, chains, outside, history
<1>1. ASSUME NEW i \in Ideas, Launch(i) PROVE AnswersSound'
  <2>1. \A j \in Ideas : launches[j] > 0 => launches'[j] > 0
    BY <1>1, RunAssumption DEF Launch, TypeOK
  <2>2. answer' = answer /\ polling' = polling
    BY <1>1 DEF Launch
  <2> QED
    BY <2>1, <2>2 DEF AnswersSound
<1>2. ASSUME NEW i \in Ideas, AskCard(i) PROVE AnswersSound'
  <2>1. \E end \in {"card", "refused", "down"} : answer' = [answer EXCEPT ![i] = Answer(end)]
    BY <1>2 DEF AskCard
  <2>2. answer'[i].end # "session" /\ \A j \in Ideas \ {i} : answer'[j] = answer[j]
    BY <2>1 DEF Answer, TypeOK
  <2>3. /\ launches' = launches /\ launches[i] > 0
        /\ polling' = polling /\ "card" \in Backends
    BY <1>2 DEF AskCard
  <2> QED
    BY <2>2, <2>3 DEF AnswersSound
<1>3. ASSUME NEW i \in Ideas, AskSession(i) PROVE AnswersSound'
  <2>1. /\ answer'[i].end \in {"session", "refused"}
        /\ answer'[i].end = "session" => answer'[i].session # 0
        /\ \A j \in Ideas \ {i} : answer'[j] = answer[j]
    BY <1>3 DEF AskSession, Answer, TypeOK, Sessions
  <2>2. launches' = launches /\ launches[i] > 0 /\ polling' = polling
    BY <1>3 DEF AskSession
  <2> QED
    BY <2>1, <2>2 DEF AnswersSound
<1>4. ASSUME NEW i \in Ideas, Unchain(i), polling' = polling
      PROVE  AnswersSound'
  <2>1. answer'[i].end = "none"
    BY <1>4 DEF Unchain, Answer, TypeOK
  <2>2. \A j \in Ideas \ {i} : answer'[j] = answer[j] /\ launches'[j] = launches[j]
    BY <1>4 DEF Unchain, TypeOK
  <2> QED
    BY <1>4, <2>1, <2>2 DEF AnswersSound
<1>5. CASE \E i \in Ideas : LaunchOnCard(i) \/ LaunchInSession(i) \/ LaunchRefused(i)
  BY <1>4, <1>5 DEF LaunchOnCard, LaunchInSession, LaunchRefused
<1>6. CASE Crash
  BY <1>6 DEF Crash, NoAnswers, Answer, AnswersSound
<1>7. CASE PollCards \/ PollSessions \/ ReadStatuses \/ BoardSilent \/ ApplyStatuses
  BY <1>7 DEF PollCards, PollSessions, ReadStatuses, BoardSilent, ApplyStatuses, SessionHalf,
     AnswersSound
<1>8. CASE ReadRoster \/ RosterUnknown \/ ApplyRoster
  BY <1>8 DEF ReadRoster, RosterUnknown, ApplyRoster, AnswersSound
<1>9. CASE UNCHANGED <<chains, polling>>
  BY <1>9 DEF AnswersSound
<1> QED
  BY <1>1, <1>2, <1>3, <1>5, <1>6, <1>7, <1>8, <1>9
     DEF Next, Move, Mirror, CardEnds, CardReset, CardOpens, SessionEnds, Boot, vars

\* The board that the runs are told apart by is one of those remembered.
LEMMA OwnerStep ==
    TypeOK /\ AnswersSound /\ DownIsBlank /\ OneOwner /\ [Next]_vars => OneOwner'
<1> SUFFICES ASSUME TypeOK, AnswersSound, DownIsBlank, OneOwner, [Next]_vars PROVE OneOwner'
  OBVIOUS
<1> USE DEF ledger, poll, tracker, chains, outside, history
<1>a. 0 \notin Sessions /\ \A i \in Ideas : i # None
  BY RunAssumption DEF Sessions
<1>1. ASSUME NEW i \in Ideas, AskCard(i) PROVE OneOwner'
  <2>1. /\ snapshotTasks' \in {None, snapshotTasks, cardSession}
        /\ \E end \in {"card", "refused", "down"} : answer' = [answer EXCEPT ![i] = Answer(end)]
        /\ UNCHANGED <<runSession, cardSession, statuses, sessionRuns, session>>
    BY <1>1 DEF AskCard, Remembered
  <2>2. answer'[i].session = 0 /\ \A j \in Ideas \ {i} : answer'[j] = answer[j]
    BY <2>1 DEF Answer, TypeOK
  <2>3. \A j \in Ideas, s \in Sessions : PointsAt(j, s)' => PointsAt(j, s)
    BY <1>a, <2>1, <2>2 DEF PointsAt
  <2> QED
    BY <2>1, <2>3, OwnerKept
<1>2. ASSUME NEW i \in Ideas, AskSession(i) PROVE OneOwner'
  <2>1. UNCHANGED <<runSession, cardSession, statuses, snapshotTasks, sessionRuns>>
    BY <1>2 DEF AskSession
  <2>2. CASE session' = session /\ answer' = [answer EXCEPT ![i] = Answer("refused")]
    <3>1. \A j \in Ideas, s \in Sessions : PointsAt(j, s)' => PointsAt(j, s)
      BY <1>a, <2>1, <2>2 DEF PointsAt, Answer, TypeOK
    <3> QED
      BY <2>2, <3>1, OwnerKept
  <2>3. ASSUME NEW new \in Sessions, Opens(new),
               answer' = [answer EXCEPT ![i] = [end |-> "session", session |-> new]]
        PROVE  OneOwner'
    <3>1. \A j \in Ideas, s \in Sessions :
             PointsAt(j, s)' => PointsAt(j, s) \/ (j = i /\ s = new)
      BY <1>a, <2>1, <2>3 DEF PointsAt, TypeOK
    <3> QED
      BY <2>3, <3>1, OwnerOpened
  <2> QED
    BY <1>2, <2>2, <2>3 DEF AskSession
<1>3. ASSUME NEW i \in Ideas, LaunchOnCard(i) \/ LaunchInSession(i) \/ LaunchRefused(i)
      PROVE  OneOwner'
  <2>1. /\ answer'[i].session = 0 /\ \A j \in Ideas \ {i} : answer'[j] = answer[j]
        /\ UNCHANGED <<cardSession, statuses, snapshotTasks, session>>
    BY <1>3 DEF LaunchOnCard, LaunchInSession, LaunchRefused, Unchain, Answer, TypeOK
  <2>2. \A j \in Ideas : runSession'[j] = runSession[j]
                          \/ (j = i /\ runSession'[j] = answer[j].session)
    BY <1>3 DEF LaunchOnCard, LaunchInSession, LaunchRefused, TypeOK, Pointers
  <2>3. \A s \in Sessions : sessionRuns'[s] = sessionRuns[s]
                             \/ (s = answer[i].session /\ sessionRuns'[s] = i)
    BY <1>3 DEF LaunchOnCard, LaunchInSession, LaunchRefused, TypeOK
  <2>4. \A j \in Ideas, s \in Sessions : PointsAt(j, s)' => PointsAt(j, s)
    BY <1>a, <2>1, <2>2, <2>3 DEF PointsAt
  <2> QED
    BY <2>1, <2>4, OwnerKept
<1>4. ASSUME PollSessions PROVE OneOwner'
  <2>1. /\ UNCHANGED <<runSession, cardSession, statuses, snapshotTasks, session, answer>>
        /\ sessionRuns' = Reattached(None)
    BY <1>4 DEF PollSessions
  <2>2. \A j \in Ideas, s \in Sessions : PointsAt(j, s)' => PointsAt(j, s)
    BY <2>1, ReattachedRuns DEF PointsAt
  <2> QED
    BY <2>1, <2>2, OwnerKept
<1>5. ASSUME ApplyStatuses PROVE OneOwner'
  <2> DEFINE board == IF statuses = None THEN snapshotTasks ELSE statuses.session
  <2> DEFINE spoken == Spoken(RunsAtBoard(board))
  <2>1. /\ UNCHANGED <<cardSession, session, answer>>
        /\ statuses' = None /\ snapshotTasks' = None
        /\ sessionRuns' = Reattached(board)
        /\ runSession' = [i \in Ideas |->
               IF i \in spoken /\ board[i] # 0 THEN board[i] ELSE runSession[i]]
    BY <1>5 DEF ApplyStatuses
  <2>2. \A j \in spoken : statuses # None /\ board = statuses.session
    BY DEF Spoken
  <2> HIDE DEF board, spoken
  <2>3. \A j \in Ideas, s \in Sessions : PointsAt(j, s)' => PointsAt(j, s)
    BY <2>1, <2>2, ReattachedRuns DEF PointsAt
  <2> QED
    BY <2>1, <2>3, OwnerKept
<1>6. ASSUME ReadStatuses PROVE OneOwner'
  <2>1. /\ statuses' = [status |-> card, session |-> cardSession]
        /\ UNCHANGED <<runSession, cardSession, snapshotTasks, sessionRuns, session, answer>>
    BY <1>6 DEF ReadStatuses
  <2>2. \A j \in Ideas, s \in Sessions : PointsAt(j, s)' => PointsAt(j, s)
    BY <2>1 DEF PointsAt
  <2> QED
    BY <2>1, <2>2, OwnerKept
<1>7. ASSUME ApplyRoster PROVE OneOwner'
  <2> DEFINE over == {s \in Sessions : sessionRuns[s] # None /\ Over(s)}
  <2> DEFINE of(i) == {s \in over : sessionRuns[s] = i}
  <2> DEFINE last(i) == CHOOSE s \in of(i) : \A o \in of(i) : o <= s
  <2>1. \A i \in Ideas : of(i) # {} => last(i) \in of(i) /\ of(i) \subseteq Sessions
    <3>1. \A i \in Ideas : of(i) \in SUBSET Sessions
      OBVIOUS
    <3> HIDE DEF of
    <3> QED
      BY <3>1, LastSession
  <2>2. /\ sessionRuns' = [s \in Sessions |-> IF s \in over THEN None ELSE sessionRuns[s]]
        /\ runSession' = [i \in Ideas |-> IF of(i) = {} THEN runSession[i] ELSE last(i)]
        /\ UNCHANGED <<cardSession, statuses, snapshotTasks, session, answer>>
    BY <1>7 DEF ApplyRoster
  <2>3. \A i \in Ideas : \A s \in of(i) : sessionRuns[s] = i
    OBVIOUS
  <2> HIDE DEF over, of, last
  <2>4. \A j \in Ideas, s \in Sessions : PointsAt(j, s)' => PointsAt(j, s)
    BY <1>a, <2>1, <2>2, <2>3 DEF PointsAt
  <2> QED
    BY <2>2, <2>4, OwnerKept
<1>8. ASSUME NEW i \in Ideas, Mirror(i) PROVE OneOwner'
  <2>1. /\ snapshotTasks' \in {None, cardSession}
        /\ UNCHANGED <<runSession, cardSession, statuses, sessionRuns, session, answer>>
    BY <1>8 DEF Mirror, Remembered
  <2>2. \A j \in Ideas, s \in Sessions : PointsAt(j, s)' => PointsAt(j, s)
    BY <2>1 DEF PointsAt
  <2> QED
    BY <2>1, <2>2, OwnerKept
<1>9. ASSUME Crash PROVE OneOwner'
  <2>1. \A j \in Ideas, s \in Sessions : PointsAt(j, s)' => PointsAt(j, s)
    BY <1>9, <1>a DEF Crash, NoRuns, NoAnswers, Answer, PointsAt
  <2> QED
    BY <1>9, <2>1, OwnerKept DEF Crash
<1>10. ASSUME NEW s \in Sessions, SessionEnds(s) PROVE OneOwner'
  <2>1. UNCHANGED <<runSession, cardSession, statuses, snapshotTasks, sessionRuns, answer>>
    BY <1>10 DEF SessionEnds
  <2>2. \A o \in Sessions : session[o] # "unborn" => session'[o] # "unborn"
    BY <1>10 DEF SessionEnds, TypeOK
  <2>3. \A j \in Ideas, o \in Sessions : PointsAt(j, o)' => PointsAt(j, o)
    BY <2>1 DEF PointsAt
  <2> QED
    BY <2>2, <2>3, OwnerKept
<1>11. ASSUME NEW i \in Ideas, NEW new \in Sessions, CardOpens(i, new) PROVE OneOwner'
  <2>1. /\ Opens(new) /\ cardSession' = [cardSession EXCEPT ![i] = new]
        /\ UNCHANGED <<runSession, statuses, snapshotTasks, sessionRuns, answer>>
    BY <1>11 DEF CardOpens
  <2>2. \A j \in Ideas, s \in Sessions :
           PointsAt(j, s)' => PointsAt(j, s) \/ (j = i /\ s = new)
    BY <2>1 DEF PointsAt, TypeOK, Pointers
  <2> QED
    BY <2>1, <2>2, OwnerOpened
<1>12. ASSUME UNCHANGED <<runSession, cardSession, statuses, snapshotTasks, sessionRuns,
                          session, answer>>
       PROVE  OneOwner'
  <2>1. \A j \in Ideas, s \in Sessions : PointsAt(j, s)' => PointsAt(j, s)
    BY <1>12 DEF PointsAt
  <2> QED
    BY <1>12, <2>1, OwnerKept
<1> QED
  BY <1>1, <1>2, <1>3, <1>4, <1>5, <1>6, <1>7, <1>8, <1>9, <1>10, <1>11, <1>12
     DEF Next, Launch, Move, CardEnds, CardReset, PollCards, BoardSilent, ReadRoster,
         RosterUnknown, Boot, vars

LEMMA CardsOwnStep == TypeOK /\ CardsOwn /\ [Next]_vars => CardsOwn'
<1> SUFFICES ASSUME TypeOK, CardsOwn, [Next]_vars PROVE CardsOwn'
  OBVIOUS
<1> USE DEF ledger, poll, tracker, chains, outside, history
<1>1. CASE /\ UNCHANGED <<cardSession, cardRuns, statuses>>
           /\ snapshotTasks' \in {None, snapshotTasks, cardSession}
  BY <1>1 DEF CardsOwn
<1>2. CASE \E i \in Ideas : AskCard(i) \/ Mirror(i)
  BY <1>1, <1>2 DEF AskCard, Mirror, Remembered
<1>3. CASE ReadStatuses
  BY <1>3 DEF ReadStatuses, CardsOwn
<1>4. CASE ApplyStatuses \/ Crash
  BY <1>4 DEF ApplyStatuses, Crash, CardsOwn
<1>5. ASSUME NEW i \in Ideas, NEW s \in Sessions, CardOpens(i, s) PROVE CardsOwn'
  <2>1. /\ cardSession'[i] = s /\ \A j \in Ideas \ {i} : cardSession'[j] = cardSession[j]
        /\ cardRuns' = cardRuns \cup {s}
        /\ UNCHANGED <<statuses, snapshotTasks>>
    BY <1>5 DEF CardOpens, TypeOK, Pointers
  <2> QED
    BY <2>1 DEF CardsOwn
<1>6. CASE UNCHANGED <<cardSession, cardRuns, statuses, snapshotTasks>>
  BY <1>1, <1>6
<1> QED
  BY <1>2, <1>3, <1>4, <1>5, <1>6
     DEF Next, Launch, AskSession, LaunchOnCard, LaunchInSession, LaunchRefused, Move,
         CardEnds, CardReset, PollCards, PollSessions, BoardSilent, ReadRoster,
         RosterUnknown, ApplyRoster, SessionEnds, Boot, vars

LEMMA CardRunsBoundStep ==
    TypeOK /\ AnswersSound /\ CardRunsBound /\ [Next]_vars => CardRunsBound'
<1> SUFFICES ASSUME TypeOK, AnswersSound, CardRunsBound, [Next]_vars PROVE CardRunsBound'
  OBVIOUS
<1> USE DEF ledger, poll, tracker, chains, outside, history
<1>1. ASSUME NEW i \in Ideas, LaunchOnCard(i) PROVE CardRunsBound'
  <2>1. /\ \A j \in Ideas \ {i} : runStatus'[j] = runStatus[j]
        /\ runSession' = runSession /\ bound' = bound \cup {i} /\ "card" \in Backends
    BY <1>1 DEF LaunchOnCard, AnswersSound, TypeOK
  <2> QED
    BY <2>1 DEF CardRunsBound
<1>2. ASSUME NEW i \in Ideas, LaunchInSession(i) PROVE CardRunsBound'
  <2>1. /\ \A j \in Ideas \ {i} : runStatus'[j] = runStatus[j] /\ runSession'[j] = runSession[j]
        /\ runSession'[i] # 0 /\ bound' = bound
    BY <1>2 DEF LaunchInSession, AnswersSound, TypeOK, Pointers
  <2> QED
    BY <2>1 DEF CardRunsBound
<1>3. CASE ApplyStatuses
  <2> DEFINE board == IF statuses = None THEN snapshotTasks ELSE statuses.session
  <2> DEFINE spoken == Spoken(RunsAtBoard(board))
  <2>1. /\ "card" \in Backends /\ bound' = bound /\ spoken \subseteq bound
        /\ runSession' = [i \in Ideas |->
               IF i \in spoken /\ board[i] # 0 THEN board[i] ELSE runSession[i]]
        /\ runStatus' = [i \in Ideas |->
               IF i \in spoken /\ TrackedByCard(i)
               THEN RunStatusOf(Observed(i)) ELSE runStatus[i]]
    BY <1>3 DEF ApplyStatuses, AnswersSound, Spoken
  <2> HIDE DEF board, spoken
  <2> QED
    BY <2>1 DEF CardRunsBound
<1>4. CASE ApplyRoster
  <2> DEFINE over == {s \in Sessions : sessionRuns[s] # None /\ Over(s)}
  <2> DEFINE of(i) == {s \in over : sessionRuns[s] = i}
  <2> DEFINE last(i) == CHOOSE s \in of(i) : \A o \in of(i) : o <= s
  <2>1. /\ bound' = bound
        /\ runStatus' = [i \in Ideas |->
              IF of(i) = {} THEN runStatus[i]
              ELSE IF roster[last(i)] = "idle" THEN "done" ELSE "failed"]
        /\ runSession' = [i \in Ideas |-> IF of(i) = {} THEN runSession[i] ELSE last(i)]
    BY <1>4 DEF ApplyRoster
  <2> HIDE DEF over, of, last
  <2> QED
    BY <2>1 DEF CardRunsBound
<1>5. CASE UNCHANGED <<runStatus, runSession>> /\ bound \subseteq bound'
  BY <1>5 DEF CardRunsBound
<1> QED
  BY <1>1, <1>2, <1>3, <1>4, <1>5
     DEF Next, Launch, AskCard, AskSession, LaunchRefused, Move, Mirror, CardEnds, CardReset,
         CardOpens, PollCards, PollSessions, ReadStatuses, BoardSilent, ReadRoster,
         RosterUnknown, SessionEnds, Crash, Boot, vars

LEMMA RosterToldStep ==
    TypeOK /\ AnswersSound /\ OneOwner /\ RosterTold /\ [Next]_vars => RosterTold'
<1> SUFFICES ASSUME TypeOK, AnswersSound, OneOwner, RosterTold, [Next]_vars PROVE RosterTold'
  OBVIOUS
<1> USE DEF ledger, poll, tracker, chains, outside, history
<1>1. CASE ReadRoster
  <2>1. /\ roster' = session
        /\ UNCHANGED <<session, sessionRuns, overtaken>>
    BY <1>1 DEF ReadRoster
  <2>2. \A s \in Sessions : sessionRuns[s] # None => session[s] # "unborn"
    BY DEF OneOwner, PointsAt, TypeOK
  <2> QED
    BY <2>1, <2>2 DEF RosterTold, TypeOK, Rosters
<1>2. ASSUME NEW i \in Ideas, LaunchInSession(i) PROVE RosterTold'
  <2>1. /\ UNCHANGED <<polling, roster, session>>
        /\ \A s \in Sessions \ {answer[i].session} : sessionRuns'[s] = sessionRuns[s]
        /\ overtaken \subseteq overtaken'
        /\ polling = "sessionRead" => answer[i].session \in overtaken'
    BY <1>2 DEF LaunchInSession, TypeOK
  <2> QED
    BY <2>1 DEF RosterTold
<1>3. ASSUME UNCHANGED <<polling, roster, sessionRuns, overtaken>>,
             NEW s \in Sessions, session[s] \in {"unborn", "running"},
             \A o \in Sessions \ {s} : session'[o] = session[o]
      PROVE  RosterTold'
  BY <1>3 DEF RosterTold
<1>4. ASSUME NEW i \in Ideas, AskSession(i) PROVE RosterTold'
  <2>1. CASE session' = session
    BY <1>4, <2>1 DEF AskSession, RosterTold
  <2>2. ASSUME NEW s \in Sessions, Opens(s) PROVE RosterTold'
    BY <1>3, <1>4, <2>2 DEF AskSession, Opens, TypeOK
  <2> QED
    BY <1>4, <2>1, <2>2 DEF AskSession
<1>5. ASSUME NEW i \in Ideas, NEW s \in Sessions, CardOpens(i, s) PROVE RosterTold'
  BY <1>3, <1>5 DEF CardOpens, Opens, TypeOK
<1>6. ASSUME NEW s \in Sessions, SessionEnds(s) PROVE RosterTold'
  BY <1>3, <1>6 DEF SessionEnds, TypeOK
<1>7. CASE polling' # "sessionRead"
  BY <1>7 DEF RosterTold
<1>8. CASE UNCHANGED <<polling, roster, sessionRuns, overtaken, session>>
  BY <1>8 DEF RosterTold
<1> QED
  BY <1>1, <1>2, <1>4, <1>5, <1>6, <1>7, <1>8
     DEF Next, Launch, AskCard, LaunchOnCard, LaunchRefused, Move, Mirror, CardEnds,
         CardReset, PollCards, PollSessions, ReadStatuses, BoardSilent, ApplyStatuses,
         RosterUnknown, ApplyRoster, SessionHalf, Crash, Boot, vars


----------------------------------------------------------------------------
(* The direct runs.                                                        *)

\* The board the runs are told apart by names no direct session, so a restarted
\* host adopts every idea whose run of record is one.
LEMMA DirectAdopted ==
    ASSUME TypeOK, OneOwner, DownIsBlank, CardsOwn, DirectTracked, DirectRunShown,
           NEW board, NEW i \in Ideas, Direct(i),
           board # None /\ board[i] # 0 => board[i] \in cardRuns
    PROVE  /\ Reattached(board)[runSession[i]] = i
           /\ i \in Tracked(Reattached(board))
<1>1. runSession[i] \in Sessions /\ runSession[i] \notin cardRuns /\ runSession[i] # 0
  BY RunAssumption DEF Direct, Sessions
<1>2. Reattached(board)[runSession[i]] = i
  <2>1. CASE sessionRunsReattached
    BY <1>1, <2>1, ReattachedRuns DEF DirectTracked
  <2>2. CASE ~sessionRunsReattached
    <3>1. runStatus[i] = "running"
      BY DEF DirectRunShown, Direct
    <3>2. i \in Adopted(board)
      BY <1>1, <3>1 DEF Adopted
    <3> QED
      BY <1>1, <2>2, <3>2, ReattachedRuns
  <2> QED
    BY <2>1, <2>2
<1>3. i # None
  BY RunAssumption
<1> QED
  BY <1>1, <1>2, <1>3 DEF Tracked

\* The poll of the cards leaves a direct run of record alone.
LEMMA StatusesSpareDirect ==
    ASSUME TypeOK, OneOwner, DownIsBlank, CardsOwn, DirectTracked, DirectRunShown,
           ApplyStatuses, NEW i \in Ideas, Direct(i)'
    PROVE  /\ runSession'[i] = runSession[i] /\ runStatus'[i] = runStatus[i]
           /\ Direct(i) /\ sessionRuns'[runSession[i]] = i
<1> DEFINE board == IF statuses = None THEN snapshotTasks ELSE statuses.session
<1> DEFINE spoken == Spoken(RunsAtBoard(board))
<1>1. /\ UNCHANGED <<session, cardRuns, overtaken>>
      /\ sessionRuns' = Reattached(board)
      /\ runSession'[i] = IF i \in spoken /\ board[i] # 0 THEN board[i] ELSE runSession[i]
      /\ runStatus'[i] = IF i \in spoken /\ TrackedByCard(i)
                         THEN RunStatusOf(Observed(i)) ELSE runStatus[i]
  BY DEF ApplyStatuses, outside, history
<1>2. /\ board # None /\ board[i] # 0 => board[i] \in cardRuns
      /\ i \in spoken /\ board[i] # 0 => board[i] \in cardRuns
      /\ i \notin spoken \/ i \notin Tracked(Reattached(board))
  BY DEF CardsOwn, Spoken, RunsAtBoard
<1> HIDE DEF board, spoken
<1>3. runSession'[i] = runSession[i] /\ Direct(i)
  <2>1. runSession'[i] \notin cardRuns
    BY <1>1 DEF Direct
  <2>2. ~(i \in spoken /\ board[i] # 0)
    BY <1>1, <1>2, <2>1
  <2> QED
    BY <1>1, <2>2 DEF Direct
<1>4. Reattached(board)[runSession[i]] = i /\ i \in Tracked(Reattached(board))
  BY <1>2, <1>3, DirectAdopted
<1> QED
  BY <1>1, <1>2, <1>3, <1>4


\* The poll of the roster settles no session that still runs.
LEMMA RosterSparesDirect ==
    ASSUME TypeOK, OneOwner, RosterTold, DirectTracked,
           ApplyRoster, NEW i \in Ideas, Direct(i)', sessionRunsReattached
    PROVE  /\ runSession'[i] = runSession[i] /\ runStatus'[i] = runStatus[i]
           /\ Direct(i) /\ sessionRuns'[runSession[i]] = i
<1> DEFINE over == {s \in Sessions : sessionRuns[s] # None /\ Over(s)}
<1> DEFINE of(j) == {s \in over : sessionRuns[s] = j}
<1> DEFINE last(j) == CHOOSE s \in of(j) : \A o \in of(j) : o <= s
<1>1. /\ sessionRuns' = [s \in Sessions |-> IF s \in over THEN None ELSE sessionRuns[s]]
      /\ runStatus' = [j \in Ideas |->
            IF of(j) = {} THEN runStatus[j]
            ELSE IF roster[last(j)] = "idle" THEN "done" ELSE "failed"]
      /\ runSession' = [j \in Ideas |-> IF of(j) = {} THEN runSession[j] ELSE last(j)]
      /\ UNCHANGED <<session, cardRuns, overtaken>>
  BY DEF ApplyRoster, outside, history
<1>2. polling = "sessionRead"
  BY DEF ApplyRoster
<1>3. \A s \in over : s \notin overtaken => session[s] # "running"
  <2> SUFFICES ASSUME NEW s \in over, s \notin overtaken PROVE session[s] # "running"
    OBVIOUS
  <2>1. s \in Sessions /\ sessionRuns[s] # None /\ roster[s] # "running"
    BY DEF Over
  <2>2. roster[s] \in SessionStates /\ roster[s] # "unborn"
    BY <1>2, <2>1 DEF RosterTold, Rosters
  <2>3. session[s] = roster[s]
    BY <1>2, <2>1, <2>2 DEF RosterTold, SessionStates
  <2> QED
    BY <2>1, <2>3
<1>4. of(i) # {} => last(i) \in of(i)
  <2>1. of(i) \in SUBSET Sessions
    OBVIOUS
  <2> HIDE DEF of
  <2> QED
    BY <2>1, LastSession
<1>5. of(i) \subseteq over /\ over \subseteq Sessions
  OBVIOUS
<1>6. \A s \in over : sessionRuns[s] = i => s \in of(i)
  OBVIOUS
<1> HIDE DEF over, of, last
<1>7. of(i) = {}
  BY <1>1, <1>3, <1>4, <1>5 DEF Direct
<1>8. runSession'[i] = runSession[i] /\ runStatus'[i] = runStatus[i] /\ Direct(i)
  BY <1>1, <1>7 DEF Direct
<1>9. sessionRuns[runSession[i]] = i /\ runSession[i] \in Sessions
  BY <1>8 DEF DirectTracked, Direct
<1>10. sessionRuns'[runSession[i]] = i
  BY <1>1, <1>6, <1>7, <1>9
<1> QED
  BY <1>8, <1>10

\* A launch in a session that no poll came before gives up the direct runs it
\* does not know of, and no other.
LEMMA LaunchSparesDirect ==
    ASSUME TypeOK, AnswersSound, OneOwner, DirectTracked, DirectRunShown,
           NEW i \in Ideas, LaunchInSession(i), NEW j \in Ideas, Direct(j)'
    PROVE  sessionRuns'[runSession'[j]] = j /\ runStatus'[j] = "running"
<1> DEFINE new == answer[i].session
<1>1. /\ new \in Sessions /\ PointsAt(i, new)
      /\ runSession' = [runSession EXCEPT ![i] = new]
      /\ runStatus' = [runStatus EXCEPT ![i] = "running"]
      /\ sessionRuns' = [sessionRuns EXCEPT ![new] = i]
      /\ overtaken \subseteq overtaken'
      /\ ~sessionRunsReattached => InFlight(Ideas \ {i}) \subseteq overtaken'
      /\ UNCHANGED <<session, cardRuns>>
  BY DEF LaunchInSession, AnswersSound, TypeOK, Sessions, PointsAt, outside
<1> HIDE DEF new
<1>2. CASE j = i
  BY <1>1, <1>2 DEF TypeOK, Pointers
<1>3. CASE j # i
  <2>1. runSession'[j] = runSession[j] /\ runStatus'[j] = runStatus[j] /\ Direct(j)
    BY <1>1, <1>3 DEF Direct, TypeOK, Pointers
  <2>2. runStatus[j] = "running" /\ runSession[j] \in Sessions /\ PointsAt(j, runSession[j])
    BY <2>1 DEF DirectRunShown, Direct, PointsAt
  <2>3. runSession[j] # new
    BY <1>1, <1>3, <2>2 DEF OneOwner
  <2>4. sessionRunsReattached
    <3>1. SUFFICES ASSUME ~sessionRunsReattached PROVE FALSE
      OBVIOUS
    <3>2. runSession[j] \in InFlight(Ideas \ {i})
      BY <1>3, <2>2, RunAssumption DEF InFlight, Sessions
    <3> QED
      BY <1>1, <2>1, <3>1, <3>2 DEF Direct
  <2> QED
    BY <1>1, <2>1, <2>2, <2>3, <2>4 DEF DirectTracked, TypeOK
<1> QED
  BY <1>2, <1>3

\* What the other steps do to a direct run of record.
LEMMA DirectWasThere ==
    ASSUME TypeOK, OneOwner, runSession' = runSession, cardRuns \subseteq cardRuns',
           overtaken' = overtaken, NEW i \in Ideas, Direct(i)',
           \A s \in Sessions : session[s] # "unborn" /\ session'[s] = "running" =>
               session[s] = "running"
    PROVE  Direct(i)
BY DEF Direct, OneOwner, PointsAt

LEMMA DirectStep ==
    TypeOK /\ RunInv /\ [Next]_vars => DirectTracked' /\ DirectRunShown'
<1> SUFFICES ASSUME TypeOK, RunInv, [Next]_vars
             PROVE  DirectTracked' /\ DirectRunShown'
  OBVIOUS
<1> USE DEF ledger, poll, tracker, chains, outside, history
<1>u. /\ DownIsBlank /\ AnswersSound /\ OneOwner /\ CardsOwn /\ RosterTold
      /\ DirectTracked /\ DirectRunShown
  BY DEF RunInv
<1>i. /\ DirectRunShown <=> \A i \in Ideas : Direct(i) => runStatus[i] = "running"
      /\ DirectRunShown' <=> \A i \in Ideas : Direct(i)' => runStatus'[i] = "running"
  BY DEF DirectRunShown, Direct
<1>1. ASSUME NEW i \in Ideas, LaunchInSession(i) PROVE DirectTracked' /\ DirectRunShown'
  BY <1>1, <1>u, <1>i, LaunchSparesDirect DEF DirectTracked
<1>2. CASE ApplyStatuses
  BY <1>2, <1>u, <1>i, StatusesSpareDirect DEF DirectTracked
<1>3. CASE ApplyRoster
  <2>1. sessionRunsReattached
    BY <1>3, <1>u DEF ApplyRoster, DownIsBlank
  <2> QED
    BY <1>3, <1>u, <1>i, <2>1, RosterSparesDirect DEF DirectTracked
<1>4. CASE PollSessions
  <2>1. /\ UNCHANGED <<runSession, runStatus, session, cardRuns, overtaken>>
        /\ sessionRuns' = Reattached(None)
    BY <1>4 DEF PollSessions
  <2>2. \A i \in Ideas : Direct(i)' <=> Direct(i)
    BY <2>1 DEF Direct
  <2>3. \A i \in Ideas : Direct(i) => Reattached(None)[runSession[i]] = i
    BY <1>u, DirectAdopted
  <2> QED
    BY <1>u, <1>i, <2>1, <2>2, <2>3 DEF DirectTracked
<1>5. ASSUME UNCHANGED <<runSession, overtaken>>, cardRuns \subseteq cardRuns',
             \A j \in Ideas : runStatus'[j] = runStatus[j] \/ runStatus'[j] = "running",
             \A s \in Sessions : session[s] # "unborn" /\ session'[s] = "running" =>
                 session[s] = "running",
             ~sessionRunsReattached' \/ UNCHANGED tracker
      PROVE  DirectTracked' /\ DirectRunShown'
  <2>1. \A i \in Ideas : Direct(i)' => Direct(i)
    BY <1>5, <1>u, DirectWasThere
  <2> QED
    BY <1>5, <1>u, <1>i, <2>1 DEF DirectTracked
<1>6. ASSUME NEW i \in Ideas, LaunchOnCard(i) PROVE DirectTracked' /\ DirectRunShown'
  BY <1>5, <1>6 DEF LaunchOnCard, TypeOK
<1>7. ASSUME NEW i \in Ideas, AskSession(i) PROVE DirectTracked' /\ DirectRunShown'
  BY <1>5, <1>7 DEF AskSession, Opens, TypeOK
<1>8. ASSUME NEW i \in Ideas, NEW s \in Sessions, CardOpens(i, s)
      PROVE  DirectTracked' /\ DirectRunShown'
  BY <1>5, <1>8 DEF CardOpens, Opens, TypeOK
<1>9. ASSUME NEW s \in Sessions, SessionEnds(s) PROVE DirectTracked' /\ DirectRunShown'
  BY <1>5, <1>9 DEF SessionEnds, TypeOK
<1>10. CASE Crash
  BY <1>5, <1>10 DEF Crash
<1>11. CASE UNCHANGED <<runStatus, runSession, tracker, session, cardRuns, overtaken>>
  BY <1>5, <1>11
<1> QED
  BY <1>1, <1>2, <1>3, <1>4, <1>6, <1>7, <1>8, <1>9, <1>10, <1>11
     DEF Next, Launch, AskCard, LaunchRefused, Move, Mirror, CardEnds, CardReset, PollCards,
         ReadStatuses, BoardSilent, ReadRoster, RosterUnknown, Boot, vars


----------------------------------------------------------------------------
(* Who is followed.                                                        *)

LEMMA FollowedStep ==
    TypeOK /\ RunInv /\ [Next]_vars => RunsFollowed'
<1> SUFFICES ASSUME TypeOK, RunInv, [Next]_vars,
                    up', sessionRunsReattached', ~hasty',
                    NEW i \in Ideas, runStatus'[i] = "running"
             PROVE  Followed(i)'
  BY DEF RunsFollowed
<1> USE DEF ledger, poll, tracker, chains, outside, history
<1>u. /\ DownIsBlank /\ AnswersSound /\ OneOwner /\ CardRunsBound /\ RunsFollowed
      /\ i # None
  BY RunAssumption DEF RunInv
<1>f. ASSUME up, sessionRunsReattached, ~hasty, runStatus[i] = "running"
      PROVE  \/ "card" \in Backends /\ i \in bound
             \/ \E s \in Sessions : sessionRuns[s] = i
  BY <1>f, <1>u DEF RunsFollowed, Followed, Tracked
<1>g. ASSUME \/ "card" \in Backends /\ i \in bound'
             \/ \E s \in Sessions : sessionRuns'[s] = i
      PROVE  Followed(i)'
  BY <1>g, <1>u DEF Followed, Tracked
<1>1. ASSUME NEW k \in Ideas, LaunchOnCard(k) PROVE Followed(i)'
  <2>1. "card" \in Backends /\ bound' = bound \cup {k}
    BY <1>1, <1>u DEF LaunchOnCard, AnswersSound
  <2>2. i # k => runStatus'[i] = runStatus[i]
    BY <1>1 DEF LaunchOnCard, TypeOK
  <2> QED
    BY <1>1, <1>f, <1>g, <2>1, <2>2 DEF LaunchOnCard
<1>2. ASSUME NEW k \in Ideas, LaunchInSession(k) PROVE Followed(i)'
  <2> DEFINE new == answer[k].session
  <2>1. new \in Sessions /\ PointsAt(k, new)
    BY <1>2, <1>u DEF LaunchInSession, AnswersSound, TypeOK, Sessions, PointsAt
  <2>2. /\ runStatus' = [runStatus EXCEPT ![k] = "running"]
        /\ sessionRuns' = [sessionRuns EXCEPT ![new] = k]
        /\ bound' = bound
    BY <1>2 DEF LaunchInSession
  <2>3. up
    BY <1>2 DEF LaunchInSession
  <2>4. sessionRunsReattached /\ ~hasty
    BY <1>2, Zenon DEF LaunchInSession
  <2> HIDE DEF new
  <2>5. CASE i = k
    BY <1>g, <2>1, <2>5, <2>2 DEF TypeOK
  <2>6. CASE i # k
    <3>1. runStatus[i] = "running"
      BY <2>6, <2>2 DEF TypeOK
    <3>2. \A s \in Sessions : sessionRuns[s] = i => s # new
      BY <1>u, <2>1, <2>6 DEF OneOwner, PointsAt
    <3> QED
      BY <1>f, <1>g, <2>4, <2>2, <2>3, <3>1, <3>2 DEF TypeOK
  <2> QED
    BY <2>5, <2>6
<1>3. ASSUME NEW board, sessionRuns' = Reattached(board),
             up, UNCHANGED <<hasty, bound>>, runStatus[i] = "running",
             runSession[i] = 0 => "card" \in Backends /\ i \in bound,
             "card" \in Backends \/ board = None
      PROVE  Followed(i)'
  <2>1. CASE sessionRunsReattached
    BY <1>3, <1>u, <1>f, <1>g, <2>1, ReattachedRuns
  <2>2. CASE ~sessionRunsReattached /\ i \in Adopted(board)
    <3>1. runSession[i] \in Sessions
      BY <2>2, RunAssumption DEF Adopted, TypeOK, Pointers, Sessions
    <3> QED
      BY <1>3, <1>u, <1>g, <2>2, <3>1, ReattachedRuns
  <2>3. CASE i \notin Adopted(board)
    BY <1>3, <1>g, <2>3 DEF Adopted
  <2> QED
    BY <2>1, <2>2, <2>3
<1>4. CASE PollSessions
  <2>1. /\ sessionRuns' = Reattached(None) /\ "card" \notin Backends
        /\ up /\ UNCHANGED <<hasty, bound, runStatus, runSession>>
    BY <1>4 DEF PollSessions
  <2>2. runSession[i] # 0
    BY <1>u, <2>1 DEF CardRunsBound
  <2> QED
    BY <1>3, <2>1, <2>2
<1>5. CASE ApplyStatuses
  <2> DEFINE board == IF statuses = None THEN snapshotTasks ELSE statuses.session
  <2> DEFINE spoken == Spoken(RunsAtBoard(board))
  <2>1. /\ sessionRuns' = Reattached(board) /\ "card" \in Backends
        /\ up /\ UNCHANGED <<hasty, bound>>
        /\ spoken \subseteq bound
        /\ runStatus'[i] = IF i \in spoken /\ TrackedByCard(i)
                           THEN RunStatusOf(Observed(i)) ELSE runStatus[i]
    BY <1>5, <1>u DEF ApplyStatuses, AnswersSound, DownIsBlank, Spoken
  <2> HIDE DEF board, spoken
  <2>2. CASE i \in spoken
    BY <1>g, <2>1, <2>2
  <2>3. CASE i \notin spoken
    <3>1. runStatus[i] = "running"
      BY <2>1, <2>3
    <3>2. runSession[i] = 0 => i \in bound
      BY <1>u, <3>1 DEF CardRunsBound
    <3> QED
      BY <1>3, <2>1, <3>1, <3>2
  <2> QED
    BY <2>2, <2>3
<1>6. CASE ApplyRoster
  <2> DEFINE over == {s \in Sessions : sessionRuns[s] # None /\ Over(s)}
  <2> DEFINE of(j) == {s \in over : sessionRuns[s] = j}
  <2> DEFINE last(j) == CHOOSE s \in of(j) : \A o \in of(j) : o <= s
  <2>1. /\ sessionRuns' = [s \in Sessions |-> IF s \in over THEN None ELSE sessionRuns[s]]
        /\ runStatus' = [j \in Ideas |->
              IF of(j) = {} THEN runStatus[j]
              ELSE IF roster[last(j)] = "idle" THEN "done" ELSE "failed"]
        /\ UNCHANGED <<up, bound, hasty, sessionRunsReattached>>
    BY <1>6 DEF ApplyRoster
  <2>2. \A s \in over : sessionRuns[s] = i => s \in of(i)
    OBVIOUS
  <2> HIDE DEF over, of, last
  <2>3. of(i) = {} /\ runStatus[i] = "running"
    BY <2>1
  <2> QED
    BY <1>f, <1>g, <2>1, <2>2, <2>3
<1>7. CASE Boot
  BY <1>7, <1>u DEF Boot, DownIsBlank
<1>8. CASE Crash
  BY <1>8 DEF Crash
<1>9. CASE /\ UNCHANGED <<runStatus, up, tracker, hasty>> /\ bound \subseteq bound'
  BY <1>9, <1>f, <1>g
<1> QED
  BY <1>1, <1>2, <1>4, <1>5, <1>6, <1>7, <1>8, <1>9
     DEF Next, Launch, AskCard, AskSession, LaunchRefused, Move, Mirror, CardEnds, CardReset,
         CardOpens, PollCards, ReadStatuses, BoardSilent, ReadRoster, RosterUnknown,
         SessionEnds, vars

----------------------------------------------------------------------------
(* The theorems.                                                           *)

LEMMA RunInit == Init => TypeOK /\ RunInv
<1> SUFFICES ASSUME Init PROVE TypeOK /\ RunInv
  OBVIOUS
<1>a. MaxSessions \in Nat /\ Sessions \subseteq 0..MaxSessions /\ 0 \notin Sessions
      /\ \A i \in Ideas : i # None
  BY RunAssumption DEF Sessions
<1>1. /\ NoRuns \in [Sessions -> Ideas \cup {None}]
      /\ NoLaunches \in [Ideas -> 0..MaxQueue]
      /\ NoAnswers \in [Ideas -> [end : {"none", "card", "session", "down", "refused"},
                                  session : 0..MaxSessions]]
  BY <1>a, RunAssumption DEF NoRuns, NoLaunches, NoAnswers, Answer
<1>2. /\ runSession \in Pointers /\ cardSession \in Pointers
      /\ session \in [Sessions -> SessionStates]
  BY <1>a DEF Init, Pointers, SessionStates
<1>3. TypeOK
  <2>1. /\ status \in [Ideas -> {"open", "underReview"}]
        /\ runStatus \in [Ideas -> RunStatuses]
        /\ card \in [Ideas -> CardStatuses]
    BY DEF Init, RunStatuses, CardStatuses
  <2>2. up \in BOOLEAN /\ sessionRunsReattached \in BOOLEAN /\ hasty \in BOOLEAN
    BY DEF Init
  <2>3. /\ polling \in {"idle", "card", "cardRead", "session", "sessionRead"}
        /\ statuses = None /\ roster = None /\ snapshotTasks = None
        /\ bound = {} /\ cardRuns = {} /\ overtaken = {} /\ crashes \in 0..MaxCrashes
    BY RunAssumption DEF Init
  <2>4. sessionRuns = NoRuns /\ launches = NoLaunches /\ answer = NoAnswers
    BY DEF Init
  <2> QED
    BY <1>1, <1>2, <2>1, <2>2, <2>3, <2>4 DEF TypeOK
<1>4. \A i \in Ideas, s \in Sessions : ~PointsAt(i, s)
  BY <1>a DEF Init, PointsAt, NoRuns, NoAnswers, Answer
<1>5. DownIsBlank /\ AnswersSound /\ OneOwner /\ CardsOwn /\ CardRunsBound /\ RosterTold
  BY <1>4 DEF Init, DownIsBlank, AnswersSound, OneOwner, CardsOwn, CardRunsBound,
     RosterTold, NoAnswers, Answer
<1>6. DirectTracked /\ RunsFollowed /\ DirectRunShown
  BY <1>a DEF Init, DirectTracked, RunsFollowed, DirectRunShown
<1> QED
  BY <1>3, <1>5, <1>6 DEF RunInv

LEMMA RunStep == TypeOK /\ RunInv /\ [Next]_vars => TypeOK' /\ RunInv'
<1> SUFFICES ASSUME TypeOK, RunInv, [Next]_vars PROVE TypeOK' /\ RunInv'
  OBVIOUS
<1>1. /\ DownIsBlank /\ AnswersSound /\ OneOwner /\ CardsOwn /\ CardRunsBound /\ RosterTold
  BY DEF RunInv
<1>2. TypeOK' /\ DownIsBlank' /\ AnswersSound' /\ OneOwner'
  BY <1>1, TypeOKStep, BlankStep, AnswersStep, OwnerStep
<1>3. CardsOwn' /\ CardRunsBound' /\ RosterTold'
  BY <1>1, CardsOwnStep, CardRunsBoundStep, RosterToldStep
<1>4. DirectTracked' /\ DirectRunShown' /\ RunsFollowed'
  BY DirectStep, FollowedStep
<1> QED
  BY <1>2, <1>3, <1>4 DEF RunInv

LEMMA RunInvHolds == Spec => [](TypeOK /\ RunInv)
<1>1. TypeOK /\ RunInv /\ [Next]_vars => (TypeOK /\ RunInv)'
  BY RunStep
<1> QED
  BY RunInit, <1>1, PTL DEF Spec

\* The ledger, the tracker and the poll keep their types: a status of the task
\* board reaches an idea as one of the four run statuses only (pollCardRuns).
THEOREM RunTypeCorrect == Spec => []TypeOK
BY RunInvHolds, PTL

\* A process that looked for the runs in flight before it ran a session of its
\* own follows every idea it shows running (reattachSessionRuns, pollRuns).
THEOREM RunsAreFollowed == Spec => []RunsFollowed
<1>1. RunInv => RunsFollowed
  BY DEF RunInv
<1> QED
  BY RunInvHolds, <1>1, PTL

\* A direct run that the process looked for is shown running as long as its
\* session runs, whatever its idea's card says (pollCardRuns, pollSessionRuns).
THEOREM DirectRunsAreShown == Spec => []DirectRunShown
<1>1. RunInv => DirectRunShown
  BY DEF RunInv
<1> QED
  BY RunInvHolds, <1>1, PTL


=============================================================================
