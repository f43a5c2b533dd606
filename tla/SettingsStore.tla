--------------------------- MODULE SettingsStore ---------------------------
(***************************************************************************)
(* The settings document of the host and the tabs that edit it             *)
(* (host-settings.ts, IdeasSettingsStore; client/ideas-client.ts,          *)
(* loadConfig, saveConfig).                                                *)
(*                                                                         *)
(* A write carries the revision its tab holds, and is refused when the     *)
(* document has another.  The value here is the map of launch models by    *)
(* workspace, which a write replaces whole: a tab that builds on an old    *)
(* map takes back what another tab has put in it.  A handler of the host   *)
(* is synchronous: it is one step, and its answer another.                 *)
(***************************************************************************)
EXTENDS Integers

CONSTANTS
    Tabs,
    None,
    Workspaces,
    Models,
    MaxRevision     \* bound on the writes

VARIABLES
    \* the host
    document,       \* the file: "missing", "corrupt" or "valid", with its content
    reported,       \* this process has set a document aside
    \* the tabs
    config,         \* what a tab shows: the view it adopted last
    request,        \* the write of a tab that is on its way
    answer,         \* the answer that is
    \* history
    restarted       \* the revisions were issued afresh

vars == <<document, reported, config, request, answer, restarted>>

Values == [Workspaces -> Models \cup {None}]
Defaults == [w \in Workspaces |-> None]

\* A view without a revision has 0.
Views == [revision : 0..MaxRevision, value : Values]

ASSUME SettingsAssumption ==
    /\ None \notin Models /\ None \notin Views
    /\ MaxRevision \in Nat

Nothing == [revision |-> 0, value |-> Defaults]

\* Types of the document and the views: a document that was written has a
\* revision above 0, and one that is missing or corrupt reads as the defaults.
TypeOK ==
    /\ document \in [kind : {"missing", "corrupt", "valid"}, view : Views]
    /\ document.kind = "valid" => document.view.revision > 0
    /\ document.kind # "valid" => document.view = Nothing
    /\ reported \in BOOLEAN
    /\ config \in [Tabs -> Views]
    /\ request \in [Tabs -> Views \cup {None}]
    /\ answer \in [Tabs -> Views \cup {None}]
    /\ restarted \in BOOLEAN

Missing == [kind |-> "missing", view |-> Nothing]
Corrupt == [kind |-> "corrupt", view |-> Nothing]
Valid(view) == [kind |-> "valid", view |-> view]

Init ==
    /\ document = Missing /\ reported = FALSE
    /\ config = [t \in Tabs |-> Nothing]
    /\ request = [t \in Tabs |-> None]
    /\ answer = [t \in Tabs |-> None]
    /\ restarted = FALSE

----------------------------------------------------------------------------
\* What a load finds: the document, or an error that is taken for corruption.
Loads == {document, Corrupt}

\* What quarantine leaves of the file when a load finds it corrupt: it is
\* renamed, once per process, unless the rename fails.
Left(found) ==
    IF found.kind # "corrupt" \/ reported THEN {document} ELSE {Missing, document}

\* A document is replaced by one that does not continue its revisions: it is
\* not there any more, or the write did not find it.
Restarts(found) ==
    restarted' = \/ restarted
                 \/ /\ document.kind = "valid" /\ document' # document
                    /\ document'.kind # "valid" \/ found.kind # "valid"

\* read: by a tab that loads the page, or by the host itself.  A tab whose
\* answer is lost shows the defaults and saves nothing until it is loaded again:
\* it takes no step, whatever config it has here.
Read(t) ==
    /\ request[t] = None /\ answer[t] = None
    /\ \E found \in Loads :
          /\ document' \in Left(found)
          /\ reported' = (reported \/ found.kind = "corrupt")
          /\ config' \in {config, [config EXCEPT ![t] = found.view]}
          /\ Restarts(found)
    /\ UNCHANGED <<request, answer>>

\* saveConfig: the tab sends its map with one entry changed, and its revision.
Save(t) ==
    /\ request[t] = None /\ answer[t] = None
    /\ \E w \in Workspaces, m \in Models :
          request' = [request EXCEPT ![t] = [config[t] EXCEPT !.value[w] = m]]
    /\ UNCHANGED <<document, reported, config, answer, restarted>>

\* A slip: a write is refused only when it is ahead of the document.
PassesUnlessAhead(revision, current) == revision <= current

\* A write without a revision is not fenced.
Passes(revision, current) == revision = 0 \/ revision = current

\* What the file is after persist: written, or as it was, or torn where the
\* rename failed and so did the direct write.
Persisted(view, left) == {Valid(view), left, Corrupt}

\* A slip: only the first write of a document makes a revision.
SameRevision(current) == IF current = 0 THEN 1 ELSE current

NextRevision(current) == current + 1

\* write.  A write that failed is answered with an error, which changes
\* nothing in the tab, as the refusal of the fence and a lost answer do.
Write(t) ==
    /\ request[t] # None
    /\ request' = [request EXCEPT ![t] = None]
    /\ \E found \in Loads, left \in {Missing, document} :
          LET current == found.view.revision
              view == [revision |-> NextRevision(current), value |-> request[t].value]
          IN  /\ left \in Left(found)
              /\ reported' = (reported \/ found.kind = "corrupt")
              /\ current < MaxRevision
              /\ \/ /\ ~Passes(request[t].revision, current)
                    /\ document' = left /\ answer' = answer
                 \/ /\ Passes(request[t].revision, current)
                    /\ document' \in Persisted(view, left)
                    /\ answer' \in {answer} \cup
                          (IF document' = Valid(view)
                           THEN {[answer EXCEPT ![t] = view]} ELSE {})
              /\ Restarts(found)
    /\ UNCHANGED config

Adopt(t) ==
    /\ answer[t] # None
    /\ config' = [config EXCEPT ![t] = answer[t]]
    /\ answer' = [answer EXCEPT ![t] = None]
    /\ UNCHANGED <<document, reported, request, restarted>>

\* The document is damaged, or the host starts again.
Damage ==
    /\ document.kind = "valid"
    /\ document' = Corrupt
    /\ Restarts(document)
    /\ UNCHANGED <<reported, config, request, answer>>

Reboot ==
    /\ reported
    /\ reported' = FALSE
    /\ UNCHANGED <<document, config, request, answer, restarted>>

Next ==
    \/ \E t \in Tabs : Read(t) \/ Save(t) \/ Write(t) \/ Adopt(t)
    \/ Damage \/ Reboot

Spec == Init /\ [][Next]_vars

----------------------------------------------------------------------------
(* What the fence owes the tabs.                                           *)

\* A revision names one map: a tab that holds the revision of the document
\* shows its map, whatever was lost, refused or torn in between, until the
\* revisions are issued afresh.
InStep(view) ==
    view.revision # 0 =>
        /\ view.revision <= document.view.revision
        /\ view.revision = document.view.revision => view = document.view

RevisionNamesMap ==
    ~restarted => \A t \in Tabs :
        InStep(config[t]) /\ (answer[t] # None => InStep(answer[t]))

\* A fenced write takes back nothing: the map it replaces is the one its tab
\* was looking at ("the revision fence above is what makes a whole-map replace
\* safe").
Written(t) == request[t] # None /\ request'[t] = None /\ document' # document
                /\ document'.kind = "valid"

FencedWritesSafe ==
    [][\A t \in Tabs :
          Written(t) /\ request[t].revision # 0 /\ ~restarted
            => config[t] = document.view]_vars

=============================================================================
