------------------------ MODULE SettingsStoreProofs ------------------------
(* The fence of the settings, for every set of tabs, workspaces and models. *)
EXTENDS SettingsStore, TLAPS

\* A write on its way carries the revision its tab shows, and no answer is on
\* its way to that tab.
Carried ==
    \A t \in Tabs : request[t] # None =>
        answer[t] = None /\ request[t].revision = config[t].revision

FenceInv == Carried /\ RevisionNamesMap

LEMMA ViewParts ==
    ASSUME NEW view \in Views
    PROVE  /\ view.revision \in 0..MaxRevision /\ view.value \in Values
           /\ view = [revision |-> view.revision, value |-> view.value]
BY DEF Views

LEMMA NothingIsView == Nothing \in Views
BY SettingsAssumption DEF Nothing, Views, Defaults, Values

\* The document, the views of the tabs and what is on its way keep their types.
THEOREM SettingsTypeCorrect == Spec => []TypeOK
<1>1. Init => TypeOK
  <2> SUFFICES ASSUME Init PROVE TypeOK
    OBVIOUS
  <2>1. document.view = Nothing /\ document.kind = "missing" /\ document = [kind |-> "missing", view |-> Nothing]
    BY DEF Init, Missing
  <2> QED
    BY <2>1, NothingIsView DEF Init, TypeOK
<1>2. TypeOK /\ [Next]_vars => TypeOK'
  <2> SUFFICES ASSUME TypeOK, [Next]_vars PROVE TypeOK'
    OBVIOUS
  <2>a. \A found \in Loads : found.view \in Views /\ found.view.revision \in 0..MaxRevision
    BY NothingIsView DEF TypeOK, Loads, Corrupt, Views
  <2>b. \A left \in {Missing, document, Corrupt} :
           /\ left \in [kind : {"missing", "corrupt", "valid"}, view : Views]
           /\ left.kind = "valid" => left.view.revision > 0
           /\ left.kind # "valid" => left.view = Nothing
    BY NothingIsView DEF TypeOK, Missing, Corrupt
  <2>c. \A found : Left(found) \subseteq {Missing, document}
    BY DEF Left
  <2>1. ASSUME NEW t \in Tabs, Read(t) PROVE TypeOK'
    <3> PICK found \in Loads :
          /\ document' \in Left(found)
          /\ reported' = (reported \/ found.kind = "corrupt")
          /\ config' \in {config, [config EXCEPT ![t] = found.view]}
          /\ Restarts(found)
      BY <2>1 DEF Read
    <3>1. config' \in [Tabs -> Views]
      BY <2>a DEF TypeOK
    <3>2. reported' \in BOOLEAN /\ restarted' \in BOOLEAN
      BY Zenon DEF Restarts
    <3> QED
      BY <2>1, <2>b, <2>c, <3>1, <3>2 DEF Read, TypeOK
  <2>2. ASSUME NEW t \in Tabs, Save(t) PROVE TypeOK'
    <3> PICK w \in Workspaces, m \in Models :
          request' = [request EXCEPT ![t] = [config[t] EXCEPT !.value[w] = m]]
      BY <2>2 DEF Save
    <3>1. [config[t] EXCEPT !.value[w] = m] \in Views
      BY ViewParts DEF TypeOK, Views, Values
    <3> QED
      BY <2>2, <3>1 DEF Save, TypeOK
  <2>3. ASSUME NEW t \in Tabs, Write(t) PROVE TypeOK'
    <3> PICK found \in Loads, left \in {Missing, document} :
          LET current == found.view.revision
              view == [revision |-> NextRevision(current), value |-> request[t].value]
          IN  /\ left \in Left(found)
              /\ reported' = (reported \/ found.kind = "corrupt")
              /\ current < MaxRevision
              /\ \/ /\ ~Passes(request[t].revision, current)
                    /\ document' = left /\ answer' = answer
                 \/ /\ Passes(request[t].revision, current)
                    /\ document' \in Persisted(view, left)
                    /\ answer' \in {answer} \cup
                          (IF document' = Valid(view)
                           THEN {[answer EXCEPT ![t] = view]} ELSE {})
              /\ Restarts(found)
      BY <2>3 DEF Write
    <3> DEFINE view == [revision |-> found.view.revision + 1, value |-> request[t].value]
    <3>1. request[t] \in Views
      BY <2>3 DEF Write, TypeOK
    <3>2. view \in Views /\ view.revision > 0
      BY <2>a, <3>1, ViewParts, SettingsAssumption DEF Views
    <3>3. document' \in {Valid(view), Missing, document, Corrupt}
      BY DEF Persisted, NextRevision
    <3>4. answer' \in [Tabs -> Views \cup {None}]
      BY <3>2 DEF TypeOK, NextRevision
    <3>5. reported' \in BOOLEAN /\ restarted' \in BOOLEAN
      BY Zenon DEF Restarts
    <3>6. /\ document' \in [kind : {"missing", "corrupt", "valid"}, view : Views]
          /\ document'.kind = "valid" => document'.view.revision > 0
          /\ document'.kind # "valid" => document'.view = Nothing
      BY <2>b, <3>2, <3>3 DEF Valid
    <3> QED
      BY <2>3, <3>4, <3>5, <3>6 DEF Write, TypeOK
  <2>4. ASSUME NEW t \in Tabs, Adopt(t) PROVE TypeOK'
    BY <2>4 DEF Adopt, TypeOK
  <2>5. ASSUME Damage PROVE TypeOK'
    <3>1. restarted' \in BOOLEAN
      BY <2>5, Zenon DEF Damage, Restarts
    <3> QED
      BY <2>5, <2>b, <3>1 DEF Damage, TypeOK
  <2>6. ASSUME Reboot PROVE TypeOK'
    BY <2>6 DEF Reboot, TypeOK
  <2>7. ASSUME UNCHANGED vars PROVE TypeOK'
    BY <2>7 DEF vars, TypeOK
  <2> QED
    BY <2>1, <2>2, <2>3, <2>4, <2>5, <2>6, <2>7 DEF Next
<1> QED
  BY <1>1, <1>2, PTL DEF Spec

----------------------------------------------------------------------------
LEMMA FenceInvStep == TypeOK /\ TypeOK' /\ FenceInv /\ [Next]_vars => FenceInv'
<1> SUFFICES ASSUME TypeOK, TypeOK', FenceInv, [Next]_vars PROVE FenceInv'
  OBVIOUS
<1> USE DEF FenceInv
<1>0. Nothing.revision = 0 /\ \A view \in Views : view.revision \in 0..MaxRevision
  BY ViewParts DEF Nothing
<1>a. Corrupt.view = Nothing /\ Missing.view = Nothing /\ Corrupt.kind = "corrupt"
        /\ Missing.kind = "missing"
  BY DEF Corrupt, Missing
<1>1. ASSUME NEW t \in Tabs, Read(t) PROVE FenceInv'
  <2> PICK found \in Loads :
        /\ document' \in Left(found)
        /\ config' \in {config, [config EXCEPT ![t] = found.view]}
        /\ Restarts(found)
    BY <1>1 DEF Read
  <2>1. request[t] = None /\ answer[t] = None /\ UNCHANGED <<request, answer>>
    BY <1>1 DEF Read
  <2>2. Carried'
    BY <2>1 DEF Carried, TypeOK
  <2>3. ASSUME ~restarted' PROVE RevisionNamesMap'
    <3>1. ~restarted /\ document' \in {Missing, document}
      BY <2>3 DEF Restarts, Left
    <3>2. document'.view = document.view
      BY <2>3, <3>1, <1>a DEF Restarts, TypeOK
    <3>3. found.view = document.view \/ found.view = Nothing
      BY <1>a DEF Loads
    <3>4. \A o \in Tabs : config'[o] = config[o] \/ config'[o] = found.view
      BY DEF TypeOK
    <3> QED
      BY <1>0, <2>1, <3>1, <3>2, <3>3, <3>4 DEF RevisionNamesMap, InStep, TypeOK
  <2> QED
    BY <2>2, <2>3 DEF RevisionNamesMap
<1>2. ASSUME NEW t \in Tabs, Save(t) PROVE FenceInv'
  <2> PICK w \in Workspaces, m \in Models :
        request' = [request EXCEPT ![t] = [config[t] EXCEPT !.value[w] = m]]
    BY <1>2 DEF Save
  <2>1. request'[t].revision = config[t].revision
    BY ViewParts DEF TypeOK
  <2>2. answer[t] = None /\ UNCHANGED <<document, config, answer, restarted>>
    BY <1>2 DEF Save
  <2> QED
    BY <2>1, <2>2 DEF Carried, RevisionNamesMap, InStep, TypeOK
<1>3. ASSUME NEW t \in Tabs, Write(t) PROVE FenceInv'
  <2> PICK found \in Loads, left \in {Missing, document} :
        LET current == found.view.revision
            view == [revision |-> NextRevision(current), value |-> request[t].value]
        IN  /\ left \in Left(found)
            /\ \/ /\ ~Passes(request[t].revision, current)
                  /\ document' = left /\ answer' = answer
               \/ /\ Passes(request[t].revision, current)
                  /\ document' \in Persisted(view, left)
                  /\ answer' \in {answer} \cup
                        (IF document' = Valid(view)
                         THEN {[answer EXCEPT ![t] = view]} ELSE {})
            /\ Restarts(found)
    BY <1>3 DEF Write
  <2> DEFINE view == [revision |-> found.view.revision + 1, value |-> request[t].value]
  <2>1. request[t] # None /\ request' = [request EXCEPT ![t] = None] /\ config' = config
    BY <1>3 DEF Write
  <2>2. Carried'
    BY <2>1 DEF Carried, TypeOK
  <2>3. ASSUME ~restarted' PROVE RevisionNamesMap'
    <3>1. ~restarted /\ document' \in {Valid(view), Missing, document, Corrupt}
      BY <2>3 DEF Restarts, Persisted, NextRevision
    <3>2. CASE document' # Valid(view)
      <4>1. answer' = answer
        BY <3>2 DEF Persisted, NextRevision
      <4>2. document'.view = document.view
        BY <2>3, <3>1, <3>2, <1>a DEF Restarts, TypeOK
      <4> QED
        BY <2>1, <3>1, <4>1, <4>2 DEF RevisionNamesMap, InStep
    <3>3. CASE document' = Valid(view) /\ document' = document
      <4>1. view = document.view
        BY <3>3 DEF Valid
      <4>2. \A o \in Tabs : answer'[o] = answer[o] \/ answer'[o] = document.view
        BY <4>1 DEF TypeOK, NextRevision
      <4> QED
        BY <2>1, <3>1, <3>3, <4>2, <1>0 DEF RevisionNamesMap, InStep, TypeOK
    <3>4. CASE document' = Valid(view) /\ document' # document
      <4>1. document'.kind = "valid" /\ document'.view = view /\ view.revision = found.view.revision + 1
        BY <3>4 DEF Valid
      <4>2. found.view.revision = document.view.revision /\ document.view.revision \in 0..MaxRevision
        <5>1. document.kind = "valid" => found.kind = "valid"
          BY <2>3, <3>4 DEF Restarts
        <5> QED
          BY <5>1, <1>a, <1>0 DEF Loads, TypeOK
      <4>3. \A o \in Tabs : answer'[o] = answer[o] \/ answer'[o] = view
        BY <3>4 DEF TypeOK, NextRevision
      <4>4. \A o \in Tabs : config[o].revision \in 0..MaxRevision
              /\ (answer[o] # None => answer[o].revision \in 0..MaxRevision)
        BY <1>0 DEF TypeOK
      <4> QED
        BY <2>1, <3>1, <4>1, <4>2, <4>3, <4>4 DEF RevisionNamesMap, InStep
    <3> QED
      BY <3>2, <3>3, <3>4
  <2> QED
    BY <2>2, <2>3 DEF RevisionNamesMap
<1>4. ASSUME NEW t \in Tabs, Adopt(t) PROVE FenceInv'
  BY <1>4 DEF Adopt, Carried, RevisionNamesMap, InStep, TypeOK
<1>5. ASSUME Damage PROVE FenceInv'
  <2>1. restarted'
    BY <1>5, <1>a DEF Damage, Restarts
  <2> QED
    BY <1>5, <2>1 DEF Damage, Carried, RevisionNamesMap
<1>6. ASSUME Reboot PROVE FenceInv'
  BY <1>6 DEF Reboot, Carried, RevisionNamesMap, InStep
<1>7. ASSUME UNCHANGED vars PROVE FenceInv'
  BY <1>7 DEF vars, Carried, RevisionNamesMap, InStep
<1> QED
  BY <1>1, <1>2, <1>3, <1>4, <1>5, <1>6, <1>7 DEF Next

LEMMA FenceInvInit == Init => FenceInv
BY DEF Init, FenceInv, Carried, RevisionNamesMap, InStep, Nothing

\* A tab that holds the revision of the document shows its map.
THEOREM RevisionsNameMaps == Spec => []RevisionNamesMap
<1> FenceInv => RevisionNamesMap
  BY DEF FenceInv
<1> QED
  BY SettingsTypeCorrect, FenceInvInit, FenceInvStep, PTL DEF Spec

\* A fenced write takes back nothing that its tab had not seen.
THEOREM FencedWritesAreSafe == Spec => FencedWritesSafe
<1>1. ASSUME TypeOK, FenceInv, [Next]_vars, NEW t \in Tabs,
             Written(t), request[t].revision # 0, ~restarted
      PROVE  config[t] = document.view
  <2>1. Write(t)
    BY <1>1 DEF Next, vars, Written, Read, Save, Write, Adopt, Damage, Reboot, TypeOK
  <2> PICK found \in Loads, left \in {Missing, document} :
        LET current == found.view.revision
            view == [revision |-> NextRevision(current), value |-> request[t].value]
        IN  \/ ~Passes(request[t].revision, current) /\ document' = left
            \/ Passes(request[t].revision, current)
    BY <2>1 DEF Write
  <2>2. Passes(request[t].revision, found.view.revision)
    BY <1>1 DEF Written, Missing
  <2>3. found.view.revision = request[t].revision /\ found = document
    BY <1>1, <2>2 DEF Passes, Loads, Corrupt, Nothing
  <2>4. config[t].revision = request[t].revision /\ InStep(config[t])
    BY <1>1 DEF FenceInv, Carried, RevisionNamesMap, Written
  <2> QED
    BY <1>1, <2>3, <2>4 DEF InStep
<1>2. TypeOK /\ FenceInv /\ [Next]_vars
        => [\A t \in Tabs : Written(t) /\ request[t].revision # 0 /\ ~restarted
                => config[t] = document.view]_vars
  BY <1>1
<1> QED
  BY <1>2, SettingsTypeCorrect, FenceInvInit, FenceInvStep, PTL DEF Spec, FencedWritesSafe

=============================================================================
