-------------------------- MODULE LedgerLockProofs --------------------------
(* One writer per ledger, for every set of hosts and pids and for every way *)
(* pids are shared and reused.                                              *)
EXTENDS LedgerLock, FiniteSetTheorems, TLAPS

\* Undisturbed, an owner has its marker in the lock, a host about to write its
\* marker has made the lock, and nobody removes a lock that has an owner.
OwnerMarked ==
    \A h \in Hosts : pc[h] = "owner" => lock /\ marker = h

MakerAlone ==
    \A h \in Hosts : pc[h] = "mark" => lock /\ marker = None

MarkerInLock == ~lock => marker = None

RemovedIfStale ==
    \A g, h \in Hosts : pc[h] \in {"unlink", "rmdir"} => pc[g] # "owner"

\* The process of a host that has booted and not died is alive.
HostsLive ==
    \A h \in Hosts : pc[h] \notin {"unborn", "dead"} => PidOf[h] \in hosting

LockInv ==
    /\ HostsLive
    /\ Undisturbed => OwnerMarked /\ MakerAlone /\ MarkerInLock /\ RemovedIfStale

----------------------------------------------------------------------------
\* The lock directory, the marker and the steps of every host keep their types.
THEOREM LockTypeCorrect == Spec => []TypeOK
<1>1. Init => TypeOK
  <2> SUFFICES ASSUME Init PROVE TypeOK
    OBVIOUS
  <2>1. attempt \in [Hosts -> 0..MaxAttempts]
    BY DEF Init, MaxAttempts
  <2>2. pc \in [Hosts -> Steps]
    BY DEF Init, Steps
  <2> QED
    BY <2>1, <2>2 DEF Init, TypeOK
<1>2. TypeOK /\ [Next]_vars => TypeOK'
  <2> SUFFICES ASSUME TypeOK, [Next]_vars PROVE TypeOK'
    OBVIOUS
  <2> USE LockAssumption DEF TypeOK, Steps, Midway, Turned, Goes, processes, history, files
  <2>1. ASSUME NEW h \in Hosts, Boot(h) PROVE TypeOK'
    BY <2>1 DEF Boot, MaxAttempts
  <2>2. ASSUME NEW h \in Hosts, MakeLock(h) PROVE TypeOK'
    BY <2>2 DEF MakeLock, Crosses
  <2>3. ASSUME NEW h \in Hosts, WriteMarker(h) PROVE TypeOK'
    <3>1. attempt' \in [Hosts -> 0..MaxAttempts]
      BY <2>3 DEF WriteMarker, MaxAttempts
    <3>2. failed' \in BOOLEAN /\ crossed' \in BOOLEAN
      BY <2>3, Zenon DEF WriteMarker, Crosses
    <3> QED
      BY <2>3, <3>1, <3>2 DEF WriteMarker
  <2>4. ASSUME NEW h \in Hosts, ReadOwner(h) PROVE TypeOK'
    BY <2>4 DEF ReadOwner
  <2>5. ASSUME NEW h \in Hosts, Unlink(h) PROVE TypeOK'
    BY <2>5 DEF Unlink, Crosses
  <2>6. ASSUME NEW h \in Hosts, RemoveLock(h) PROVE TypeOK'
    <3>1. AfterRemoval(h) \in {"released", "gaveUp", "mkdir"}
      BY DEF AfterRemoval
    <3>2. AfterRemoval(h) = "mkdir" => attempt[h] # 0 /\ attempt[h] # MaxAttempts
      BY DEF AfterRemoval
    <3>3. attempt' \in [Hosts -> 0..MaxAttempts]
      BY <2>6, <3>2 DEF RemoveLock, MaxAttempts
    <3>4. lock' \in BOOLEAN /\ failed' \in BOOLEAN /\ crossed' \in BOOLEAN
      BY <2>6, Zenon DEF RemoveLock, Crosses
    <3> QED
      BY <2>6, <3>1, <3>3, <3>4 DEF RemoveLock
  <2>7. ASSUME NEW h \in Hosts, Dispose(h) PROVE TypeOK'
    BY <2>7 DEF Dispose
  <2>8. ASSUME NEW p \in Pids, Crash(p) PROVE TypeOK'
    BY <2>8 DEF Crash, MaxAttempts
  <2>9. ASSUME NEW p \in Pids, Reuse(p) PROVE TypeOK'
    BY <2>9 DEF Reuse
  <2>10. ASSUME UNCHANGED vars PROVE TypeOK'
    BY <2>10 DEF vars
  <2> QED
    BY <2>1, <2>2, <2>3, <2>4, <2>5, <2>6, <2>7, <2>8, <2>9, <2>10 DEF Next
<1> QED
  BY <1>1, <1>2, PTL DEF Spec

----------------------------------------------------------------------------
LEMMA LockInvStep == TypeOK /\ LockInv /\ [Next]_vars => LockInv'
<1> SUFFICES ASSUME TypeOK, LockInv, [Next]_vars PROVE LockInv'
  OBVIOUS
<1> USE LockAssumption DEF TypeOK, Goes, processes, history, files
<1> DEFINE Lock == OwnerMarked /\ MakerAlone /\ MarkerInLock /\ RemovedIfStale
<1>a. HostsLive
  BY DEF LockInv
<1>b. Undisturbed => Lock
  BY DEF LockInv
<1>1. ASSUME NEW h \in Hosts, Boot(h) PROVE LockInv'
  <2>1. HostsLive'
    BY <1>1, <1>a DEF Boot, HostsLive
  <2>2. Undisturbed' => Lock'
    BY <1>1, <1>b DEF Boot, Undisturbed, OwnerMarked, MakerAlone, MarkerInLock, RemovedIfStale
  <2> QED
    BY <2>1, <2>2 DEF LockInv
<1>2. ASSUME NEW h \in Hosts, MakeLock(h) PROVE LockInv'
  <2>1. HostsLive'
    BY <1>2, <1>a DEF MakeLock, HostsLive
  <2>2. Undisturbed' => Lock'
    BY <1>2, <1>b DEF MakeLock, Crosses, Undisturbed, OwnerMarked, MakerAlone, MarkerInLock, RemovedIfStale
  <2> QED
    BY <2>1, <2>2 DEF LockInv
<1>3. ASSUME NEW h \in Hosts, WriteMarker(h) PROVE LockInv'
  <2>1. HostsLive'
    BY <1>3, <1>a DEF WriteMarker, HostsLive
  <2>2. ASSUME Undisturbed' PROVE Lock'
    <3>1. Undisturbed /\ Lock /\ lock /\ marker = None /\ marker' = h /\ lock' = lock
      BY <1>3, <1>b, <2>2 DEF WriteMarker, Crosses, Undisturbed, MakerAlone
    <3>2. \A g \in Hosts \ {h} : pc[g] \notin Midway /\ pc[g] # "owner" /\ pc'[g] = pc[g]
      BY <1>3, <2>2, <3>1 DEF WriteMarker, Crosses, Undisturbed, OwnerMarked
    <3>3. pc'[h] = "owner"
      BY <1>3 DEF WriteMarker
    <3> QED
      BY <3>1, <3>2, <3>3 DEF OwnerMarked, MakerAlone, MarkerInLock, RemovedIfStale, Midway
  <2> QED
    BY <2>1, <2>2 DEF LockInv
<1>4. ASSUME NEW h \in Hosts, ReadOwner(h) PROVE LockInv'
  <2>1. HostsLive'
    BY <1>4, <1>a DEF ReadOwner, HostsLive
  <2>2. ASSUME Undisturbed' PROVE Lock'
    <3>1. Undisturbed /\ Lock /\ UNCHANGED <<lock, marker>>
      BY <1>4, <1>b, <2>2 DEF ReadOwner, Undisturbed
    <3>2. ASSUME NEW g \in Hosts, pc'[h] = "unlink" PROVE pc[g] # "owner"
      <4> SUFFICES ASSUME pc[g] = "owner" PROVE FALSE
        OBVIOUS
      <4>1. marker = g /\ g # h /\ PidOf[g] \in hosting
        BY <1>4, <1>a, <3>1 DEF ReadOwner, OwnerMarked, HostsLive
      <4>2. CASE attempt[h] = 0
        BY <1>4, <3>2, <4>1, <4>2 DEF ReadOwner, Removes
      <4>3. CASE attempt[h] # 0
        <5>1. Takes(h) /\ attempt[h] > 0
          BY <1>4, <3>2, <4>3, SMT DEF ReadOwner, MaxAttempts
        <5>2. PidOf[g] \notin CanSignal[PidOf[h]]
          BY <4>1, <5>1 DEF Takes, processIsAlive, Alive
        <5> QED
          BY <1>4, <2>2, <4>1, <5>1, <5>2 DEF ReadOwner, Undisturbed, Alive
      <4> QED
        BY <4>2, <4>3
    <3>3. \A g \in Hosts : pc'[g] \in {"unlink", "rmdir", "owner", "mark"} /\ g # h => pc'[g] = pc[g]
      BY <1>4 DEF ReadOwner
    <3>4. pc'[h] \in {"unlink", "released", "refused"}
      BY <1>4 DEF ReadOwner
    <3>5. \A g \in Hosts \ {h} : pc'[g] = pc[g]
      BY <1>4 DEF ReadOwner
    <3>6. pc[h] = "read"
      BY <1>4 DEF ReadOwner
    <3>7. OwnerMarked' /\ MakerAlone' /\ MarkerInLock'
      BY <3>1, <3>4, <3>5 DEF OwnerMarked, MakerAlone, MarkerInLock
    <3>8. RemovedIfStale'
      BY <3>1, <3>2, <3>4, <3>5 DEF RemovedIfStale
    <3> QED
      BY <3>7, <3>8
  <2> QED
    BY <2>1, <2>2 DEF LockInv
<1>5. ASSUME NEW h \in Hosts, Unlink(h) PROVE LockInv'
  <2>1. HostsLive'
    BY <1>5, <1>a DEF Unlink, HostsLive
  <2>2. Undisturbed' => Lock'
    BY <1>5, <1>b DEF Unlink, Crosses, Undisturbed, OwnerMarked, MakerAlone, MarkerInLock, RemovedIfStale
  <2> QED
    BY <2>1, <2>2 DEF LockInv
<1>6. ASSUME NEW h \in Hosts, RemoveLock(h) PROVE LockInv'
  <2>0. pc'[h] \in {"released", "gaveUp", "mkdir"} /\ \A g \in Hosts \ {h} : pc'[g] = pc[g]
    BY <1>6 DEF RemoveLock, AfterRemoval
  <2>1. HostsLive'
    BY <1>6, <1>a, <2>0 DEF RemoveLock, HostsLive
  <2>2. ASSUME Undisturbed' PROVE Lock'
    <3>1. Undisturbed /\ Lock /\ marker' = marker /\ lock' = (lock /\ marker # None)
      BY <1>6, <1>b, <2>2 DEF RemoveLock, Crosses, Undisturbed
    <3>2. \A g \in Hosts : pc[g] # "owner"
      BY <1>6, <3>1 DEF RemoveLock, RemovedIfStale
    <3>3. \A g \in Hosts \ {h} : pc[g] = "mark" => lock' = lock
      BY <1>6, <2>2 DEF RemoveLock, Crosses, Undisturbed, Midway
    <3> QED
      BY <2>0, <3>1, <3>2, <3>3 DEF OwnerMarked, MakerAlone, MarkerInLock, RemovedIfStale
  <2> QED
    BY <2>1, <2>2 DEF LockInv
<1>7. ASSUME NEW h \in Hosts, Dispose(h) PROVE LockInv'
  <2>1. HostsLive'
    BY <1>7, <1>a DEF Dispose, HostsLive
  <2>2. Undisturbed' => Lock'
    BY <1>7, <1>b DEF Dispose, Undisturbed, OwnerMarked, MakerAlone, MarkerInLock, RemovedIfStale
  <2> QED
    BY <2>1, <2>2 DEF LockInv
<1>8. ASSUME NEW p \in Pids, Crash(p) PROVE LockInv'
  <2>1. HostsLive'
    BY <1>8, <1>a DEF Crash, HostsLive
  <2>2. Undisturbed' => Lock'
    BY <1>8, <1>b DEF Crash, Undisturbed, OwnerMarked, MakerAlone, MarkerInLock, RemovedIfStale
  <2> QED
    BY <2>1, <2>2 DEF LockInv
<1>9. ASSUME NEW p \in Pids, Reuse(p) PROVE LockInv'
  BY <1>9, <1>a, <1>b DEF Reuse, LockInv, HostsLive, Undisturbed, OwnerMarked, MakerAlone, MarkerInLock, RemovedIfStale
<1>10. ASSUME UNCHANGED vars PROVE LockInv'
  BY <1>10 DEF vars, LockInv, HostsLive, Undisturbed, OwnerMarked, MakerAlone, MarkerInLock, RemovedIfStale
<1> QED
  BY <1>1, <1>2, <1>3, <1>4, <1>5, <1>6, <1>7, <1>8, <1>9, <1>10 DEF Next

\* Two hosts never write one ledger while nobody changes the lock under the
\* feet of another, file operations work and live processes can be seen:
\* crashes, stale locks, reused pids and hosts that share a process included.
THEOREM OneWriter == Spec => []SingleWriter
<1>1. Init => LockInv
  BY DEF Init, LockInv, HostsLive, OwnerMarked, MakerAlone, MarkerInLock, RemovedIfStale
<1>2. LockInv => SingleWriter
  BY DEF LockInv, SingleWriter, Writers, OwnerMarked
<1> QED
  BY <1>1, <1>2, LockTypeCorrect, LockInvStep, PTL DEF Spec

----------------------------------------------------------------------------
(* Why a host is turned away.                                              *)

\* Undisturbed, a marker is that of a host that owns the lock, is about to
\* remove it, or died with it.
MarkerOfOwner ==
    marker \in Hosts => /\ attempt[marker] = 0
                        /\ pc[marker] \in {"owner", "read", "unlink", "dead"}

UnlinkedFirst == \A h \in Hosts : pc[h] = "rmdir" => marker = None

\* Every attempt of a host met a lock that another had made since its last one.
AttemptsMet ==
    \A h \in Hosts :
        /\ pc[h] = "mkdir" => /\ attempt[h] > 0
                              /\ Cardinality(makers) >= attempt[h] - 1
                              /\ lock => Cardinality(makers) >= attempt[h]
        /\ pc[h] \in {"read", "unlink", "rmdir"} /\ attempt[h] > 0 =>
              Cardinality(makers) >= attempt[h]

\* A host that still has to make the lock, or does not own the one it found,
\* made none: each host makes one at most.
NotYetMaker ==
    \A h \in Hosts :
        pc[h] \in {"unborn", "mkdir"} \/ (attempt[h] > 0 /\ pc[h] # "mark") => h \notin makers

MadeBySome == lock => makers # {}

OwnerTriesNot == \A h \in Hosts : pc[h] = "owner" => attempt[h] = 0

CauseInv ==
    /\ IsFiniteSet(makers)
    /\ NotYetMaker /\ MadeBySome /\ OwnerTriesNot
    /\ Undisturbed => MarkerOfOwner /\ UnlinkedFirst /\ AttemptsMet

\* One more maker counts for one.
LEMMA OneMoreMaker ==
    ASSUME IsFiniteSet(makers), NEW h, h \notin makers
    PROVE  /\ Cardinality(makers) \in Nat
           /\ IsFiniteSet(makers \cup {h})
           /\ Cardinality(makers \cup {h}) = Cardinality(makers) + 1
BY FS_AddElement, FS_CardinalityType

LEMMA MadeOne ==
    ASSUME IsFiniteSet(makers)
    PROVE  /\ Cardinality(makers) \in Nat
           /\ makers # {} => Cardinality(makers) >= 1
BY FS_EmptySet, FS_CardinalityType

LEMMA CauseInvStep == TypeOK /\ LockInv /\ CauseInv /\ [Next]_vars => CauseInv'
<1> SUFFICES ASSUME TypeOK, LockInv, CauseInv, [Next]_vars PROVE CauseInv'
  OBVIOUS
<1> USE LockAssumption DEF TypeOK, Goes, processes, history, files
<1> DEFINE Made == IsFiniteSet(makers) /\ NotYetMaker /\ MadeBySome /\ OwnerTriesNot
<1> DEFINE Met == MarkerOfOwner /\ UnlinkedFirst /\ AttemptsMet
<1>a. Made /\ (Undisturbed => Met)
  BY DEF CauseInv
<1>b. Undisturbed => MarkerInLock
  BY DEF LockInv
<1>c. \A h \in Hosts : attempt[h] \in 0..4
  BY DEF MaxAttempts
<1>d. Cardinality(makers) \in Nat
  BY <1>a, MadeOne
<1>1. ASSUME NEW h \in Hosts, Boot(h) PROVE CauseInv'
  <2>1. Made'
    BY <1>1, <1>a DEF Boot, NotYetMaker, MadeBySome, OwnerTriesNot
  <2>2. ASSUME Undisturbed' PROVE Met'
    <3>1. Met
      BY <1>1, <1>a, <2>2 DEF Boot, Undisturbed
    <3>2. MarkerOfOwner' /\ UnlinkedFirst'
      BY <1>1, <3>1 DEF Boot, MarkerOfOwner, UnlinkedFirst
    <3>3. lock => Cardinality(makers) >= 1
      BY <1>a, MadeOne DEF MadeBySome
    <3>4. AttemptsMet'
      BY <1>1, <1>c, <1>d, <3>1, <3>3 DEF Boot, AttemptsMet
    <3> QED
      BY <3>2, <3>4
  <2> QED
    BY <2>1, <2>2 DEF CauseInv
<1>2. ASSUME NEW h \in Hosts, MakeLock(h) PROVE CauseInv'
  <2>1. h \notin makers
    BY <1>2, <1>a DEF MakeLock, NotYetMaker
  <2>2. /\ IsFiniteSet(makers \cup {h})
        /\ Cardinality(makers \cup {h}) = Cardinality(makers) + 1
    BY <1>a, <2>1, OneMoreMaker
  <2>3. Made'
    BY <1>2, <1>a, <2>2 DEF MakeLock, NotYetMaker, MadeBySome, OwnerTriesNot
  <2>4. ASSUME Undisturbed' PROVE Met'
    <3>1. Met
      BY <1>2, <1>a, <2>4 DEF MakeLock, Undisturbed, Crosses
    <3>2. MarkerOfOwner' /\ UnlinkedFirst'
      BY <1>2, <3>1 DEF MakeLock, MarkerOfOwner, UnlinkedFirst
    <3>3. /\ lock => Cardinality(makers') = Cardinality(makers)
          /\ ~lock => Cardinality(makers') = Cardinality(makers) + 1
      BY <1>2, <2>2 DEF MakeLock
    <3>4. AttemptsMet'
      BY <1>2, <1>c, <1>d, <3>1, <3>3 DEF MakeLock, AttemptsMet
    <3> QED
      BY <3>2, <3>4
  <2> QED
    BY <2>3, <2>4 DEF CauseInv
<1>3. ASSUME NEW h \in Hosts, WriteMarker(h) PROVE CauseInv'
  <2>1. Made'
    BY <1>3, <1>a, <1>c DEF WriteMarker, NotYetMaker, MadeBySome, OwnerTriesNot
  <2>2. ASSUME Undisturbed' PROVE Met'
    <3>1. Met /\ marker' = (IF lock THEN h ELSE marker)
      BY <1>3, <1>a, <2>2 DEF WriteMarker, Undisturbed, Crosses
    <3>2. MarkerOfOwner'
      BY <1>3, <3>1 DEF WriteMarker, MarkerOfOwner
    <3>3. UnlinkedFirst'
      BY <1>3, <2>2, <3>1 DEF WriteMarker, UnlinkedFirst, Undisturbed, Crosses, Midway
    <3>4. AttemptsMet'
      BY <1>3, <1>c, <3>1 DEF WriteMarker, AttemptsMet
    <3> QED
      BY <3>2, <3>3, <3>4
  <2> QED
    BY <2>1, <2>2 DEF CauseInv
<1>4. ASSUME NEW h \in Hosts, ReadOwner(h) PROVE CauseInv'
  <2>1. Made'
    BY <1>4, <1>a, <1>c DEF ReadOwner, NotYetMaker, MadeBySome, OwnerTriesNot
  <2>2. ASSUME Undisturbed' PROVE Met'
    <3>1. Met
      BY <1>4, <1>a, <2>2 DEF ReadOwner, Undisturbed
    <3>2. MarkerOfOwner'
      BY <1>4, <3>1 DEF ReadOwner, MarkerOfOwner, Removes
    <3>3. UnlinkedFirst' /\ AttemptsMet'
      BY <1>4, <1>c, <3>1 DEF ReadOwner, UnlinkedFirst, AttemptsMet
    <3> QED
      BY <3>2, <3>3
  <2> QED
    BY <2>1, <2>2 DEF CauseInv
<1>5. ASSUME NEW h \in Hosts, Unlink(h) PROVE CauseInv'
  <2>1. Made'
    BY <1>5, <1>a, <1>c DEF Unlink, NotYetMaker, MadeBySome, OwnerTriesNot
  <2>2. ASSUME Undisturbed' PROVE Met'
    <3>1. Met /\ marker' = None
      BY <1>5, <1>a, <2>2 DEF Unlink, Undisturbed, Crosses
    <3>2. MarkerOfOwner' /\ UnlinkedFirst'
      BY <3>1 DEF MarkerOfOwner, UnlinkedFirst
    <3>3. AttemptsMet'
      BY <1>5, <1>c, <3>1 DEF Unlink, AttemptsMet
    <3> QED
      BY <3>2, <3>3
  <2> QED
    BY <2>1, <2>2 DEF CauseInv
<1>6. ASSUME NEW h \in Hosts, RemoveLock(h) PROVE CauseInv'
  <2>0. /\ pc'[h] \in {"released", "gaveUp", "mkdir"}
        /\ pc'[h] = "mkdir" => attempt[h] > 0 /\ attempt'[h] = attempt[h] + 1
        /\ pc'[h] # "mkdir" => attempt'[h] = 0
        /\ \A g \in Hosts \ {h} : pc'[g] = pc[g] /\ attempt'[g] = attempt[g]
    BY <1>6, <1>c DEF RemoveLock, AfterRemoval
  <2>1. Made'
    <3>1. h \in makers => attempt[h] = 0
      BY <1>6, <1>a, <1>c DEF RemoveLock, NotYetMaker
    <3>2. pc[h] = "rmdir" /\ makers' = makers /\ (lock' => lock)
      BY <1>6 DEF RemoveLock
    <3> QED
      BY <1>a, <1>c, <2>0, <3>1, <3>2 DEF NotYetMaker, MadeBySome, OwnerTriesNot
  <2>2. ASSUME Undisturbed' PROVE Met'
    <3>1. Met /\ lock' = (lock /\ marker # None) /\ UNCHANGED <<marker, makers>>
      BY <1>6, <1>a, <2>2 DEF RemoveLock, Undisturbed, Crosses
    <3>2. pc[h] = "rmdir" /\ marker = None /\ ~lock'
      BY <1>6, <3>1 DEF RemoveLock, UnlinkedFirst
    <3>3. MarkerOfOwner' /\ UnlinkedFirst'
      BY <3>1, <3>2 DEF MarkerOfOwner, UnlinkedFirst
    <3>4. AttemptsMet'
      BY <1>c, <1>d, <2>0, <3>1, <3>2 DEF AttemptsMet
    <3> QED
      BY <3>3, <3>4
  <2> QED
    BY <2>1, <2>2 DEF CauseInv
<1>7. ASSUME NEW h \in Hosts, Dispose(h) PROVE CauseInv'
  <2>1. Made'
    BY <1>7, <1>a, <1>c DEF Dispose, NotYetMaker, MadeBySome, OwnerTriesNot
  <2>2. ASSUME Undisturbed' PROVE Met'
    <3>1. Met /\ MarkerInLock
      BY <1>7, <1>a, <1>b, <2>2 DEF Dispose, Undisturbed
    <3>2. MarkerOfOwner'
      BY <1>7, <3>1 DEF Dispose, MarkerOfOwner, MarkerInLock
    <3>3. UnlinkedFirst' /\ AttemptsMet'
      BY <1>7, <1>a, <1>c, <3>1 DEF Dispose, UnlinkedFirst, AttemptsMet, OwnerTriesNot
    <3> QED
      BY <3>2, <3>3
  <2> QED
    BY <2>1, <2>2 DEF CauseInv
<1>8. ASSUME NEW p \in Pids, Crash(p) PROVE CauseInv'
  <2>1. Made'
    BY <1>8, <1>a, <1>c DEF Crash, NotYetMaker, MadeBySome, OwnerTriesNot
  <2>2. ASSUME Undisturbed' PROVE Met'
    <3>1. Met
      BY <1>8, <1>a, <2>2 DEF Crash, Undisturbed
    <3>2. MarkerOfOwner' /\ UnlinkedFirst'
      BY <1>8, <3>1 DEF Crash, MarkerOfOwner, UnlinkedFirst
    <3>3. AttemptsMet'
      BY <1>8, <1>c, <3>1 DEF Crash, AttemptsMet
    <3> QED
      BY <3>2, <3>3
  <2> QED
    BY <2>1, <2>2 DEF CauseInv
<1>9. ASSUME UNCHANGED <<files, pc, attempt, history>> PROVE CauseInv'
  BY <1>9, <1>a DEF CauseInv, Undisturbed, NotYetMaker, MadeBySome, OwnerTriesNot,
     MarkerOfOwner, UnlinkedFirst, AttemptsMet
<1> QED
  BY <1>1, <1>2, <1>3, <1>4, <1>5, <1>6, <1>7, <1>8, <1>9 DEF Next, Reuse, vars

\* Undisturbed, a host is refused only for a live holder of the lock or a pid
\* that came back, and gives up only when every one of its attempts met the
\* lock of yet another host.
THEOREM TurnedAwayOnlyForCause == Spec => TurnedAwayForCause
<1> DEFINE Cause ==
      \A h \in Hosts :
         Undisturbed /\ pc[h] \notin Turned =>
            /\ pc'[h] = "refused" => /\ marker \in Hosts \ {h}
                                     /\ Holds(marker) \/ CameBack(PidOf[marker])
            /\ pc'[h] = "gaveUp" => Beaten(h)
<1>1. Init => CauseInv
  <2> SUFFICES ASSUME Init PROVE CauseInv
    OBVIOUS
  <2>1. IsFiniteSet(makers)
    BY FS_EmptySet DEF Init
  <2> QED
    BY <2>1, LockAssumption DEF Init, CauseInv, NotYetMaker, MadeBySome, OwnerTriesNot,
       MarkerOfOwner, UnlinkedFirst, AttemptsMet
<1>2. Init => LockInv
  BY DEF Init, LockInv, HostsLive, OwnerMarked, MakerAlone, MarkerInLock, RemovedIfStale
<1>3. TypeOK /\ CauseInv /\ [Next]_vars => [Cause]_vars
  <2> SUFFICES ASSUME TypeOK, CauseInv, Next, NEW h \in Hosts,
                      Undisturbed, pc[h] \notin Turned
               PROVE  /\ pc'[h] = "refused" => /\ marker \in Hosts \ {h}
                                               /\ Holds(marker) \/ CameBack(PidOf[marker])
                      /\ pc'[h] = "gaveUp" => Beaten(h)
    OBVIOUS
  <2>1. ASSUME pc'[h] = "refused"
        PROVE  marker \in Hosts \ {h} /\ (Holds(marker) \/ CameBack(PidOf[marker]))
    <3>1. ReadOwner(h)
      BY <2>1 DEF Next, Boot, MakeLock, WriteMarker, ReadOwner, Unlink, RemoveLock,
         AfterRemoval, Dispose, Crash, Reuse, Goes, TypeOK, Turned
    <3>2. attempt[h] # 0 /\ ~Takes(h)
      BY <2>1, <3>1 DEF ReadOwner, Goes, TypeOK
    <3>3. marker \in Hosts /\ Alive(PidOf[marker])
      BY <3>2 DEF Takes, processIsAlive
    <3>4. attempt[marker] = 0 /\ pc[marker] \in {"owner", "read", "unlink", "dead"}
      BY <3>3 DEF CauseInv, MarkerOfOwner
    <3> QED
      BY <3>2, <3>3, <3>4 DEF Holds, CameBack
  <2>2. ASSUME pc'[h] = "gaveUp" PROVE Beaten(h)
    <3>1. RemoveLock(h)
      BY <2>2 DEF Next, Boot, MakeLock, WriteMarker, ReadOwner, Unlink, RemoveLock,
         AfterRemoval, Dispose, Crash, Reuse, Goes, TypeOK, Turned
    <3>2. attempt[h] = MaxAttempts /\ pc[h] = "rmdir"
      BY <2>2, <3>1 DEF RemoveLock, AfterRemoval, Goes, TypeOK
    <3>3. Cardinality(makers) >= MaxAttempts
      BY <3>2 DEF CauseInv, AttemptsMet, MaxAttempts
    <3>4. makers \ {h} = makers
      BY <3>2 DEF CauseInv, NotYetMaker, MaxAttempts
    <3> QED
      BY <3>3, <3>4 DEF Beaten
  <2> QED
    BY <2>1, <2>2
<1> QED
  BY <1>1, <1>2, <1>3, LockTypeCorrect, LockInvStep, CauseInvStep, PTL
     DEF Spec, TurnedAwayForCause

=============================================================================
