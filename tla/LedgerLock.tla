----------------------------- MODULE LedgerLock -----------------------------
(***************************************************************************)
(* The lock of the ledger: a directory, made atomically, and in it a       *)
(* marker with the token and the pid of its owner (host-ledger.ts,         *)
(* acquireLock, readLockOwner, releaseLock).                               *)
(*                                                                         *)
(* A host is one ledger object: it boots once, and may be disposed while   *)
(* its process lives on.  Its file operations are synchronous, so hosts of *)
(* one process do not interleave; hosts of different processes do, between *)
(* any two operations.  A process may die between any two of them.         *)
(***************************************************************************)
EXTENDS Integers, FiniteSets

CONSTANTS
    Hosts,
    None,
    Unreadable,     \* a marker that does not parse
    Pids,
    PidOf,          \* the process of each host; the system reuses pids
    CanSignal       \* the pids a process of a pid may send a signal to

MaxAttempts == 4

ASSUME LockAssumption ==
    /\ None \notin Hosts /\ Unreadable \notin Hosts /\ None # Unreadable
    /\ PidOf \in [Hosts -> Pids]
    /\ CanSignal \in [Pids -> SUBSET Pids]

VARIABLES
    \* the file system
    lock,       \* is there a lock directory?
    marker,     \* whose marker is in it
    \* the processes
    hosting,    \* the pids whose process runs hosts
    foreign,    \* the pids of live processes that are none of ours
    pc,         \* what each host does next
    attempt,    \* the attempt of a host that boots; 0 when it does not
    \* history, for the properties
    crossed,    \* the lock was changed while another host stood between its
                \* look at the lock and what it does about it
    failed,     \* a file operation failed on a file that is there
    denied,     \* a live process was taken for dead: no signal reached it
    makers      \* the hosts that have made the lock directory

files == <<lock, marker>>
processes == <<hosting, foreign>>
history == <<crossed, failed, denied, makers>>
vars == <<files, processes, pc, attempt, history>>

\* Between two operations of acquireLock or releaseLock.
Midway == {"mark", "read", "unlink", "rmdir"}
Turned == {"refused", "gaveUp"}
Steps == Midway \cup Turned \cup {"unborn", "mkdir", "owner", "released", "dead"}

\* Types of the lock on disk and of the step each host is at: no host tries more
\* often than acquireLock allows.
TypeOK ==
    /\ lock \in BOOLEAN
    /\ marker \in Hosts \cup {None, Unreadable}
    /\ hosting \subseteq Pids
    /\ foreign \subseteq Pids \ hosting
    /\ pc \in [Hosts -> Steps]
    /\ attempt \in [Hosts -> 0..MaxAttempts]
    /\ crossed \in BOOLEAN /\ failed \in BOOLEAN /\ denied \in BOOLEAN
    /\ makers \subseteq Hosts

Init ==
    /\ lock = FALSE /\ marker = None
    /\ hosting = {} /\ foreign = {}
    /\ pc = [h \in Hosts |-> "unborn"]
    /\ attempt = [h \in Hosts |-> 0]
    /\ crossed = FALSE /\ failed = FALSE /\ denied = FALSE /\ makers = {}

\* What a change of the lock directory or its marker by h leaves in the history.
Crosses(h) ==
    crossed' = (crossed \/ \E g \in Hosts \ {h} : files' # files /\ pc[g] \in Midway)

Goes(h, step) == pc' = [pc EXCEPT ![h] = step]

\* A host of the same process is not in the middle of its own operations.
ThreadFree(h) ==
    \A g \in Hosts : PidOf[g] = PidOf[h] => pc[g] \notin Midway \cup {"mkdir"}

----------------------------------------------------------------------------
Boot(h) ==
    /\ pc[h] = "unborn"
    /\ PidOf[h] \notin foreign /\ ThreadFree(h)
    /\ hosting' = hosting \cup {PidOf[h]}
    /\ Goes(h, "mkdir")
    /\ attempt' = [attempt EXCEPT ![h] = 1]
    /\ UNCHANGED <<files, foreign, history>>

\* The directory is made, or it is there.
MakeLock(h) ==
    /\ pc[h] = "mkdir"
    /\ lock' = TRUE
    /\ Goes(h, IF lock THEN "read" ELSE "mark")
    /\ makers' = IF lock THEN makers ELSE makers \cup {h}
    /\ UNCHANGED <<marker, processes, attempt, failed, denied>>
    /\ Crosses(h)

\* The lock is held whether or not the marker could be written; it cannot be
\* when somebody has removed the directory meanwhile.
WriteMarker(h) ==
    /\ pc[h] = "mark"
    /\ \/ marker' = (IF lock THEN h ELSE marker) /\ failed' = failed
       \/ lock /\ marker' \in {marker, Unreadable} /\ failed' = TRUE
    /\ Goes(h, "owner")
    /\ attempt' = [attempt EXCEPT ![h] = 0]
    /\ UNCHANGED <<lock, processes, denied, makers>>
    /\ Crosses(h)

Alive(p) == p \in hosting \cup foreign

\* A slip: a marker with our own pid is taken for that of a dead process.
AnotherAlive(p, by) == Alive(p) /\ p # by

\* A signal that is not permitted fails like one to a process that is gone.
processIsAlive(p, by) == Alive(p) /\ p \in CanSignal[by]

\* Nobody alive holds the lock, as far as a booting host can tell.
Takes(h) ==
    marker \in Hosts => ~processIsAlive(PidOf[marker], PidOf[h])

\* A disposed host removes what nobody else claims.
Removes(h) == marker \in {None, Unreadable, h}

ReadOwner(h) ==
    /\ pc[h] = "read"
    /\ Goes(h, IF attempt[h] = 0
               THEN IF Removes(h) THEN "unlink" ELSE "released"
               ELSE IF Takes(h) THEN "unlink" ELSE "refused")
    /\ denied' = (denied \/ /\ attempt[h] > 0 /\ marker \in Hosts
                            /\ Alive(PidOf[marker]) /\ PidOf[marker] \notin CanSignal[PidOf[h]])
    /\ UNCHANGED <<files, processes, attempt, crossed, failed, makers>>

Unlink(h) ==
    /\ pc[h] = "unlink"
    /\ \/ marker' = None /\ failed' = failed
       \/ marker # None /\ marker' = marker /\ failed' = TRUE
    /\ Goes(h, "rmdir")
    /\ UNCHANGED <<lock, processes, attempt, denied, makers>>
    /\ Crosses(h)

\* A slip: one attempt, and none after the stale lock was removed.
AfterOne(h) == IF attempt[h] = 0 THEN "released" ELSE "gaveUp"

AfterRemoval(h) ==
    CASE attempt[h] = 0 -> "released"
      [] attempt[h] = MaxAttempts -> "gaveUp"
      [] OTHER -> "mkdir"

\* A directory with a marker in it stays.
RemoveLock(h) ==
    /\ pc[h] = "rmdir"
    /\ \/ lock' = (lock /\ marker # None) /\ failed' = failed
       \/ lock /\ lock' = lock /\ failed' = TRUE
    /\ Goes(h, AfterRemoval(h))
    /\ attempt' = [attempt EXCEPT ![h] = IF AfterRemoval(h) = "mkdir" THEN @ + 1 ELSE 0]
    /\ UNCHANGED <<marker, processes, denied, makers>>
    /\ Crosses(h)

\* The host is disposed, or its document does not load.
Dispose(h) ==
    /\ pc[h] = "owner"
    /\ ThreadFree(h)
    /\ Goes(h, IF lock THEN "read" ELSE "released")
    /\ UNCHANGED <<files, processes, attempt, history>>

----------------------------------------------------------------------------
\* The process of a pid ends, and every host in it with it.
Crash(p) ==
    /\ p \in hosting
    /\ hosting' = hosting \ {p}
    /\ pc' = [h \in Hosts |-> IF PidOf[h] = p /\ pc[h] # "unborn" THEN "dead" ELSE pc[h]]
    /\ attempt' = [h \in Hosts |-> IF PidOf[h] = p THEN 0 ELSE attempt[h]]
    /\ UNCHANGED <<files, foreign, history>>

\* The system gives a pid to a process that is none of ours.
Reuse(p) ==
    /\ p \notin hosting \cup foreign
    /\ foreign' = foreign \cup {p}
    /\ UNCHANGED <<files, hosting, pc, attempt, history>>

Next ==
    \/ \E h \in Hosts :
          \/ Boot(h) \/ MakeLock(h) \/ WriteMarker(h) \/ ReadOwner(h)
          \/ Unlink(h) \/ RemoveLock(h) \/ Dispose(h)
    \/ \E p \in Pids : Crash(p) \/ Reuse(p)

Spec == Init /\ [][Next]_vars

----------------------------------------------------------------------------
(* What the lock owes the ledger.                                          *)

\* The hosts that read and write the ledger.
Writers == {h \in Hosts : pc[h] = "owner"}

\* Nobody changed the lock under another host's feet, every file operation
\* worked and every live process could be seen.
Undisturbed == ~crossed /\ ~failed /\ ~denied

\* There is one writer, through crashes, stale locks, pids that come back and
\* hosts disposed and created again in a process: "a second Host pointing at
\* the same home refuses to start".  It is no more than that: see Undisturbed.
SingleWriter ==
    Undisturbed => \A g, h \in Writers : g = h

\* A host that boots is refused only when another host holds the lock, or the
\* pid on a dead host's marker has come back to life; and it gives up only
\* when as many other hosts made the lock before it as it made attempts.
Holds(g) == pc[g] \in {"owner", "read", "unlink"}

CameBack(p) ==
    Alive(p) /\ \E g \in Hosts : PidOf[g] = p /\ pc[g] = "dead"

Beaten(h) == Cardinality(makers \ {h}) >= MaxAttempts

TurnedAwayForCause ==
    [][\A h \in Hosts :
          Undisturbed /\ pc[h] \notin Turned =>
            /\ pc'[h] = "refused" => /\ marker \in Hosts \ {h}
                                     /\ Holds(marker) \/ CameBack(PidOf[marker])
            /\ pc'[h] = "gaveUp" => Beaten(h)]_vars

=============================================================================
