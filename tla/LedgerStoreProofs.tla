------------------------- MODULE LedgerStoreProofs -------------------------
(* What is on disk, what a revision names and which ids are recognised, for *)
(* every set of items and requests, every limit and every kind of fault;    *)
(* and that the store implements KeptBoard.                                 *)
EXTENDS LedgerStore, SequenceTheorems, TLAPS

----------------------------------------------------------------------------
(* What a write leaves, and what the cache makes of an id.                  *)

LEMMA OutcomeOf ==
    ASSUME NEW old, NEW new, NEW outcome \in Written(old, new)
    PROVE  /\ outcome.end \in {"done", "crash", "error"}
           /\ outcome.file \in {old, new, Torn}
           /\ outcome.end = "done" => outcome.file = new
           /\ outcome.end = "error" => outcome.file \in {old, Torn}
BY DEF Written, TornBy

LEMMA TornOrAbsentIsNoDocument ==
    /\ ~IsWhole(Torn) /\ ~IsWhole(Absent)
    /\ \A d \in Documents : IsWhole(d)
BY StoreAssumption DEF IsWhole

LEMMA HeldType ==
    ASSUME NEW d \in Documents
    PROVE  /\ Held(d) \in [board : Boards, revision : Nat]
           /\ d.board \in Boards /\ d.revision \in Nat /\ d.recent \in Seq(Requests)
           /\ Held(d).board = d.board /\ Held(d).revision = d.revision
BY DEF Held, Documents

LEMMA EmptyIsDocument ==
    /\ EmptyDocument \in Documents
    /\ EmptyDocument.recent = <<>> /\ EmptyDocument.revision = 0
    /\ EmptyDocument.board = EmptyBoard
    /\ Held(EmptyDocument) \in [board : Boards, revision : Nat]
BY EmptySeq DEF EmptyDocument, EmptyBoard, Documents, Boards, Held

LEMMA DocumentOfType ==
    ASSUME TypeOK, NEW board \in Boards, NEW ids \in Seq(Requests)
    PROVE  /\ DocumentOf(board, ids) \in Documents
           /\ DocumentOf(board, ids).board = board
           /\ DocumentOf(board, ids).revision = memory.revision + 1
           /\ DocumentOf(board, ids).recent = ids
BY DEF DocumentOf, Documents, TypeOK

\* A remembered id goes to the end, and pushes the others one place away from it.
LEMMA RememberKeeps ==
    ASSUME TypeOK, NEW r \in Requests
    PROVE  /\ Remember(r) \in Seq(Requests)
           /\ Len(Remember(r)) \in 1..CacheLimit
           /\ Remember(r)[Len(Remember(r))] = r
           /\ \A n \in DOMAIN cache : Len(cache) - n < CacheLimit - 1 =>
                 \E m \in DOMAIN Remember(r) :
                    /\ Remember(r)[m] = cache[n]
                    /\ Len(Remember(r)) - m = Len(cache) - n + 1
<1>1. /\ cache \in Seq(Requests) /\ Len(cache) \in 0..CacheLimit
      /\ DOMAIN cache = 1..Len(cache) /\ CacheLimit \in Nat \ {0}
  BY StoreAssumption DEF TypeOK
<1>2. CASE Len(cache) < CacheLimit
  <2>1. Remember(r) = Append(cache, r)
    BY <1>2 DEF Remember
  <2>2. \A n \in DOMAIN cache : Append(cache, r)[n] = cache[n] /\ n \in DOMAIN Append(cache, r)
    BY <1>1, AppendProperties
  <2> QED
    BY <1>1, <1>2, <2>1, <2>2, AppendProperties
<1>3. CASE Len(cache) = CacheLimit
  <2>1. /\ Len(cache) = CacheLimit /\ cache # <<>>
        /\ Remember(r) = Append(Tail(cache), r)
    <3>2. cache # <<>>
      BY <1>1, <1>3, EmptySeq
    <3>3. Remember(r) = Append(Tail(cache), r)
      BY <1>3 DEF Remember
    <3> QED
      BY <1>3, <3>2, <3>3
  <2>2. /\ Tail(cache) \in Seq(Requests) /\ Len(Tail(cache)) = Len(cache) - 1
        /\ \A k \in 1..Len(Tail(cache)) : Tail(cache)[k] = cache[k + 1]
    BY <1>1, <2>1, HeadTailProperties
  <2>3. /\ Append(Tail(cache), r) \in Seq(Requests)
        /\ Len(Append(Tail(cache), r)) = Len(cache)
        /\ Append(Tail(cache), r)[Len(cache)] = r
        /\ \A k \in 1..Len(Tail(cache)) : Append(Tail(cache), r)[k] = Tail(cache)[k]
        /\ DOMAIN Append(Tail(cache), r) = 1..Len(cache)
    BY <1>1, <2>1, <2>2, AppendProperties
  <2>4. ASSUME NEW n \in DOMAIN cache, Len(cache) - n < CacheLimit - 1
        PROVE  \E m \in DOMAIN Remember(r) :
                  /\ Remember(r)[m] = cache[n]
                  /\ Len(Remember(r)) - m = Len(cache) - n + 1
    <3>1. n - 1 \in 1..Len(Tail(cache)) /\ n - 1 \in 1..Len(cache) /\ (n - 1) + 1 = n
      BY <1>1, <2>1, <2>2, <2>4
    <3>2. Remember(r)[n - 1] = cache[n] /\ Len(Remember(r)) - (n - 1) = Len(cache) - n + 1
      BY <1>1, <2>1, <2>2, <2>3, <3>1
    <3> QED
      BY <2>1, <2>3, <3>1, <3>2
  <2> QED
    BY <1>1, <2>1, <2>3, <2>4
<1>4. Len(cache) < CacheLimit \/ Len(cache) = CacheLimit
  BY LenProperties, StoreAssumption DEF TypeOK
<1> QED
  BY <1>2, <1>3, <1>4

\* An id that is taken back leaves the others as they were, but for what it evicted.
LEMMA ForgetKeeps ==
    ASSUME TypeOK, NEW r \in Requests
    PROVE  /\ Forget(Remember(r)) \in Seq(Requests)
           /\ Len(Forget(Remember(r))) <= CacheLimit
           /\ \A n \in DOMAIN cache : Len(cache) - n < CacheLimit - 1 =>
                 \E m \in DOMAIN Forget(Remember(r)) :
                    /\ Forget(Remember(r))[m] = cache[n]
                    /\ Len(Forget(Remember(r))) - m = Len(cache) - n
<1> DEFINE ids == Remember(r)
<1> DEFINE rest == Forget(ids)
<1>1. ids \in Seq(Requests) /\ Len(ids) \in 1..CacheLimit /\ CacheLimit \in Nat
  BY RememberKeeps, StoreAssumption
<1>2. /\ rest = SubSeq(ids, 1, Len(ids) - 1)
      /\ rest \in Seq(Requests) /\ Len(rest) = Len(ids) - 1 /\ DOMAIN rest = 1..(Len(ids) - 1)
      /\ \A m \in 1..(Len(ids) - 1) : rest[m] = ids[m]
  <2>1. rest = SubSeq(ids, 1, Len(ids) - 1)
    BY DEF Forget
  <2>2. Len(ids) - 1 \in Nat /\ DOMAIN ids = 1..Len(ids)
    BY <1>1
  <2> HIDE DEF ids, rest
  <2> QED
    BY <1>1, <2>1, <2>2, SubSeqProperties
<1>3. ASSUME NEW n \in DOMAIN cache, Len(cache) - n < CacheLimit - 1
      PROVE  \E m \in DOMAIN rest :
                rest[m] = cache[n] /\ Len(rest) - m = Len(cache) - n
  <2>1. PICK m \in DOMAIN ids : ids[m] = cache[n] /\ Len(ids) - m = Len(cache) - n + 1
    BY <1>3, RememberKeeps
  <2>2. Len(cache) \in Nat /\ n \in 1..Len(cache)
    BY DEF TypeOK
  <2>3. m \in 1..(Len(ids) - 1) /\ Len(rest) - m = Len(cache) - n
    BY <1>1, <1>2, <2>1, <2>2
  <2> QED
    BY <1>2, <2>1, <2>3
<1> QED
  BY <1>1, <1>2, <1>3

----------------------------------------------------------------------------
(* Types.                                                                  *)

\* What commit leaves in memory, in the file and in the cache.
LEMMA CommitType ==
    ASSUME TypeOK, NEW document \in Documents, NEW ids \in Seq(Requests),
           Len(ids) <= CacheLimit,
           NEW outcome \in Written(file, document), Commit(outcome, document, ids)
    PROVE  /\ up' \in BOOLEAN /\ unsaved' \in BOOLEAN
           /\ file' \in Documents \cup {Torn, Absent}
           /\ memory' \in [board : Boards, revision : Nat]
           /\ cache' \in Seq(Requests) /\ Len(cache') <= CacheLimit
<1>1. up' \in BOOLEAN /\ unsaved' \in BOOLEAN
  BY Zenon DEF Commit
<1>2. file' \in {file, document, Torn}
  BY OutcomeOf DEF Commit
<1>3. memory' \in {Held(document), Held(EmptyDocument)} /\ cache' \in {ids, <<>>}
  BY Zenon DEF Commit
<1>4. <<>> \in Seq(Requests) /\ Len(<<>>) <= CacheLimit
  BY StoreAssumption, EmptySeq
<1> QED
  BY <1>1, <1>2, <1>3, <1>4, HeldType, EmptyIsDocument DEF TypeOK

LEMMA OlderType ==
    ASSUME TypeOK, NEW r \in Requests
    PROVE  Older(r) \in [Requests -> 0..CacheLimit]
BY StoreAssumption DEF TypeOK, Older

\* A folder gets a copy, or a torn one, at its head, or stays as it is.
LEMMA KeepingType ==
    ASSUME TypeOK, NEW board \in Boards, NEW outcome \in Written(Absent, board)
    PROVE  /\ Keeping(outcome) \in Seq(Boards \cup {Torn})
           /\ Newest(Keeping(outcome)) \in Seq(Boards \cup {Torn})
<1>1. outcome.file \in {Absent, board, Torn}
  BY OutcomeOf
<1>2. Keeping(outcome) \in Seq(Boards \cup {Torn})
  <2>1. CASE outcome.file = Absent
    BY <2>1 DEF Keeping, TypeOK
  <2>2. CASE outcome.file # Absent
    <3>1. <<outcome.file>> \in Seq(Boards \cup {Torn}) /\ kept \in Seq(Boards \cup {Torn})
      BY <1>1, <2>2 DEF TypeOK
    <3> QED
      BY <2>2, <3>1, ConcatProperties DEF Keeping
  <2> QED
    BY <2>1, <2>2
<1>3. Newest(Keeping(outcome)) \in Seq(Boards \cup {Torn})
  BY <1>2, StoreAssumption, SubSeqProperties DEF Newest
<1> QED
  BY <1>2, <1>3

LEMMA RestorableType ==
    ASSUME TypeOK
    PROVE  Restorable \subseteq Boards
BY StoreAssumption DEF Restorable, TypeOK

\* The ids in the file fit the cache they are read into.
FileFits == IsWhole(file) => Len(file.recent) <= CacheLimit

LEMMA TypeOKStep == TypeOK /\ FileFits /\ [Next]_vars => TypeOK'
<1> SUFFICES ASSUME TypeOK, FileFits, [Next]_vars PROVE TypeOK'
  OBVIOUS
<1>1. ASSUME NEW r \in Requests, Execute(r) PROVE TypeOK'
  <2> DEFINE board == [memory.board EXCEPT ![EffectOf[r].item] = EffectOf[r].to]
  <2> DEFINE document == DocumentOf(board, Remember(r))
  <2>1. PICK outcome \in Written(file, document) :
          /\ Commit(outcome, document,
                    IF outcome.end = "done" THEN Remember(r) ELSE Forget(Remember(r)))
          /\ age' = [Older(r) EXCEPT ![r] = IF outcome.end = "done" THEN 0 ELSE @]
          /\ committed' = IF outcome.end = "done" THEN committed \cup {r} ELSE committed
    BY <1>1 DEF Execute
  <2>2. board \in Boards
    <3>1. EffectOf[r] \in Effects
      BY <1>1, StoreAssumption DEF Execute
    <3> QED
      BY <3>1 DEF Effects, Boards, TypeOK
  <2>3. document \in Documents
    BY <2>2, DocumentOfType, RememberKeeps
  <2> DEFINE ids == IF outcome.end = "done" THEN Remember(r) ELSE Forget(Remember(r))
  <2>4. ids \in Seq(Requests) /\ Len(ids) <= CacheLimit
    BY RememberKeeps, ForgetKeeps, StoreAssumption
  <2>5. age' \in [Requests -> 0..CacheLimit] /\ committed' \subseteq Requests
    BY <2>1, OlderType, StoreAssumption DEF TypeOK
  <2> HIDE DEF board, document, ids
  <2>6. Commit(outcome, document, ids)
    BY <2>1 DEF ids
  <2> QED
    BY <1>1, <2>3, <2>4, <2>5, <2>6, CommitType DEF Execute, TypeOK
<1>2. ASSUME NEW r \in Requests, ExecuteNothing(r) PROVE TypeOK'
  <2>1. age' \in [Requests -> 0..CacheLimit]
    BY <1>2, OlderType, StoreAssumption DEF ExecuteNothing
  <2>2. cache' \in Seq(Requests) /\ Len(cache') <= CacheLimit
    BY <1>2, RememberKeeps, StoreAssumption DEF ExecuteNothing
  <2> QED
    BY <1>2, <2>1, <2>2 DEF ExecuteNothing, TypeOK
<1>3. ASSUME NEW r \in Requests, Refuse(r) PROVE TypeOK'
  BY <1>3, OlderType, ForgetKeeps DEF Refuse, TypeOK
<1>4. ASSUME NEW r \in Requests, Replay(r) PROVE TypeOK'
  BY <1>4 DEF Replay, vars, TypeOK
<1>5. ASSUME NEW running \in BOOLEAN, StampRun(running) PROVE TypeOK'
  <2> DEFINE document == DocumentOf([memory.board EXCEPT ![Stamp] = running], cache)
  <2>1. PICK outcome \in Written(file, document) : Commit(outcome, document, cache)
    BY <1>5 DEF StampRun
  <2>2. document \in Documents
    BY DocumentOfType, StoreAssumption DEF TypeOK, Boards
  <2> HIDE DEF document
  <2>3. cache \in Seq(Requests) /\ Len(cache) <= CacheLimit
    BY DEF TypeOK
  <2> QED
    BY <1>5, <2>1, <2>2, <2>3, CommitType DEF StampRun, ghosts, TypeOK
<1>6. ASSUME TakeSnapshot PROVE TypeOK'
  <2>1. PICK outcome \in Written(Absent, memory.board) :
          /\ kept' = IF outcome.end = "done" THEN Newest(Keeping(outcome))
                                             ELSE Keeping(outcome)
          /\ up' = (outcome.end # "crash")
    BY <1>6 DEF TakeSnapshot
  <2>2. kept' \in Seq(Boards \cup {Torn})
    BY <2>1, KeepingType DEF TypeOK
  <2>3. up' \in BOOLEAN /\ unsaved' \in BOOLEAN
    BY <1>6, <2>1, Zenon DEF TakeSnapshot
  <2>4. <<>> \in Seq(Requests) /\ Len(<<>>) <= CacheLimit
    BY StoreAssumption, EmptySeq
  <2> QED
    BY <1>6, <2>2, <2>3, <2>4, EmptyIsDocument DEF TakeSnapshot, ghosts, TypeOK
<1>7. ASSUME NEW board \in Restorable, RestoreBoard(board) PROVE TypeOK'
  <2> DEFINE document == DocumentOf(board, cache)
  <2>1. PICK copy \in Written(Absent, memory.board) :
          /\ kept' = Keeping(copy)
          /\ IF copy.end = "done"
             THEN \E outcome \in Written(file, document) : Commit(outcome, document, cache)
             ELSE /\ up' = (copy.end # "crash")
                  /\ memory' = IF up' THEN memory ELSE Held(EmptyDocument)
                  /\ cache' = IF up' THEN cache ELSE <<>>
                  /\ file' = file
                  /\ unsaved' = (up' /\ unsaved)
    BY <1>7 DEF RestoreBoard, Replaced
  <2>2. kept' \in Seq(Boards \cup {Torn})
    BY <2>1, KeepingType DEF TypeOK
  <2>3. cache \in Seq(Requests) /\ Len(cache) <= CacheLimit
    BY DEF TypeOK
  <2>4. document \in Documents
    BY <2>3, RestorableType, DocumentOfType
  <2> HIDE DEF document
  <2>5. CASE copy.end = "done"
    BY <1>7, <2>1, <2>2, <2>3, <2>4, <2>5, CommitType DEF RestoreBoard, ghosts, TypeOK
  <2>6. CASE copy.end # "done"
    <3>1. up' \in BOOLEAN /\ unsaved' \in BOOLEAN
      BY <2>1, <2>6, Zenon
    <3>2. <<>> \in Seq(Requests) /\ Len(<<>>) <= CacheLimit
      BY StoreAssumption, EmptySeq
    <3>3. memory' \in [board : Boards, revision : Nat]
      BY <2>1, <2>6, EmptyIsDocument DEF TypeOK
    <3> QED
      BY <1>7, <2>1, <2>2, <2>3, <2>6, <3>1, <3>2, <3>3 DEF RestoreBoard, ghosts, TypeOK
  <2> QED
    BY <2>5, <2>6
<1>8. ASSUME NEW n \in DOMAIN kept, RestoreTorn(n) PROVE TypeOK'
  <2>1. Without(kept, n) \in Seq(Boards \cup {Torn})
    BY SubSeqProperties, ConcatProperties DEF TypeOK, Without
  <2> QED
    BY <1>8, <2>1 DEF RestoreTorn, ghosts, TypeOK
<1>9. ASSUME Crash PROVE TypeOK'
  <2>1. <<>> \in Seq(Requests) /\ Len(<<>>) <= CacheLimit
    BY StoreAssumption, EmptySeq
  <2> QED
    BY <1>9, <2>1, EmptyIsDocument DEF Crash, ghosts, TypeOK
<1>10. ASSUME Boot PROVE TypeOK'
  <2>1. file \in Documents /\ Len(file.recent) <= CacheLimit
    BY <1>10 DEF Boot, IsWhole, FileFits, TypeOK
  <2> QED
    BY <1>10, <2>1, HeldType DEF Boot, ghosts, TypeOK
<1>11. ASSUME BootFresh PROVE TypeOK'
  <2>1. PICK renamed \in BOOLEAN :
          /\ aside' = IF renamed THEN aside \cup ({file} \ {Absent}) ELSE aside
          /\ \E outcome \in Written(IF renamed THEN Absent ELSE file, EmptyDocument) :
                /\ file' = outcome.file
                /\ up' = (outcome.end # "crash")
                /\ unsaved' = (outcome.end = "error")
    BY <1>11 DEF BootFresh
  <2>2. file' \in {Absent, file, EmptyDocument, Torn}
    BY <2>1, OutcomeOf
  <2>3. up' \in BOOLEAN /\ unsaved' \in BOOLEAN
    BY <2>1, Zenon
  <2>4. aside' \subseteq Documents \cup {Torn}
    BY <2>1 DEF TypeOK
  <2>5. <<>> \in Seq(Requests) /\ Len(<<>>) <= CacheLimit
    BY StoreAssumption, EmptySeq
  <2>6. age' \in [Requests -> 0..CacheLimit]
    BY <1>11, StoreAssumption DEF BootFresh
  <2>7. tab' \in Snapshots
    BY <1>11 DEF BootFresh, Snapshots, TypeOK
  <2> QED
    BY <1>11, <2>2, <2>3, <2>4, <2>5, <2>6, <2>7, EmptyIsDocument DEF BootFresh, TypeOK
<1>12. ASSUME Poll PROVE TypeOK'
  BY <1>12 DEF Poll, Snapshot, Snapshots, TypeOK
<1>13. ASSUME UNCHANGED vars PROVE TypeOK'
  BY <1>13 DEF vars, TypeOK
<1> QED
  BY <1>1, <1>2, <1>3, <1>4, <1>5, <1>6, <1>7, <1>8, <1>9, <1>10, <1>11, <1>12, <1>13 DEF Next

\* What a commit leaves in the file and in memory, for any property of them.
LEMMA CommitLeaves ==
    ASSUME NEW document \in Documents, NEW ids,
           NEW outcome \in Written(file, document), Commit(outcome, document, ids)
    PROVE  /\ IsWhole(file') => file' \in {file, document}
           /\ up' => memory' = Held(document) /\ cache' = ids
           /\ up' /\ ~unsaved' => outcome.end = "done" /\ file' = document
           /\ outcome.end = "crash" => ~up'
<1>1. /\ file' = outcome.file
      /\ up' <=> outcome.end # "crash"
      /\ up' => memory' = Held(document) /\ cache' = ids
      /\ unsaved' <=> outcome.end = "error"
  BY Zenon DEF Commit
<1> QED
  BY <1>1, OutcomeOf, TornOrAbsentIsNoDocument

----------------------------------------------------------------------------
(* The kinds of step, as the file and the memory see them.                 *)

\* A new document, and its write however that ends.
Commits ==
    /\ up
    /\ \E board \in Boards, ids \in Seq(Requests) :
          /\ Len(ids) <= CacheLimit
          /\ \E outcome \in Written(file, DocumentOf(board, ids)), left \in Seq(Requests) :
                Commit(outcome, DocumentOf(board, ids), left)
    /\ tab' = tab

\* Nothing of the document changes.
Rests == UNCHANGED <<up, memory, file, unsaved, tab>>

\* The process ends, and leaves the file as it is.
Falls == ~up' /\ file' = file /\ tab' = tab

LEMMA KindsOfStep ==
    ASSUME TypeOK, [Next]_vars
    PROVE  Commits \/ Rests \/ Falls \/ Boot \/ BootFresh \/ Poll
<1>b. /\ cache \in Seq(Requests) /\ Len(cache) <= CacheLimit
      /\ memory.board \in Boards /\ unsaved \in BOOLEAN /\ up \in BOOLEAN
  BY DEF TypeOK
<1>1. ASSUME NEW r \in Requests, Execute(r) PROVE Commits
  <2> DEFINE board == [memory.board EXCEPT ![EffectOf[r].item] = EffectOf[r].to]
  <2>1. board \in Boards
    BY <1>1, <1>b, StoreAssumption DEF Execute, Effects, Boards
  <2>2. PICK outcome \in Written(file, DocumentOf(board, Remember(r))) :
          Commit(outcome, DocumentOf(board, Remember(r)),
                 IF outcome.end = "done" THEN Remember(r) ELSE Forget(Remember(r)))
    BY <1>1 DEF Execute
  <2>3. /\ Remember(r) \in Seq(Requests) /\ Len(Remember(r)) <= CacheLimit
        /\ Forget(Remember(r)) \in Seq(Requests)
    BY RememberKeeps, ForgetKeeps, StoreAssumption
  <2> HIDE DEF board
  <2>4. (IF outcome.end = "done" THEN Remember(r) ELSE Forget(Remember(r))) \in Seq(Requests)
    BY <2>3
  <2> QED
    BY <1>1, <2>1, <2>2, <2>3, <2>4 DEF Execute, Commits
<1>2. ASSUME NEW running \in BOOLEAN, StampRun(running) PROVE Commits
  <2> DEFINE board == [memory.board EXCEPT ![Stamp] = running]
  <2>1. board \in Boards
    BY <1>b, StoreAssumption DEF Boards
  <2>2. \E outcome \in Written(file, DocumentOf(board, cache)) :
          Commit(outcome, DocumentOf(board, cache), cache)
    BY <1>2 DEF StampRun
  <2> HIDE DEF board
  <2> QED
    BY <1>2, <1>b, <2>1, <2>2 DEF StampRun, ghosts, Commits
<1>3. ASSUME NEW board \in Restorable, RestoreBoard(board) PROVE Commits \/ Rests \/ Falls
  <2>1. PICK copy \in Written(Absent, memory.board) :
          /\ copy.end = "done" =>
                \E outcome \in Written(file, DocumentOf(board, cache)) :
                   Commit(outcome, DocumentOf(board, cache), cache)
          /\ copy.end # "done" =>
                /\ up' <=> copy.end # "crash"
                /\ up' => memory' = memory
                /\ file' = file
                /\ unsaved' <=> up' /\ unsaved
                /\ up' \in BOOLEAN /\ unsaved' \in BOOLEAN
    BY <1>3, Zenon DEF RestoreBoard, Replaced
  <2>2. CASE copy.end = "done"
    <3>1. board \in Boards
      BY RestorableType
    <3> QED
      BY <1>3, <1>b, <2>1, <2>2, <3>1 DEF RestoreBoard, ghosts, Commits
  <2>3. CASE copy.end = "crash"
    BY <1>3, <2>1, <2>3 DEF RestoreBoard, ghosts, Falls
  <2>4. CASE copy.end \notin {"done", "crash"}
    <3>1. up' /\ up /\ memory' = memory /\ file' = file /\ (unsaved' <=> unsaved)
      BY <1>3, <2>1, <2>4 DEF RestoreBoard
    <3>2. unsaved' = unsaved /\ up' = up
      BY <1>b, <2>1, <2>4, <3>1
    <3> QED
      BY <1>3, <3>1, <3>2 DEF RestoreBoard, ghosts, Rests
  <2> QED
    BY <2>2, <2>3, <2>4
<1>4. ASSUME TakeSnapshot PROVE Rests \/ Falls
  <2>1. PICK outcome : up' = (outcome.end # "crash")
    BY <1>4 DEF TakeSnapshot
  <2>2. up' \in BOOLEAN /\ unsaved' \in BOOLEAN /\ (unsaved' <=> up' /\ unsaved)
    BY <1>4, <2>1, Zenon DEF TakeSnapshot
  <2> QED
    BY <1>4, <1>b, <2>2 DEF TakeSnapshot, ghosts, Rests, Falls
<1> QED
  BY <1>1, <1>2, <1>3, <1>4 DEF Next, ExecuteNothing, Refuse, Replay,
     RestoreTorn, Crash, vars, ghosts, Rests, Falls

\* What a commit leaves, whichever way its write ended.
LEMMA CommitsLeave ==
    ASSUME TypeOK, Commits
    PROVE  \E document \in Documents :
              /\ Len(document.recent) <= CacheLimit
              /\ document.revision = memory.revision + 1
              /\ IsWhole(file') => file' \in {file, document}
              /\ up' => memory' = Held(document)
              /\ up' /\ ~unsaved' => file' = document
<1>1. PICK board \in Boards, ids \in Seq(Requests) :
        /\ Len(ids) <= CacheLimit
        /\ \E outcome \in Written(file, DocumentOf(board, ids)), left \in Seq(Requests) :
              Commit(outcome, DocumentOf(board, ids), left)
  BY DEF Commits
<1> DEFINE document == DocumentOf(board, ids)
<1>2. PICK outcome \in Written(file, document), left \in Seq(Requests) :
        Commit(outcome, document, left)
  BY <1>1
<1>3. /\ document \in Documents /\ document.recent = ids
      /\ document.revision = memory.revision + 1
  BY DocumentOfType
<1> HIDE DEF document
<1> QED
  BY <1>1, <1>2, <1>3, CommitLeaves

\* What a boot that starts empty leaves.
LEMMA FreshLeaves ==
    ASSUME BootFresh
    PROVE  /\ ~up /\ memory' = Held(EmptyDocument)
           /\ file' \in {Absent, file, EmptyDocument, Torn}
           /\ up' /\ ~unsaved' => file' = EmptyDocument
           /\ tab'.of = IF tab.of = "nothing" THEN "nothing" ELSE "earlier"
<1>1. PICK old \in {Absent, file} :
        \E outcome \in Written(old, EmptyDocument) :
           /\ file' = outcome.file
           /\ up' = (outcome.end # "crash")
           /\ unsaved' = (outcome.end = "error")
  BY DEF BootFresh
<1>2. PICK outcome \in Written(old, EmptyDocument) :
        /\ file' = outcome.file
        /\ up' = (outcome.end # "crash")
        /\ unsaved' = (outcome.end = "error")
  BY <1>1
<1>3. (up' <=> outcome.end # "crash") /\ (unsaved' <=> outcome.end = "error")
  BY <1>2
<1> QED
  BY <1>1, <1>2, <1>3, OutcomeOf DEF BootFresh

LEMMA FileFitsStep == TypeOK /\ FileFits /\ [Next]_vars => FileFits'
<1> SUFFICES ASSUME TypeOK, FileFits, [Next]_vars, IsWhole(file')
             PROVE  Len(file'.recent) <= CacheLimit
  BY DEF FileFits, IsWhole
<1>1. CASE Commits
  BY <1>1, CommitsLeave DEF FileFits
<1>2. CASE BootFresh
  <2>1. Len(EmptyDocument.recent) <= CacheLimit
    BY EmptyIsDocument, EmptySeq, StoreAssumption
  <2> QED
    BY <1>2, <2>1, FreshLeaves DEF FileFits, IsWhole
<1> QED
  BY <1>1, <1>2, KindsOfStep DEF FileFits, Rests, Falls, Boot, Poll

LEMMA TypedInit == Init => TypeOK /\ FileFits
<1>1. <<>> \in Seq(Requests) /\ Len(<<>>) <= CacheLimit /\ <<>> \in Seq(Boards \cup {Torn})
  BY StoreAssumption, EmptySeq
<1>2. [r \in Requests |-> CacheLimit] \in [Requests -> 0..CacheLimit]
  BY StoreAssumption
<1>3. Init => memory \in [board : Boards, revision : Nat] /\ tab \in Snapshots
  BY EmptyIsDocument, HeldType DEF Init, Snapshot, Snapshots
<1> QED
  BY <1>1, <1>2, <1>3, EmptyIsDocument DEF Init, TypeOK, FileFits, IsWhole

\* The memory, the cache, the file and the copies keep their types, and the
\* cache its limit, what a boot reads back included.
THEOREM StoreTypeCorrect == Spec => []TypeOK
BY TypedInit, TypeOKStep, FileFitsStep, PTL DEF Spec

----------------------------------------------------------------------------
(* What is on disk.                                                        *)

LEMMA AnswersStep == TypeOK /\ AnswersAreOnDisk /\ [Next]_vars => AnswersAreOnDisk'
<1> SUFFICES ASSUME TypeOK, AnswersAreOnDisk, [Next]_vars, up', ~unsaved'
             PROVE  IsWhole(file') /\ Held(file') = memory'
  BY DEF AnswersAreOnDisk, IsWhole, Held
<1>1. CASE Commits
  BY <1>1, CommitsLeave, TornOrAbsentIsNoDocument
<1>2. CASE BootFresh
  BY <1>2, FreshLeaves, EmptyIsDocument, TornOrAbsentIsNoDocument
<1>3. CASE Boot
  BY <1>3 DEF Boot
<1>4. CASE Rests \/ Poll
  BY <1>4 DEF Rests, Poll, AnswersAreOnDisk
<1> QED
  BY <1>1, <1>2, <1>3, <1>4, KindsOfStep DEF Falls

\* Whatever the process answers is on disk, unless its last write failed and
\* said so: after a crash the same board and the same revision come back.
THEOREM AnswersStayOnDisk == Spec => []AnswersAreOnDisk
<1>1. Init => AnswersAreOnDisk
  BY DEF Init, AnswersAreOnDisk
<1> QED
  BY <1>1, StoreTypeCorrect, AnswersStep, PTL DEF Spec

----------------------------------------------------------------------------
(* What a revision names.                                                  *)

\* A tab that shows a document of the disk is not ahead of `document`, nor does
\* it show another board of the same revision.
Behind(document) ==
    tab.of = "disk" =>
        /\ tab.revision <= document.revision
        /\ tab.revision = document.revision => tab.board = document.board

\* The memory may be ahead of the file, after a failed write; a crash takes it
\* back to the file, which is still ahead of every such tab.
TabInv ==
    /\ up => Behind(memory)
    /\ IsWhole(file) => Behind(file)

LEMMA TabInvStep ==
    TypeOK /\ AnswersAreOnDisk /\ TabInv /\ [Next]_vars => TabInv'
<1> SUFFICES ASSUME TypeOK, AnswersAreOnDisk, TabInv, [Next]_vars PROVE TabInv'
  OBVIOUS
<1>a. /\ tab.revision \in Nat /\ tab \in Snapshots
      /\ memory.revision \in Nat
      /\ IsWhole(file) => file \in Documents /\ file.revision \in Nat
  BY HeldType DEF TypeOK, Snapshots, IsWhole
<1>1. CASE Commits
  <2>1. PICK document \in Documents :
          /\ document.revision = memory.revision + 1
          /\ IsWhole(file') => file' \in {file, document}
          /\ up' => memory' = Held(document)
    BY <1>1, CommitsLeave
  <2>2. up /\ Behind(memory) /\ tab' = tab
    BY <1>1 DEF Commits, TabInv
  <2>3. /\ Held(document).revision = memory.revision + 1
        /\ Held(document).board = document.board
    BY <2>1, HeldType
  <2>4. tab.of = "disk" => tab.revision < document.revision
    BY <1>a, <2>1, <2>2 DEF Behind
  <2>5. up' => Behind(memory)'
    BY <1>a, <2>1, <2>2, <2>3, <2>4 DEF Behind
  <2>6. IsWhole(file)' => Behind(file)'
    BY <1>a, <2>1, <2>2, <2>4 DEF Behind, TabInv, IsWhole
  <2> QED
    BY <2>5, <2>6 DEF TabInv
<1>2. CASE BootFresh
  BY <1>2, FreshLeaves DEF TabInv, Behind
<1>3. CASE Boot
  BY <1>3 DEF Boot, Held, ghosts, TabInv, Behind, IsWhole
<1>4. CASE Rests
  BY <1>4 DEF Rests, TabInv, Behind, IsWhole
<1>5. CASE Falls
  BY <1>5 DEF Falls, TabInv, Behind, IsWhole
<1>6. CASE Poll
  <2>1. /\ up /\ UNCHANGED <<up, memory, file>>
        /\ tab'.of = "disk" => ~unsaved
        /\ tab'.revision = memory.revision /\ tab'.board = memory.board
    BY <1>6 DEF Poll, Snapshot
  <2>2. ~unsaved => file.revision = memory.revision /\ file.board = memory.board
    BY <2>1 DEF AnswersAreOnDisk, Held
  <2> QED
    BY <1>a, <2>1, <2>2 DEF TabInv, Behind, IsWhole
<1> QED
  BY <1>1, <1>2, <1>3, <1>4, <1>5, <1>6, KindsOfStep

\* A tab that shows the revision of the host shows its board, whatever writes
\* failed and wherever the process died in between, unless what it shows was
\* never on disk or is of before the last boot that started an empty board.
THEOREM RevisionsNameBoards == Spec => []RevisionNamesBoard
<1>1. Init => TabInv
  BY TornOrAbsentIsNoDocument DEF Init, TabInv
<1>2. TabInv => RevisionNamesBoard
  BY DEF TabInv, Behind, RevisionNamesBoard
<1> QED
  BY <1>1, <1>2, StoreTypeCorrect, AnswersStayOnDisk, TabInvStep, PTL DEF Spec

----------------------------------------------------------------------------
(* Which ids are recognised.                                               *)

\* The id stands among the last a + 1 of a list.
Recent(ids, r, a) == \E n \in DOMAIN ids : ids[n] = r /\ Len(ids) - n <= a

\* A committed answer is in the cache, and in the file, no further from the
\* end than ids were cached since.
CacheInv ==
    \A r \in committed : age[r] < CacheLimit =>
        /\ up => Recent(cache, r, age[r])
        /\ IsWhole(file) => Recent(file.recent, r, age[r])

LEMMA RecentLonger ==
    ASSUME NEW ids \in Seq(Requests), NEW r, NEW a \in Nat, NEW b \in Nat, a <= b,
           Recent(ids, r, a)
    PROVE  Recent(ids, r, b)
<1>1. PICK n \in DOMAIN ids : ids[n] = r /\ Len(ids) - n <= a
  BY DEF Recent
<1>2. Len(ids) \in Nat /\ n \in Nat
  BY LenProperties
<1> QED
  BY <1>1, <1>2 DEF Recent

LEMMA RememberRecent ==
    ASSUME TypeOK, NEW r \in Requests, NEW q, NEW a \in Nat, a + 1 < CacheLimit,
           Recent(cache, q, a)
    PROVE  Recent(Remember(r), q, a + 1) /\ Recent(Forget(Remember(r)), q, a + 1)
<1>1. PICK n \in DOMAIN cache : cache[n] = q /\ Len(cache) - n <= a
  BY DEF Recent
<1>2. Len(cache) \in Nat /\ n \in Nat /\ CacheLimit \in Nat
  BY StoreAssumption, LenProperties DEF TypeOK
<1>3. Len(cache) - n < CacheLimit - 1
  BY <1>1, <1>2
<1>4. Recent(Remember(r), q, a + 1)
  BY <1>1, <1>2, <1>3, RememberKeeps DEF Recent
<1>5. Recent(Forget(Remember(r)), q, a + 1)
  BY <1>1, <1>2, <1>3, ForgetKeeps DEF Recent
<1> QED
  BY <1>4, <1>5

\* What is older by one, or as old.
LEMMA OlderBy ==
    ASSUME TypeOK, NEW r \in Requests, NEW q \in Requests, Older(r)[q] < CacheLimit
    PROVE  /\ age[q] \in Nat /\ age[q] < CacheLimit
           /\ q = r => Older(r)[q] = age[q]
           /\ q # r => Older(r)[q] = age[q] + 1
BY StoreAssumption DEF TypeOK, Older

LEMMA CacheInvStep == TypeOK /\ CacheInv /\ [Next]_vars => CacheInv'
<1> SUFFICES ASSUME TypeOK, CacheInv, [Next]_vars,
                    NEW q \in committed', age'[q] < CacheLimit
             PROVE  /\ up' => Recent(cache', q, age'[q])
                    /\ IsWhole(file') => Recent(file'.recent, q, age'[q])
  BY DEF CacheInv, IsWhole, Recent
<1> DEFINE Goal == /\ up' => Recent(cache', q, age'[q])
                   /\ IsWhole(file') => Recent(file'.recent, q, age'[q])
<1>a. /\ cache \in Seq(Requests) /\ committed \subseteq Requests
      /\ \A r \in Requests : age[r] \in Nat
      /\ IsWhole(file) => file \in Documents /\ file.recent \in Seq(Requests)
      /\ CacheLimit \in Nat \ {0}
  BY StoreAssumption, HeldType DEF TypeOK, IsWhole
\* An id already answered is still in the cache when its age allows it.
<1>b. ASSUME NEW r \in Requests, up, ~Cached(r), q \in committed, age[q] < CacheLimit
      PROVE  q # r /\ Recent(cache, q, age[q])
  <2>1. Recent(cache, q, age[q])
    BY <1>b DEF CacheInv
  <2> QED
    BY <1>b, <2>1 DEF Recent, Cached
\* The others in the file keep their place, and are as old or older.
<1>c. ASSUME q \in committed, age[q] < CacheLimit, age'[q] \in Nat, age[q] <= age'[q],
             IsWhole(file)
      PROVE  Recent(file.recent, q, age'[q])
  <2>1. Recent(file.recent, q, age[q])
    BY <1>c DEF CacheInv
  <2> QED
    BY <1>a, <1>c, <2>1, RecentLonger
<1>1. ASSUME NEW r \in Requests, Execute(r) PROVE Goal
  <2> DEFINE board == [memory.board EXCEPT ![EffectOf[r].item] = EffectOf[r].to]
  <2> DEFINE document == DocumentOf(board, Remember(r))
  <2>1. PICK outcome \in Written(file, document) :
          /\ Commit(outcome, document,
                    IF outcome.end = "done" THEN Remember(r) ELSE Forget(Remember(r)))
          /\ age' = [Older(r) EXCEPT ![r] = IF outcome.end = "done" THEN 0 ELSE @]
          /\ committed' = IF outcome.end = "done" THEN committed \cup {r} ELSE committed
    BY <1>1 DEF Execute
  <2>2. board \in Boards
    BY <1>1, StoreAssumption DEF Execute, Effects, Boards, TypeOK
  <2>3. document \in Documents /\ document.recent = Remember(r)
    BY <2>2, DocumentOfType, RememberKeeps
  <2> DEFINE ids == IF outcome.end = "done" THEN Remember(r) ELSE Forget(Remember(r))
  <2> HIDE DEF board, document, ids
  <2>4. /\ IsWhole(file') => file' \in {file, document}
        /\ up' => cache' = ids
    <3>1. Commit(outcome, document, ids)
      BY <2>1 DEF ids
    <3> QED
      BY <2>3, <3>1, CommitLeaves
  <2>5. Older(r) \in [Requests -> 0..CacheLimit]
    BY OlderType
  <2>6. CASE outcome.end = "done" /\ q = r
    <3>1. age'[q] = 0 /\ file' = document /\ ids = Remember(r)
      BY <2>1, <2>5, <2>6, OutcomeOf DEF Commit, ids
    <3>2. Recent(Remember(r), r, 0)
      <4> DEFINE n == Len(Remember(r))
      <4>1. n \in DOMAIN Remember(r) /\ Remember(r)[n] = r /\ n - n <= 0
        BY RememberKeeps, <1>a
      <4> QED
        BY <4>1 DEF Recent
    <3> QED
      BY <2>3, <2>4, <2>6, <3>1, <3>2
  <2>7. CASE ~(outcome.end = "done" /\ q = r)
    <3>1. q \in committed /\ q \in Requests
      BY <1>a, <2>1, <2>7
    <3>2. age'[q] = Older(r)[q]
      BY <2>1, <2>5, <2>7, <3>1
    <3>3. age[q] \in Nat /\ age[q] < CacheLimit
      BY <3>1, <3>2, OlderBy
    <3>4. up /\ ~Cached(r)
      BY <1>1 DEF Execute
    <3>5. q # r /\ Recent(cache, q, age[q])
      BY <1>b, <3>1, <3>3, <3>4
    <3>6. age'[q] = age[q] + 1
      BY <3>1, <3>2, <3>5, OlderBy
    <3>7. Recent(Remember(r), q, age'[q]) /\ Recent(Forget(Remember(r)), q, age'[q])
      BY <3>3, <3>5, <3>6, RememberRecent
    <3> QED
      BY <1>c, <2>3, <2>4, <3>1, <3>3, <3>6, <3>7 DEF ids
  <2> QED
    BY <2>6, <2>7
<1>2. ASSUME NEW r \in Requests, ExecuteNothing(r) \/ Refuse(r) PROVE Goal
  <2>1. q \in committed /\ (ExecuteNothing(r) => q # r)
    BY <1>2 DEF ExecuteNothing, Refuse
  <2>2. q \in Requests /\ up /\ ~Cached(r)
    BY <1>2, <1>a, <2>1 DEF ExecuteNothing, Refuse
  <2>3. age'[q] = Older(r)[q]
    BY <1>2, <2>1, <2>2, OlderType DEF ExecuteNothing, Refuse
  <2>4. age[q] \in Nat /\ age[q] < CacheLimit
    BY <2>2, <2>3, OlderBy
  <2>5. q # r /\ Recent(cache, q, age[q])
    BY <1>b, <2>1, <2>2, <2>4
  <2>6. age'[q] = age[q] + 1
    BY <2>2, <2>3, <2>5, OlderBy
  <2>7. Recent(Remember(r), q, age'[q]) /\ Recent(Forget(Remember(r)), q, age'[q])
    BY <2>4, <2>5, <2>6, RememberRecent
  <2>8. cache' \in {Remember(r), Forget(Remember(r))} /\ file' = file
    BY <1>2 DEF ExecuteNothing, Refuse
  <2> QED
    BY <1>c, <2>1, <2>4, <2>6, <2>7, <2>8
<1>3. ASSUME UNCHANGED <<age, committed>>, NEW document \in Documents,
             document.recent = cache, up,
             NEW outcome \in Written(file, document), Commit(outcome, document, cache)
      PROVE  Goal
  <2>1. IsWhole(file') => file' \in {file, document}
    BY <1>3, CommitLeaves
  <2>2. up' => cache' = cache
    BY <1>3, CommitLeaves
  <2>3. Recent(cache, q, age'[q]) /\ (IsWhole(file) => Recent(file.recent, q, age'[q]))
    BY <1>3 DEF CacheInv
  <2> QED
    BY <1>3, <2>1, <2>2, <2>3
<1>4. ASSUME NEW running \in BOOLEAN, StampRun(running) PROVE Goal
  <2> DEFINE board == [memory.board EXCEPT ![Stamp] = running]
  <2>1. board \in Boards
    BY DEF Boards, TypeOK
  <2>2. DocumentOf(board, cache) \in Documents /\ DocumentOf(board, cache).recent = cache
    BY <1>a, <2>1, DocumentOfType
  <2>3. PICK outcome \in Written(file, DocumentOf(board, cache)) :
          Commit(outcome, DocumentOf(board, cache), cache)
    BY <1>4 DEF StampRun
  <2> HIDE DEF board
  <2> QED
    BY <1>3, <1>4, <2>2, <2>3 DEF StampRun, ghosts
<1>5. ASSUME NEW board \in Restorable, RestoreBoard(board) PROVE Goal
  <2>1. DocumentOf(board, cache) \in Documents /\ DocumentOf(board, cache).recent = cache
    BY <1>a, RestorableType, DocumentOfType
  <2>2. PICK copy :
          IF copy.end = "done"
          THEN \E outcome \in Written(file, DocumentOf(board, cache)) :
                  Commit(outcome, DocumentOf(board, cache), cache)
          ELSE /\ cache' = IF up' THEN cache ELSE <<>>
               /\ file' = file
    BY <1>5 DEF RestoreBoard
  <2>3. CASE copy.end = "done"
    BY <1>3, <1>5, <2>1, <2>2, <2>3 DEF RestoreBoard, ghosts
  <2>4. CASE copy.end # "done"
    BY <1>5, <2>2, <2>4 DEF RestoreBoard, CacheInv, ghosts
  <2> QED
    BY <2>3, <2>4
<1>6. CASE Boot
  BY <1>6 DEF Boot, CacheInv, ghosts
<1>7. CASE BootFresh
  BY <1>7 DEF BootFresh
<1>8. CASE TakeSnapshot \/ Crash
  BY <1>8 DEF TakeSnapshot, Crash, ghosts, CacheInv
<1>9. CASE UNCHANGED <<up, cache, file, age, committed>>
  BY <1>9 DEF CacheInv
<1> QED
  BY <1>1, <1>2, <1>4, <1>5, <1>6, <1>7, <1>8, <1>9
     DEF Next, Poll, Replay, RestoreTorn, vars, ghosts

\* A request whose mutation was committed is recognised until as many ids were
\* cached since as the cache holds, whatever was restored, failed or crashed.
THEOREM CommittedIdsAreRecognised == Spec => []CommittedOnce
<1>1. Init => CacheInv
  BY DEF Init, CacheInv
<1>2. CacheInv => CommittedOnce
  BY DEF CacheInv, Recent, CommittedOnce, Cached
<1> QED
  BY <1>1, <1>2, StoreTypeCorrect, CacheInvStep, PTL DEF Spec

----------------------------------------------------------------------------
(* The store implements KeptBoard.                                         *)

BoardSeen == IF up THEN memory.board ELSE OnDisk

Copies == {kept[n] : n \in DOMAIN kept} \ {Torn}

LEMMA OnDiskType ==
    ASSUME TypeOK
    PROVE  /\ up => memory.board \in Boards /\ memory.board # Absent
           /\ OnDisk \in Boards \cup {Absent}
           /\ BoardSeen \in Boards \cup {Absent}
           /\ Absent \notin Boards /\ Torn \notin Boards
BY StoreAssumption, HeldType DEF TypeOK, OnDisk, BoardSeen, IsWhole

\* A commit shows the new board, on disk or not, or, when the process died
\* before the write, what is left on disk.
LEMMA CommitShows ==
    ASSUME TypeOK, up, NEW document \in Documents, NEW ids,
           NEW outcome \in Written(file, document), Commit(outcome, document, ids)
    PROVE  /\ OnDisk' \in {document.board, OnDisk, Absent}
           /\ \/ BoardSeen' = document.board
              \/ BoardSeen' = OnDisk' /\ OnDisk' \in {OnDisk, Absent}
<1>1. OnDisk' \in {document.board, OnDisk, Absent}
  <2>1. IsWhole(file') => file' \in {file, document}
    BY CommitLeaves
  <2> QED
    BY <2>1 DEF OnDisk, IsWhole
<1>2. CASE up'
  <2>1. memory' = Held(document) /\ Held(document).board = document.board
    BY <1>2, CommitLeaves, HeldType
  <2> QED
    BY <1>1, <1>2, <2>1 DEF BoardSeen
<1>3. CASE ~up'
  BY <1>1, <1>3 DEF BoardSeen
<1> QED
  BY <1>1, <1>2, <1>3

\* A copy of a board goes to the head of the folder, or a torn one, or none.
LEMMA KeepingCopies ==
    ASSUME TypeOK, NEW board \in Boards, NEW outcome \in Written(Absent, board)
    PROVE  LET left == Keeping(outcome)
               copies == {left[n] : n \in DOMAIN left} \ {Torn}
           IN  /\ outcome.end = "done" => /\ copies = Copies \cup {board}
                                          /\ left \in Seq(Boards \cup {Torn})
                                          /\ Len(left) > 0 /\ left[1] = board
               /\ outcome.end = "error" => copies = Copies
               /\ copies \in {Copies, Copies \cup {board}}
<1> DEFINE left == Keeping(outcome)
<1> DEFINE copies == {left[n] : n \in DOMAIN left} \ {Torn}
<1>1. kept \in Seq(Boards \cup {Torn}) /\ Len(kept) \in Nat /\ DOMAIN kept = 1..Len(kept)
  BY LenProperties DEF TypeOK
<1>2. outcome.file \in {Absent, board, Torn} /\ Absent # board /\ Torn # board /\ Torn # Absent
  BY OutcomeOf, StoreAssumption
<1>3. CASE outcome.file = Absent
  <2>1. left = kept
    BY <1>3 DEF Keeping
  <2> QED
    BY <1>2, <1>3, <2>1, OutcomeOf DEF Copies
<1>4. CASE outcome.file # Absent
  <2>1. left = <<outcome.file>> \o kept
    BY <1>4 DEF Keeping
  <2>2. /\ left \in Seq(Boards \cup {Torn}) /\ Len(left) = Len(kept) + 1
        /\ left[1] = outcome.file
        /\ \A n \in 1..Len(kept) : left[n + 1] = kept[n]
        /\ DOMAIN left = 1..(Len(kept) + 1)
    <3>1. <<outcome.file>> \in Seq(Boards \cup {Torn}) /\ Len(<<outcome.file>>) = 1
      BY <1>2, <1>4
    <3> QED
      BY <1>1, <2>1, <3>1, ConcatProperties
  <2> HIDE DEF left
  <2>3. {left[n] : n \in DOMAIN left} = {outcome.file} \cup {kept[n] : n \in DOMAIN kept}
    <3>1. ASSUME NEW n \in DOMAIN left
          PROVE  left[n] \in {outcome.file} \cup {kept[m] : m \in DOMAIN kept}
      <4>1. CASE n = 1
        BY <2>2, <4>1
      <4>2. CASE n # 1
        <5>1. n - 1 \in 1..Len(kept) /\ (n - 1) + 1 = n
          BY <1>1, <2>2, <4>2
        <5> QED
          BY <1>1, <2>2, <5>1
      <4> QED
        BY <4>1, <4>2
    <3>2. outcome.file \in {left[n] : n \in DOMAIN left}
      BY <1>1, <2>2
    <3>3. ASSUME NEW n \in DOMAIN kept
          PROVE  kept[n] \in {left[m] : m \in DOMAIN left}
      <4>1. n + 1 \in DOMAIN left /\ left[n + 1] = kept[n]
        BY <1>1, <2>2
      <4> QED
        BY <4>1
    <3> QED
      BY <3>1, <3>2, <3>3
  <2>4. copies = Copies \cup ({outcome.file} \ {Torn})
    BY <2>3 DEF Copies
  <2> QED
    BY <1>1, <1>2, <1>4, <2>2, <2>4, OutcomeOf DEF left
<1> QED
  BY <1>3, <1>4

\* The oldest copies leave, never the newest.
LEMMA NewestCopies ==
    ASSUME NEW entries \in Seq(Boards \cup {Torn}), Len(entries) > 0
    PROVE  LET left == Newest(entries)
           IN  /\ {left[n] : n \in DOMAIN left} \subseteq {entries[n] : n \in DOMAIN entries}
               /\ entries[1] \in {left[n] : n \in DOMAIN left}
<1> DEFINE left == Newest(entries)
<1>1. Len(entries) \in Nat /\ DOMAIN entries = 1..Len(entries) /\ Retention \in Nat \ {0}
  BY LenProperties, StoreAssumption
<1>2. CASE Len(entries) <= Retention
  BY <1>1, <1>2 DEF Newest
<1>3. CASE ~(Len(entries) <= Retention)
  <2>1. left = SubSeq(entries, 1, Retention)
    BY <1>3 DEF Newest
  <2> HIDE DEF left
  <2>2. DOMAIN left = 1..Retention /\ \A n \in 1..Retention : left[n] = entries[n]
    BY <1>1, <1>3, <2>1, SubSeqProperties
  <2> QED
    BY <1>1, <1>3, <2>2 DEF left
<1> QED
  BY <1>2, <1>3

\* A torn copy that leaves takes no board with it.
LEMMA WithoutTorn ==
    ASSUME TypeOK, NEW n \in DOMAIN kept, kept[n] = Torn
    PROVE  LET left == Without(kept, n)
           IN  {left[m] : m \in DOMAIN left} \ {Torn} = Copies
<1> DEFINE front == SubSeq(kept, 1, n - 1)
<1> DEFINE back == SubSeq(kept, n + 1, Len(kept))
<1> DEFINE left == front \o back
<1>1. /\ kept \in Seq(Boards \cup {Torn}) /\ Len(kept) \in Nat /\ n \in 1..Len(kept)
      /\ DOMAIN kept = 1..Len(kept)
  BY LenProperties DEF TypeOK
<1>2. /\ front \in Seq(Boards \cup {Torn}) /\ Len(front) = n - 1
      /\ \A m \in 1..(n - 1) : front[m] = kept[m]
  BY <1>1, SubSeqProperties
<1>3. /\ back \in Seq(Boards \cup {Torn}) /\ Len(back) = Len(kept) - n
      /\ \A m \in 1..(Len(kept) - n) : back[m] = kept[n + m]
  BY <1>1, SubSeqProperties
<1> HIDE DEF front, back
<1>4. /\ DOMAIN left = 1..(Len(kept) - 1)
      /\ \A m \in 1..(Len(kept) - 1) : left[m] = IF m < n THEN kept[m] ELSE kept[m + 1]
  <2>1. /\ left \in Seq(Boards \cup {Torn}) /\ Len(left) = Len(front) + Len(back)
        /\ \A m \in 1..Len(left) :
              left[m] = IF m <= Len(front) THEN front[m] ELSE back[m - Len(front)]
    <3>1. /\ left \in Seq(Boards \cup {Torn}) /\ Len(left) = Len(front) + Len(back)
          /\ \A m \in 1..(Len(front) + Len(back)) :
                left[m] = IF m <= Len(front) THEN front[m] ELSE back[m - Len(front)]
      BY <1>2, <1>3, ConcatProperties
    <3> HIDE DEF left
    <3> QED
      BY <3>1
  <2> HIDE DEF left
  <2>2. Len(left) = Len(kept) - 1 /\ DOMAIN left = 1..(Len(kept) - 1)
    BY <1>1, <1>2, <1>3, <2>1
  <2>3. ASSUME NEW m \in 1..(Len(kept) - 1)
        PROVE  left[m] = IF m < n THEN kept[m] ELSE kept[m + 1]
    <3>1. CASE m < n
      BY <1>1, <1>2, <2>1, <2>2, <3>1
    <3>2. CASE ~(m < n)
      <4>1. m - (n - 1) \in 1..(Len(kept) - n) /\ n + (m - (n - 1)) = m + 1
        BY <1>1, <3>2
      <4>2. left[m] = back[m - (n - 1)]
        BY <1>1, <1>2, <2>1, <2>2, <3>2
      <4> QED
        BY <1>3, <3>2, <4>1, <4>2
    <3> QED
      BY <3>1, <3>2
  <2> QED
    BY <2>2, <2>3
<1> HIDE DEF left
<1>5. ASSUME NEW m \in DOMAIN left PROVE left[m] \in {kept[k] : k \in DOMAIN kept}
  BY <1>1, <1>4
<1>6. ASSUME NEW k \in DOMAIN kept, kept[k] # Torn PROVE kept[k] \in {left[m] : m \in DOMAIN left}
  <2>1. CASE k < n
    BY <1>1, <1>4, <2>1
  <2>2. CASE k > n
    <3>1. k - 1 \in DOMAIN left /\ left[k - 1] = kept[k] /\ (k - 1) + 1 = k
      BY <1>1, <1>4, <2>2
    <3> QED
      BY <3>1
  <2> QED
    BY <1>1, <1>6, <2>1, <2>2
<1>7. {left[m] : m \in DOMAIN left} \ {Torn} = Copies
  BY <1>5, <1>6 DEF Copies
<1> QED
  BY <1>7 DEF Without, left, front, back

\* One fact of the board changes, or the process dies and the disk is shown.
LEMMA CommitIsEdit ==
    ASSUME TypeOK, up, UNCHANGED kept, NEW item \in Items, NEW ids \in Seq(Requests), NEW left,
           NEW outcome \in
              Written(file, DocumentOf([memory.board EXCEPT ![item] = ~memory.board[item]], ids)),
           Commit(outcome,
                  DocumentOf([memory.board EXCEPT ![item] = ~memory.board[item]], ids), left)
    PROVE  Kept!Edit \/ Kept!Restart
<1> DEFINE board == [memory.board EXCEPT ![item] = ~memory.board[item]]
<1>1. board \in Boards
  BY OnDiskType DEF Boards
<1>2. DocumentOf(board, ids) \in Documents /\ DocumentOf(board, ids).board = board
  BY <1>1, DocumentOfType
<1>3. /\ OnDisk' \in {board, OnDisk, Absent}
      /\ BoardSeen' = board \/ (BoardSeen' = OnDisk' /\ OnDisk' \in {OnDisk, Absent})
  BY <1>2, CommitShows
<1>4. BoardSeen = memory.board /\ memory.board # Absent
  BY OnDiskType DEF BoardSeen
<1>5. CASE BoardSeen' = board
  <2>1. /\ BoardSeen # Absent
        /\ BoardSeen' = [BoardSeen EXCEPT ![item] = ~BoardSeen[item]]
        /\ OnDisk' \in {BoardSeen', OnDisk, Absent}
        /\ Copies' = Copies
    BY <1>3, <1>4, <1>5 DEF Copies
  <2> QED
    BY <2>1 DEF Kept!Edit, BoardSeen, Copies
<1>6. CASE BoardSeen' = OnDisk' /\ OnDisk' \in {OnDisk, Absent}
  BY <1>6 DEF Kept!Restart, BoardSeen, Copies
<1> QED
  BY <1>3, <1>5, <1>6

LEMMA TheOther == \A a, b \in BOOLEAN : a # b => b = ~a
OBVIOUS

LEMMA KeptStep ==
    ASSUME TypeOK, TypeOK', "read" \notin Faults, [Next]_vars
    PROVE  [Kept!Next]_(Kept!vars)
<1>a. /\ OnDisk = Absent \/ IsWhole(file)
      /\ up => BoardSeen = memory.board
      /\ ~up => BoardSeen = OnDisk
      /\ up' => BoardSeen' = memory'.board
      /\ ~up' => BoardSeen' = OnDisk'
      /\ file' = file => OnDisk' = OnDisk
      /\ kept' = kept => Copies' = Copies
      /\ cache \in Seq(Requests) /\ up \in BOOLEAN
  BY DEF OnDisk, BoardSeen, Copies, TypeOK, IsWhole
<1>b. /\ Kept!Start <=> /\ BoardSeen = Absent /\ BoardSeen' = Kept!EmptyBoard
                        /\ OnDisk' \in {BoardSeen', OnDisk} /\ Copies' = Copies
      /\ Kept!Save <=> /\ BoardSeen # Absent /\ Copies' \subseteq Copies \cup {BoardSeen}
                       /\ BoardSeen \in Copies' /\ BoardSeen' = BoardSeen /\ OnDisk' = OnDisk
      /\ Kept!Adopt <=> /\ BoardSeen # Absent /\ BoardSeen' \in Copies \cup Imports
                        /\ OnDisk' \in {BoardSeen', OnDisk, Absent}
                        /\ Copies' = Copies \cup {BoardSeen}
      /\ Kept!Restart <=> /\ BoardSeen' = OnDisk' /\ OnDisk' \in {OnDisk, Absent}
                          /\ Copies' \in {Copies, Copies \cup {BoardSeen}}
      /\ (UNCHANGED Kept!vars) <=>
            BoardSeen' = BoardSeen /\ OnDisk' = OnDisk /\ Copies' = Copies
  BY DEF Kept!Start, Kept!Save, Kept!Adopt, Kept!Restart, Kept!vars, BoardSeen, Copies

<1>1. ASSUME NEW r \in Requests, Execute(r) PROVE Kept!Edit \/ Kept!Restart
  <2> DEFINE item == EffectOf[r].item
  <2>1. /\ item \in Items /\ EffectOf[r].to \in BOOLEAN /\ memory.board[item] \in BOOLEAN
        /\ memory.board[item] # EffectOf[r].to
        /\ up /\ kept' = kept
    BY <1>1, StoreAssumption DEF Execute, Effects, Boards, TypeOK
  <2>2. EffectOf[r].to = ~memory.board[item]
    BY <2>1, TheOther, Zenon
  <2>3. PICK outcome \in
             Written(file, DocumentOf([memory.board EXCEPT ![item] = EffectOf[r].to], Remember(r))) :
          Commit(outcome, DocumentOf([memory.board EXCEPT ![item] = EffectOf[r].to], Remember(r)),
                 IF outcome.end = "done" THEN Remember(r) ELSE Forget(Remember(r)))
    BY <1>1 DEF Execute
  <2>4. Remember(r) \in Seq(Requests)
    BY RememberKeeps
  <2> HIDE DEF item
  <2> QED
    BY <2>1, <2>2, <2>3, <2>4, CommitIsEdit
<1>2. ASSUME NEW running \in BOOLEAN, StampRun(running) PROVE Kept!Edit \/ Kept!Restart
  <2>1. /\ Stamp \in Items /\ memory.board[Stamp] \in BOOLEAN /\ running \in BOOLEAN
        /\ memory.board[Stamp] # running
        /\ up /\ kept' = kept
    BY <1>2, StoreAssumption DEF StampRun, Boards, TypeOK
  <2>2. running = ~memory.board[Stamp]
    BY <2>1, TheOther, Zenon
  <2>3. PICK outcome \in
             Written(file, DocumentOf([memory.board EXCEPT ![Stamp] = running], cache)) :
          Commit(outcome, DocumentOf([memory.board EXCEPT ![Stamp] = running], cache), cache)
    BY <1>2 DEF StampRun
  <2> QED
    BY <1>a, <2>1, <2>2, <2>3, CommitIsEdit
<1>3. ASSUME TakeSnapshot PROVE Kept!Save \/ Kept!Restart \/ UNCHANGED Kept!vars
  <2>1. PICK outcome \in Written(Absent, memory.board) :
          /\ kept' = IF outcome.end = "done" THEN Newest(Keeping(outcome)) ELSE Keeping(outcome)
          /\ up' = (outcome.end # "crash")
    BY <1>3 DEF TakeSnapshot
  <2>2. /\ up /\ file' = file /\ memory.board \in Boards /\ memory.board # Absent
        /\ memory.board # Torn
        /\ up' <=> outcome.end # "crash"
        /\ up' => memory' = memory
    BY <1>3, <2>1, OnDiskType DEF TakeSnapshot
  <2> DEFINE left == Keeping(outcome)
  <2>3. /\ outcome.end = "done" => /\ {left[n] : n \in DOMAIN left} \ {Torn}
                                        = Copies \cup {memory.board}
                                   /\ left \in Seq(Boards \cup {Torn})
                                   /\ Len(left) > 0 /\ left[1] = memory.board
        /\ outcome.end = "error" => {left[n] : n \in DOMAIN left} \ {Torn} = Copies
        /\ {left[n] : n \in DOMAIN left} \ {Torn} \in {Copies, Copies \cup {memory.board}}
    BY <2>2, KeepingCopies
  <2> HIDE DEF left
  <2>4. CASE outcome.end = "done"
    <3>1. /\ kept' = Newest(left)
          /\ {kept'[n] : n \in DOMAIN kept'} \subseteq {left[n] : n \in DOMAIN left}
          /\ left[1] \in {kept'[n] : n \in DOMAIN kept'}
      BY <2>1, <2>3, <2>4, NewestCopies DEF left
    <3>2. Copies' \subseteq Copies \cup {memory.board} /\ memory.board \in Copies'
      BY <2>2, <2>3, <2>4, <3>1 DEF Copies
    <3> QED
      BY <1>a, <1>b, <2>2, <2>4, <3>2
  <2>5. CASE outcome.end # "done"
    <3>1. Copies' = {left[n] : n \in DOMAIN left} \ {Torn}
      BY <2>1, <2>5 DEF Copies, left
    <3> QED
      BY <1>a, <1>b, <2>2, <2>3, <2>5, <3>1, OutcomeOf
  <2> QED
    BY <2>4, <2>5
<1>4. ASSUME NEW board \in Restorable, RestoreBoard(board)
      PROVE  Kept!Adopt \/ Kept!Restart \/ UNCHANGED Kept!vars
  <2>1. PICK copy \in Written(Absent, memory.board) :
          /\ kept' = Keeping(copy)
          /\ copy.end = "done" =>
                \E outcome \in Written(file, DocumentOf(board, cache)) :
                   Commit(outcome, DocumentOf(board, cache), cache)
          /\ copy.end # "done" =>
                /\ up' <=> copy.end # "crash"
                /\ up' => memory' = memory
                /\ file' = file
    BY <1>4, Zenon DEF RestoreBoard, Replaced
  <2>2. up /\ memory.board \in Boards /\ memory.board # Absent
    BY <1>4, OnDiskType DEF RestoreBoard
  <2>3. /\ copy.end = "done" => Copies' = Copies \cup {memory.board}
        /\ copy.end = "error" => Copies' = Copies
        /\ Copies' \in {Copies, Copies \cup {memory.board}}
    <3> DEFINE left == Keeping(copy)
    <3> DEFINE copies == {left[n] : n \in DOMAIN left} \ {Torn}
    <3>1. /\ copy.end = "done" => copies = Copies \cup {memory.board}
          /\ copy.end = "error" => copies = Copies
          /\ copies \in {Copies, Copies \cup {memory.board}}
      BY <2>2, KeepingCopies
    <3>2. Copies' = copies
      BY <2>1 DEF Copies
    <3> QED
      BY <3>1, <3>2
  <2>4. board \in Boards /\ board \in Copies \cup Imports
    BY RestorableType DEF Restorable, Copies
  <2>5. CASE copy.end = "done"
    <3>1. PICK outcome \in Written(file, DocumentOf(board, cache)) :
            Commit(outcome, DocumentOf(board, cache), cache)
      BY <2>1, <2>5
    <3>2. DocumentOf(board, cache) \in Documents /\ DocumentOf(board, cache).board = board
      BY <1>a, <2>4, DocumentOfType
    <3>3. /\ OnDisk' \in {board, OnDisk, Absent}
          /\ BoardSeen' = board \/ (BoardSeen' = OnDisk' /\ OnDisk' \in {OnDisk, Absent})
      BY <2>2, <3>1, <3>2, CommitShows
    <3> QED
      BY <1>a, <1>b, <2>2, <2>3, <2>4, <2>5, <3>3
  <2>6. CASE copy.end # "done"
    BY <1>a, <1>b, <2>1, <2>2, <2>3, <2>6, OutcomeOf
  <2> QED
    BY <2>5, <2>6
<1>5. ASSUME NEW n \in DOMAIN kept, RestoreTorn(n) PROVE UNCHANGED Kept!vars
  <2>1. Copies' = Copies
    BY <1>5, WithoutTorn DEF RestoreTorn, Copies
  <2> QED
    BY <1>5, <1>a, <1>b, <2>1 DEF RestoreTorn
<1>6. ASSUME Crash PROVE Kept!Restart
  BY <1>6, <1>a, <1>b DEF Crash, ghosts
<1>7. ASSUME Boot PROVE UNCHANGED Kept!vars
  BY <1>7, <1>a, <1>b DEF Boot, Held, OnDisk
<1>8. ASSUME BootFresh PROVE Kept!Start \/ UNCHANGED Kept!vars
  <2>1. /\ ~up /\ OnDisk = Absent /\ kept' = kept
        /\ memory' = Held(EmptyDocument)
        /\ file' \in {Absent, file, EmptyDocument, Torn}
    BY <1>8, <1>a, FreshLeaves DEF BootFresh
  <2>2. memory'.board = EmptyBoard
    BY <2>1, EmptyIsDocument, HeldType
  <2>3. OnDisk' \in {Absent, EmptyBoard}
    BY <1>8, <2>1, EmptyIsDocument, TornOrAbsentIsNoDocument DEF BootFresh, OnDisk, IsWhole
  <2>4. EmptyBoard = Kept!EmptyBoard
    BY DEF EmptyBoard, Kept!EmptyBoard
  <2> QED
    BY <1>a, <1>b, <2>1, <2>2, <2>3, <2>4
<1>9. ASSUME UNCHANGED <<up, memory, file, kept>> PROVE UNCHANGED Kept!vars
  BY <1>9, <1>a, <1>b
<1> QED
  BY <1>1, <1>2, <1>3, <1>4, <1>5, <1>6, <1>7, <1>8, <1>9
     DEF Next, Kept!Next, ExecuteNothing, Refuse, Replay, Poll, vars, ghosts

\* The store implements KeptBoard when a file that is there can be read: no
\* board is lost that was not kept first, and a restart brings the one on disk
\* back.  (A boot that cannot read a whole file starts empty and renames it.)
THEOREM StoreKeepsBoards ==
    ASSUME "read" \notin Faults
    PROVE  Spec => BoardsAreKept
<1>1. Init => Kept!Init
  <2>1. DOMAIN <<>> = {}
    OBVIOUS
  <2> QED
    BY <2>1 DEF Init, Kept!Init, OnDisk, IsWhole
<1>2. TypeOK /\ TypeOK' /\ [Next]_vars => [Kept!Next]_(Kept!vars)
  BY KeptStep
<1> QED
  BY <1>1, <1>2, StoreTypeCorrect, PTL DEF Spec, BoardsAreKept, Kept!Spec

============================================================================
