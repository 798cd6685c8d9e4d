------------------------- MODULE SyncPipeline_proofs -------------------------
(***************************************************************************)
(* Proofs about SyncPipeline, for every set of kitabs, every number of     *)
(* workers (none included) and every set of faults.                        *)
(***************************************************************************)
EXTENDS SyncPipeline, FiniteSetTheorems, TLAPS

-------------------------------------------------------------------------------
(* The tokens of the semaphore are the goroutines that have not returned     *)
(* theirs, and those the main goroutine took at the end; an error in errChan *)
(* belongs to a goroutine that has reported it and will not report again.    *)

Early == {"connect", "exists", "delete", "create", "optimize", "listids"}
Late  == {"close", "closing", "restore", "report"}

Holders == {k \in Kitab : HoldsToken(k)}
Settled == {k \in ids : stream[k] \in {"releasing", "done"}}

Shape ==
  /\ rows \subseteq Doc
  /\ pc \in MainPCs
  /\ ids \subseteq Kitab /\ jobs \subseteq ids
  /\ stream \in [Kitab -> StreamStates]
  /\ sem \in Nat /\ taken \in Nat /\ errs \in Nat

Started ==
  /\ pc \in Early => \A k \in Kitab : stream[k] = "none"
  /\ \A k \in jobs : stream[k] = "none"
  /\ \A k \in Kitab : stream[k] # "none" => k \in ids

Tokens ==
  /\ sem = Cardinality(Holders) + taken
  /\ sem <= Workers
  /\ pc \in Late \/ closed => taken = Workers

Errors == errs <= Cardinality(Settled)

Inv == Shape /\ Started /\ Tokens /\ Errors

LEMMA FiniteSets ==
  ASSUME Shape
  PROVE  /\ IsFiniteSet(Holders) /\ Cardinality(Holders) \in Nat
         /\ IsFiniteSet(ids) /\ Cardinality(ids) \in Nat
         /\ IsFiniteSet(Settled) /\ Cardinality(Settled) \in Nat
<1>1. Holders \in SUBSET Kitab /\ ids \in SUBSET Kitab /\ Settled \in SUBSET Kitab
  BY DEF Shape, Holders, Settled
<1> QED
  BY <1>1, SyncAssumption, FS_Subset, FS_CardinalityType

LEMMA InvInit == Init => Inv
<1> SUFFICES ASSUME Init PROVE Inv
  OBVIOUS
<1>1. Shape /\ Started
  BY DEF Init, Shape, Started, MainPCs, StreamStates, Early
<1>2. Holders = {} /\ Settled = {}
  BY DEF Init, Holders, Settled, HoldsToken
<1>3. Tokens /\ Errors
  BY <1>2, FS_EmptySet, SyncAssumption DEF Init, Tokens, Errors, Late
<1> QED
  BY <1>1, <1>3 DEF Inv

\* Steps that leave the goroutines, the channels and the indexer's queue alone.
LEMMA InvStutter ==
  ASSUME Inv, UNCHANGED <<rows, jobs, ids, stream, sem, taken, errs, closed>>,
         pc' \in MainPCs, pc' \in Early => pc \in Early, pc' \in Late => pc \in Late
  PROVE  Inv'
<1>1. Holders' = Holders /\ Settled' = Settled
  BY DEF Holders, Settled, HoldsToken
<1> QED
  BY <1>1 DEF Inv, Shape, Started, Tokens, Errors

LEMMA InvStep == Inv /\ [Next]_vars => Inv'
<1> SUFFICES ASSUME Inv, [Next]_vars PROVE Inv'
  OBVIOUS
<1> USE SyncAssumption
<1>f. /\ IsFiniteSet(Holders) /\ Cardinality(Holders) \in Nat
      /\ IsFiniteSet(ids) /\ Cardinality(ids) \in Nat
      /\ IsFiniteSet(Settled) /\ Cardinality(Settled) \in Nat
  BY FiniteSets DEF Inv
<1>1. CASE Connect \/ CheckExists \/ DeleteIndex \/ CreateIndex \/ Optimize
  <2>1. pc \in Early /\ pc' \in Early \cup {"exited"}
        /\ UNCHANGED <<rows, titled, pools, closed>>
    BY <1>1 DEF Connect, CheckExists, DeleteIndex, DropIndex, CreateIndex, MakeIndex,
                MayMakeIndex, Optimize, PutRefresh, Exit, indexer, service, Early
  <2> QED
    BY <2>1, InvStutter DEF Early, Late, MainPCs, pools
<1>2. CASE ListIDs
  <2>1. pc = "listids" /\ UNCHANGED <<stream, sem, taken, errs, closed>>
    BY <1>2 DEF ListIDs, indexer
  <2>3. ids' \subseteq Kitab /\ jobs' \subseteq ids' /\ pc' \in {"spawn", "exited"}
    BY <1>2 DEF ListIDs, Exit, Inv, Shape, Doc
  <2>n. \A k \in Kitab : stream[k] = "none" /\ stream'[k] = "none"
    BY <2>1 DEF Inv, Started, Early
  <2>2. Holders' = {} /\ Holders = {} /\ Settled = {} /\ Settled' = {}
    BY <2>n, <2>3 DEF Inv, Shape, Holders, Settled, HoldsToken
  <2> QED
    BY <1>2, <2>1, <2>2, <2>3, <2>n
       DEF ListIDs, service, Inv, Shape, Started, Tokens, Errors, Early, Late, MainPCs
<1>3. ASSUME NEW k \in Kitab, Spawn(k)
      PROVE  Inv'
  <2>1. Holders' = Holders \cup {k} /\ k \notin Holders
    BY <1>3 DEF Spawn, Inv, Shape, Started, Holders, HoldsToken
  <2>2. Settled' = Settled
    BY <1>3 DEF Spawn, Inv, Shape, Started, Settled
  <2>3. Cardinality(Holders') = Cardinality(Holders) + 1
    BY <1>f, <2>1, FS_AddElement
  <2> QED
    BY <1>3, <1>f, <2>2, <2>3
       DEF Spawn, service, indexer, Inv, Shape, Started, Tokens, Errors, Early, Late, StreamStates
<1>4. CASE SpawnDone
  BY <1>4, InvStutter DEF SpawnDone, service, pools, indexer, Early, Late, MainPCs
<1>5. ASSUME NEW k \in Kitab, StreamRow(k)
      PROVE  Inv'
  <2>1. /\ pc' \in {pc, "exited"}
        /\ UNCHANGED <<rows, jobs, ids, stream, sem, taken, errs, closed>>
    BY <1>5 DEF StreamRow, Exit, service
  <2> QED
    BY <2>1, InvStutter DEF Inv, Shape, Early, Late, MainPCs
<1>6. ASSUME NEW k \in Kitab, StreamFail(k)
      PROVE  Inv'
  <2>1. Holders' = Holders /\ Settled' = Settled
    BY <1>6 DEF StreamFail, Inv, Shape, Holders, Settled, HoldsToken
  <2> QED
    BY <1>6, <2>1
       DEF StreamFail, service, indexer, Inv, Shape, Started, Tokens, Errors, Early, StreamStates
<1>7. ASSUME NEW k \in Kitab, StreamEnd(k) \/ ReportError(k)
      PROVE  Inv'
  <2>1. /\ Holders' = Holders
        /\ k \in ids /\ k \notin Settled /\ Settled' = Settled \cup {k}
    BY <1>7 DEF StreamEnd, ReportError, Inv, Shape, Started, Holders, Settled, HoldsToken
  <2>2. Cardinality(Settled') = Cardinality(Settled) + 1
    BY <1>f, <2>1, FS_AddElement
  <2>3. errs' \in Nat /\ errs' <= errs + 1
    BY <1>7 DEF StreamEnd, ReportError, Inv, Shape
  <2>4. /\ stream' = [stream EXCEPT ![k] = "releasing"] /\ stream[k] # "none"
        /\ UNCHANGED <<rows, titled, pc, jobs, ids, sem, taken, closed>>
    BY <1>7 DEF StreamEnd, ReportError, indexer, service
  <2> QED
    BY <1>f, <2>1, <2>2, <2>3, <2>4
       DEF Inv, Shape, Started, Tokens, Errors, Early, StreamStates
<1>8. ASSUME NEW k \in Kitab, Release(k)
      PROVE  Inv'
  <2>1. Holders' = Holders \ {k} /\ k \in Holders /\ Settled' = Settled
    BY <1>8 DEF Release, Inv, Shape, Holders, Settled, HoldsToken
  <2>2. Cardinality(Holders') = Cardinality(Holders) - 1
    BY <1>f, <2>1, FS_RemoveElement
  <2>3. Cardinality(Holders') \in Nat
    BY <1>f, <2>1, FS_RemoveElement, FS_CardinalityType
  <2> QED
    BY <1>8, <1>f, <2>1, <2>2, <2>3
       DEF Release, service, indexer, Inv, Shape, Started, Tokens, Errors, Early, StreamStates
<1>9. CASE Drain
  <2>1. Holders' = Holders /\ Settled' = Settled
    BY <1>9 DEF Drain, Holders, Settled, HoldsToken
  <2> QED
    BY <1>9, <1>f, <2>1
       DEF Drain, service, indexer, Inv, Shape, Started, Tokens, Errors, Early, Late, MainPCs
<1>10. CASE CloseIndexer
  <2>1. Holders' = Holders /\ Settled' = Settled
    BY <1>10 DEF CloseIndexer, pools, Holders, Settled, HoldsToken
  <2> QED
    BY <1>10, <2>1
       DEF CloseIndexer, service, pools, Inv, Shape, Started, Tokens, Errors, Early, Late, MainPCs
<1>11. CASE CloseDone \/ Restore \/ Report \/ Kill
  <2>1. /\ pc' \in {"restore", "report", "exited"} /\ UNCHANGED <<rows, titled, pools, closed>>
        /\ pc' = "exited" \/ pc \in Late
    BY <1>11 DEF CloseDone, Restore, Report, Kill, PutRefresh, Exit, indexer,
                service, Late
  <2> QED
    BY <2>1, InvStutter DEF Early, Late, MainPCs, pools
<1>12. ASSUME NEW d \in Doc, FlushOk(d) \/ FlushFail(d)
       PROVE  Inv'
  BY <1>12, InvStutter DEF FlushOk, FlushFail, pools, Inv, Shape
<1>13. CASE Rerun
  <2>1. Holders' = {} /\ Settled' = {}
    BY <1>13 DEF Rerun, Holders, Settled, HoldsToken
  <2> QED
    BY <1>13, <2>1, FS_EmptySet
       DEF Rerun, Inv, Shape, Started, Tokens, Errors, Early, Late, MainPCs, StreamStates
<1>14. CASE UNCHANGED vars
  BY <1>14, InvStutter DEF vars, service, pools, indexer, Inv, Shape
<1>15. CASE Refresh
  BY <1>15, InvStutter DEF Refresh, pools, indexer, Inv, Shape
<1> QED
  BY <1>1, <1>2, <1>3, <1>4, <1>5, <1>6, <1>7, <1>8, <1>9, <1>10, <1>11, <1>12,
     <1>13, <1>14, <1>15
     DEF Next, Run, Prepare, Finish, Stream, Flush, Stopped

LEMMA InvCorrect == Spec => []Inv
BY InvInit, InvStep, PTL DEF Spec

\* No more than SyncWorkers goroutines ever hold a token, so none of them
\* waits for one of the SyncWorkers + 2 connections.
THEOREM WorkersBounded == Spec => []StreamsBounded
<1>1. Inv => Cardinality(Holders) <= Workers
  BY FiniteSets, SyncAssumption DEF Inv, Shape, Tokens
<1>2. Inv => StreamsBounded
  BY <1>1 DEF Holders, StreamsBounded
<1> QED
  BY <1>2, InvCorrect, PTL

\* Taking every token is a barrier: bi.Close never closes the queue under a
\* goroutine that can still add to it.
THEOREM CloseIsSafe == Spec => []NoAddAfterClose
<1>1. Inv => NoAddAfterClose
  <2> SUFFICES ASSUME Inv, closed PROVE Holders = {}
    BY DEF NoAddAfterClose, Holders
  <2>1. Cardinality(Holders) \in Nat /\ IsFiniteSet(Holders)
    BY FiniteSets DEF Inv
  <2>2. Cardinality(Holders) = 0
    BY <2>1, SyncAssumption DEF Inv, Tokens, Shape
  <2> QED
    BY <2>1, <2>2, FS_EmptySet
<1> QED
  BY <1>1, InvCorrect, PTL

\* One slot per listed kitab is enough for errChan: no failed stream blocks
\* on the channel that nobody reads.
THEOREM ErrorsFit == Spec => []ErrChanNeverFull
<1>1. Inv => ErrChanNeverFull
  <2> SUFFICES ASSUME Inv, NEW k \in Kitab, stream[k] = "failing"
               PROVE  errs < Cardinality(ids)
    BY DEF ErrChanNeverFull, ErrChanCap
  <2>1. Settled \in SUBSET ids /\ Settled # ids
    BY DEF Inv, Started, Settled
  <2>2. Cardinality(Settled) < Cardinality(ids)
    BY <2>1, FiniteSets, FS_Subset DEF Inv
  <2> QED
    BY <2>2, FiniteSets DEF Inv, Shape, Errors
<1> QED
  BY <1>1, InvCorrect, PTL
-------------------------------------------------------------------------------
(* Refresh is switched off on an index that has just been made: at that      *)
(* place nothing has been added to it, and nothing waits to be.              *)

Hidden ==
  /\ LoadIsHidden
  /\ pc \in Early => queued = {}
  /\ pc = "optimize" => docs = {} /\ searchable = {}

LEMMA HiddenStep == Inv /\ Hidden /\ [Next]_vars => Hidden'
<1> SUFFICES ASSUME Inv, Hidden, [Next]_vars PROVE Hidden'
  OBVIOUS
<1> USE DEF Hidden, LoadIsHidden
<1>1. CASE Connect \/ CheckExists
  BY <1>1 DEF Connect, CheckExists, Exit, service, indexer, Early
<1>2. CASE DeleteIndex
  BY <1>2 DEF DeleteIndex, DropIndex, Exit, service, indexer, Early
<1>3. CASE CreateIndex
  BY <1>3 DEF CreateIndex, MayMakeIndex, MakeIndex, Exit, service, indexer, Early
<1>4. CASE Optimize
  BY <1>4 DEF Optimize, PutRefresh, Exit, indexer, Early
<1>5. CASE ListIDs
  BY <1>5 DEF ListIDs, Exit, service, indexer, Early
<1>6. ASSUME NEW k \in Kitab, Spawn(k) PROVE Hidden'
  BY <1>6 DEF Spawn, service, indexer, Early
<1>7. CASE SpawnDone \/ Drain \/ CloseIndexer \/ CloseDone \/ Report
  BY <1>7 DEF SpawnDone, Drain, CloseIndexer, CloseDone, Report, Exit, service, indexer, Early
<1>8. ASSUME NEW k \in Kitab, Stream(k) PROVE Hidden'
  <2>1. stream[k] # "none"
    BY <1>8 DEF Stream, StreamRow, StreamEnd, StreamFail, ReportError, Release
  <2>2. pc \notin Early
    BY <2>1 DEF Inv, Started
  <2>3. pc' \in {pc, "exited"} /\ UNCHANGED service
    BY <1>8 DEF Stream, StreamRow, StreamEnd, StreamFail, ReportError, Release, Exit
  <2>4. QED
    BY <2>2, <2>3 DEF service, Early
<1>9. ASSUME NEW d \in Doc, Flush(d) PROVE Hidden'
  BY <1>9 DEF Flush, FlushOk, FlushFail, Early
<1>10. CASE Restore
  BY <1>10 DEF Restore, PutRefresh, Exit, indexer, Early
<1>11. CASE Kill
  BY <1>11 DEF Kill, Exit, service, indexer, Early
<1>12. CASE Rerun
  BY <1>12 DEF Rerun, Early
<1>13. CASE Refresh
  BY <1>13 DEF Refresh, indexer, Early
<1>14. CASE UNCHANGED vars
  BY <1>14 DEF vars, service, indexer
<1>15. QED
  BY <1>1, <1>2, <1>3, <1>4, <1>5, <1>6, <1>7, <1>8, <1>9, <1>10, <1>11, <1>12, <1>13, <1>14
     DEF Next, Run, Prepare, Finish, Stopped

\* While refresh is off a search sees nothing of the index.
THEOREM LoadStaysHidden == Spec => []LoadIsHidden
<1>1. Init => Hidden
  BY DEF Init, Hidden, LoadIsHidden
<1>2. QED
  BY <1>1, HiddenStep, InvCorrect, PTL DEF Spec, Hidden
-------------------------------------------------------------------------------
(* What has been read is in the index or on its way there, unless an item    *)
(* was reported failed; and a stream that has ended without reporting an     *)
(* error has read its kitab to the end.                                      *)

Streaming == {"spawn", "drain"} \cup Late
Loading   == {"optimize", "listids"} \cup Streaming

ReadShape ==
  /\ last \in [Kitab -> 0..MaxSection]
  /\ docs \subseteq Doc /\ queued \subseteq Doc
  /\ countSuccessful \in Nat /\ countFailed \in Nat

\* Before the streams nothing has been read; the lists are made from all rows.
Listed ==
  /\ pc \in Early => /\ \A k \in Kitab : last[k] = 0
                     /\ queued = {} /\ countSuccessful = 0 /\ countFailed = 0
  /\ pc \in Streaming =>
       /\ \A d \in rows : d[1] \in ids
       /\ \A k \in ids : k \in jobs \/ stream[k] # "none"
  /\ pc \in {"drain"} \cup Late => jobs = {}
  /\ pc \in {"closing", "restore", "report"} => closed
  /\ pc \in {"restore", "report"} => queued = {}
  /\ pc # "exited" => outcome = "none"

\* An item is on its way, indexed, or counted as failed.
Carried ==
  pc \in Loading =>
    /\ queued \subseteq ReadRows
    /\ countFailed = 0 => docs \cup queued = ReadRows
    /\ countSuccessful + countFailed + Cardinality(queued) = Cardinality(ReadRows)

ReadToEnd ==
  errs = 0 /\ pc # "exited" =>
    \A k \in Kitab : stream[k] \in {"releasing", "done"} => Remaining(k) = {}

Read == ReadShape /\ Listed /\ Carried /\ ReadToEnd /\ SuccessIsComplete

LEMMA FiniteDocs ==
  ASSUME NEW S \in SUBSET Doc
  PROVE  IsFiniteSet(S) /\ Cardinality(S) \in Nat
<1>1. IsFiniteSet(Section)
  BY SyncAssumption, FS_Interval DEF Section
<1>2. IsFiniteSet(Doc)
  BY <1>1, SyncAssumption, FS_Product DEF Doc
<1> QED
  BY <1>2, FS_Subset, FS_CardinalityType

\* Nothing has been read while every last is 0: sections begin at 1.
LEMMA NothingRead ==
  ASSUME Shape, ReadShape, \A k \in Kitab : last[k] = 0
  PROVE  ReadRows = {}
BY SyncAssumption DEF Shape, ReadShape, ReadRows, Joined, Doc, Section

\* The row a stream reads is the only one that its last step passes.
LEMMA RowRead ==
  ASSUME Shape, ReadShape, NEW k \in Kitab, NEW i \in Remaining(k),
         \A j \in Remaining(k) : i <= j,
         last' = [last EXCEPT ![k] = i], Joined' = Joined
  PROVE  /\ ReadRows' = ReadRows \cup {<<k, i>>}
         /\ <<k, i>> \notin ReadRows /\ <<k, i>> \in Doc
         /\ last' \in [Kitab -> 0..MaxSection]
<1> USE SyncAssumption DEF Shape, ReadShape, Remaining, Joined, Section, Doc
<1>1. i \in 1..MaxSection /\ <<k, i>> \in Joined /\ i > last[k]
  OBVIOUS
<1>2. last' \in [Kitab -> 0..MaxSection]
  BY <1>1
<1>3. ASSUME NEW d \in Joined PROVE d[2] <= last'[d[1]] <=> d[2] <= last[d[1]] \/ d = <<k, i>>
  <2>1. d = <<d[1], d[2]>> /\ d[1] \in Kitab /\ d[2] \in 1..MaxSection
    OBVIOUS
  <2>2. CASE d[1] # k
    BY <2>1, <2>2
  <2>3. CASE d[1] = k
    <3>1. last'[d[1]] = i
      BY <2>3
    <3>2. CASE d[2] > last[k]
      <4>1. d[2] \in Remaining(k)
        BY <2>1, <2>3, <3>2
      <4>2. i <= d[2]
        BY <4>1
      <4> QED
        BY <1>1, <2>1, <2>3, <3>1, <3>2, <4>2
    <3>3. CASE d[2] <= last[k]
      BY <1>1, <2>1, <2>3, <3>1, <3>3
    <3> QED
      BY <2>1, <3>2, <3>3
  <2> QED
    BY <2>2, <2>3
<1>4. ReadRows' = ReadRows \cup {<<k, i>>}
  BY <1>1, <1>3 DEF ReadRows, Joined
<1> QED
  BY <1>1, <1>2, <1>4 DEF ReadRows, Joined

\* A run that ends without success promises nothing.
LEMMA ReadExit ==
  ASSUME pc' = "exited", outcome' # "success", ReadShape'
  PROVE  Read'
BY DEF Read, Listed, Carried, ReadToEnd, SuccessIsComplete, Early, Late, Streaming, Loading

\* Steps of the main goroutine that leave rows and documents alone.
LEMMA ReadPrepare ==
  ASSUME Inv, Read, Connect \/ CheckExists \/ DeleteIndex \/ CreateIndex \/ Optimize
  PROVE  Read'
<1>1. ReadShape'
  BY DEF Read, ReadShape, Connect, CheckExists, DeleteIndex, DropIndex, CreateIndex, MakeIndex,
         MayMakeIndex, Optimize, PutRefresh, service, pools, indexer
<1>2. CASE pc' = "exited"
  <2>1. outcome' # "success"
    BY <1>2 DEF Connect, CheckExists, DeleteIndex, CreateIndex, Optimize, PutRefresh, Exit
  <2> QED
    BY <1>1, <1>2, <2>1, ReadExit
<1>3. CASE pc' # "exited"
  <2>1. /\ pc \in Early /\ pc' \in Early /\ outcome' = outcome
        /\ UNCHANGED <<rows, titled, pools, indexer>>
        /\ pc' \in Loading => docs' = {} \/ (pc \in Loading /\ docs' = docs)
    BY <1>3 DEF Connect, CheckExists, DeleteIndex, DropIndex, CreateIndex, MakeIndex, Optimize,
                PutRefresh, Exit, service, Early, Late, Streaming, Loading
  <2>2. ReadRows = {} /\ ReadRows' = {}
    BY <2>1, NothingRead DEF Read, Listed, Inv, ReadRows, Joined, pools
  <2>3. Listed' /\ ReadToEnd' /\ SuccessIsComplete'
    BY <1>3, <2>1 DEF Read, Listed, ReadToEnd, SuccessIsComplete, Inv, Started,
                      Early, Late, Streaming, Loading, pools, indexer
  <2>4. Carried'
    BY <2>1, <2>2, FS_EmptySet DEF Read, Listed, Carried, pools, indexer
  <2> QED
    BY <1>1, <2>3, <2>4 DEF Read
<1> QED
  BY <1>2, <1>3

LEMMA ReadListIDs == ASSUME Inv, Read, ListIDs PROVE Read'
<1>1. ReadShape'
  BY DEF Read, ReadShape, ListIDs, service, indexer
<1>2. CASE pc' = "exited"
  BY <1>1, <1>2, ReadExit DEF ListIDs, Exit
<1>3. CASE pc' # "exited"
  <2>1. /\ pc = "listids" /\ pc' = "spawn" /\ outcome' = outcome
        /\ ids' = {d[1] : d \in rows} /\ jobs' = ids'
        /\ UNCHANGED <<rows, titled, docs, stream, last, errs, queued, closed>>
        /\ UNCHANGED <<countSuccessful, countFailed>>
    BY <1>3 DEF ListIDs, Exit, service, indexer
  <2>2. ReadRows' = ReadRows
    BY <2>1 DEF ReadRows, Joined
  <2>3. Carried'
    BY <2>1, <2>2 DEF Read, Carried, Loading, Streaming, Late
  <2>4. Listed' /\ ReadToEnd' /\ SuccessIsComplete'
    BY <2>1 DEF Read, Listed, ReadToEnd, SuccessIsComplete, Inv, Started, Early, Late
  <2> QED
    BY <1>1, <2>3, <2>4 DEF Read
<1> QED
  BY <1>2, <1>3

\* Steps that read and carry nothing, of goroutines or of the main goroutine.
LEMMA ReadIdle ==
  ASSUME Inv, Read,
         UNCHANGED <<rows, titled, docs, last, ids, queued>>,
         UNCHANGED <<countSuccessful, countFailed, outcome>>,
         pc \in Streaming, pc' \in Streaming,
         pc' \in {"drain"} \cup Late => jobs' = {},
         \A k \in ids : k \in jobs \/ stream[k] # "none" => k \in jobs' \/ stream'[k] # "none",
         pc' \in {"closing", "restore", "report"} => closed',
         pc' \in {"restore", "report"} => queued = {},
         errs' = 0 => errs = 0 /\ \A k \in Kitab :
                        stream'[k] \in {"releasing", "done"} =>
                          stream[k] \in {"releasing", "done"} \/ Remaining(k) = {}
  PROVE  Read'
<1>1. ReadRows' = ReadRows /\ \A k \in Kitab : Remaining(k)' = Remaining(k)
  BY DEF ReadRows, Joined, Remaining
<1>2. ReadShape' /\ Carried'
  BY <1>1 DEF Read, ReadShape, Carried, Loading
<1>3. Listed'
  BY DEF Read, Listed, Streaming, Early, Late
<1>4. ReadToEnd'
  BY <1>1 DEF Read, ReadToEnd, Streaming, Late
<1>5. SuccessIsComplete'
  BY DEF Read, Listed, SuccessIsComplete, Streaming, Late
<1> QED
  BY <1>2, <1>3, <1>4, <1>5 DEF Read

\* A goroutine that streams has been started, so the main goroutine waits for it.
LEMMA StreamsWhileStreaming ==
  ASSUME Inv, pc # "exited", NEW k \in Kitab, stream[k] # "none"
  PROVE  pc \in Streaming
BY DEF Inv, Shape, Started, MainPCs, Early, Streaming, Late

LEMMA ReadRow ==
  ASSUME Inv, Read, pc # "exited", NEW k \in Kitab, StreamRow(k)
  PROVE  Read'
<1>1. PICK i \in Remaining(k) :
        /\ \A j \in Remaining(k) : i <= j
        /\ last' = [last EXCEPT ![k] = i]
        /\ IF closed THEN Exit("panic") /\ UNCHANGED queued
           ELSE queued' = queued \cup {<<k, i>>} /\ UNCHANGED <<pc, outcome>>
  BY DEF StreamRow
<1>2. /\ stream[k] = "streaming"
      /\ UNCHANGED <<rows, titled, docs, jobs, ids, stream, errs, closed>>
      /\ UNCHANGED <<countSuccessful, countFailed>>
  BY DEF StreamRow, service
<1>3. /\ ReadRows' = ReadRows \cup {<<k, i>>}
      /\ <<k, i>> \notin ReadRows /\ <<k, i>> \in Doc
      /\ last' \in [Kitab -> 0..MaxSection]
  <2>1. Joined' = Joined
    BY <1>2 DEF Joined
  <2> QED
    BY <1>1, <2>1, RowRead DEF Inv, Read
<1>4. ReadShape'
  BY <1>1, <1>2, <1>3 DEF Read, ReadShape
<1>5. CASE closed
  BY <1>1, <1>4, <1>5, ReadExit DEF Exit
<1>6. CASE ~closed
  <2>1. queued' = queued \cup {<<k, i>>} /\ UNCHANGED <<pc, outcome>>
    BY <1>1, <1>6
  <2>2. pc \in {"spawn", "drain", "close"}
    BY <1>2, <1>6, StreamsWhileStreaming DEF Read, Listed, Streaming, Late
  <2>3. Carried'
    <3>1. queued \subseteq ReadRows /\ ReadRows \subseteq Doc
      BY <2>2 DEF Read, Carried, Loading, Streaming, Late, Inv, Shape, ReadRows, Joined
    <3>2. /\ Cardinality(queued') = Cardinality(queued) + 1
          /\ Cardinality(ReadRows') = Cardinality(ReadRows) + 1
          /\ Cardinality(queued) \in Nat /\ Cardinality(ReadRows) \in Nat
      BY <1>3, <2>1, <3>1, FiniteDocs, FS_AddElement DEF Read, ReadShape
    <3> QED
      BY <1>2, <1>3, <2>1, <2>2, <3>1, <3>2
         DEF Read, ReadShape, Carried, Loading, Streaming, Late
  <2>4. Listed'
    BY <1>2, <2>1, <2>2 DEF Read, Listed, Streaming, Early, Late
  <2>5. ReadToEnd'
    <3>1. \A m \in Kitab : m # k => Remaining(m)' = Remaining(m)
      BY <1>1, <1>2 DEF Read, ReadShape, Remaining, Joined
    <3> QED
      BY <1>2, <2>1, <3>1 DEF Read, ReadToEnd
  <2>6. SuccessIsComplete'
    BY <2>1, <2>2 DEF Read, Listed, SuccessIsComplete
  <2> QED
    BY <1>4, <2>3, <2>4, <2>5, <2>6 DEF Read
<1> QED
  BY <1>5, <1>6

LEMMA ReadFlush ==
  ASSUME Inv, Read, pc # "exited", NEW d \in Doc, Flush(d)
  PROVE  Read'
<1>1. /\ d \in queued /\ queued' = queued \ {d}
      /\ docs \subseteq docs' /\ docs' \subseteq docs \cup {d}
      /\ \/ docs' = docs \cup {d} /\ countSuccessful' = countSuccessful + 1
                                  /\ countFailed' = countFailed
         \/ countFailed' = countFailed + 1 /\ countSuccessful' = countSuccessful
      /\ UNCHANGED <<rows, titled, pc, jobs, ids, stream, last, errs, closed, outcome>>
  BY DEF Flush, FlushOk, FlushFail, pools
<1>2. ReadShape'
  BY <1>1 DEF Read, ReadShape
<1>3. ReadRows' = ReadRows /\ \A k \in Kitab : Remaining(k)' = Remaining(k)
  BY <1>1 DEF ReadRows, Joined, Remaining
<1>4. Carried'
  <2> SUFFICES ASSUME pc \in Loading PROVE Carried'
    BY <1>1 DEF Carried
  <2>1. Cardinality(queued') = Cardinality(queued) - 1 /\ Cardinality(queued) \in Nat
    BY <1>1, FiniteDocs, FS_RemoveElement DEF Read, ReadShape
  <2> QED
    BY <1>1, <1>3, <2>1 DEF Read, ReadShape, Carried
<1>5. Listed' /\ ReadToEnd' /\ SuccessIsComplete'
  <2>1. pc \notin Early
    BY <1>1 DEF Read, Listed
  <2> QED
    BY <1>1, <1>3, <2>1 DEF Read, Listed, ReadToEnd, SuccessIsComplete
<1> QED
  BY <1>2, <1>4, <1>5 DEF Read

\* The report sees every stream ended and the indexer empty.
LEMMA ReadReport == ASSUME Inv, Read, Report PROVE Read'
<1>1. /\ pc = "report" /\ pc' = "exited"
      /\ outcome' = IF countFailed > 0 THEN "warning" ELSE "success"
      /\ UNCHANGED <<rows, titled, docs, last, stream, errs, queued, countSuccessful, countFailed>>
  BY DEF Report, Exit, service, pools, indexer
<1>2. ReadShape'
  BY <1>1 DEF Read, ReadShape
<1>3. CASE countFailed = 0
  <2>1. ReadRows' = ReadRows /\ docs = ReadRows
    BY <1>1, <1>3 DEF Read, Listed, Carried, Loading, Streaming, Late, ReadRows, Joined
  <2>2. Cardinality(Holders) = 0 /\ IsFiniteSet(Holders)
    BY <1>1, FiniteSets, SyncAssumption DEF Inv, Shape, Tokens, Late
  <2>3. Holders = {}
    BY <2>2, FS_EmptySet
  <2>4. ASSUME errs = 0, NEW d \in Joined PROVE d \in ReadRows
    <3>1. d = <<d[1], d[2]>> /\ d[1] \in Kitab /\ d[2] \in Section /\ d \in rows
      BY DEF Inv, Shape, Doc, Joined
    <3>2. d[1] \in ids /\ stream[d[1]] # "none"
      BY <1>1, <3>1 DEF Read, Listed, Streaming, Late
    <3>3. stream[d[1]] = "done"
      BY <2>3, <3>1, <3>2 DEF Holders, HoldsToken, Inv, Shape, StreamStates
    <3>4. Remaining(d[1]) = {}
      BY <1>1, <2>4, <3>1, <3>3 DEF Read, ReadToEnd
    <3>5. ~(d[2] > last[d[1]])
      BY <3>1, <3>4 DEF Remaining, Joined
    <3>6. d[2] \in Nat /\ last[d[1]] \in Nat
      BY <3>1, SyncAssumption DEF Section, Read, ReadShape
    <3> QED
      BY <3>5, <3>6 DEF ReadRows, Joined
  <2>5. SuccessIsComplete'
    BY <1>1, <2>1, <2>4 DEF SuccessIsComplete, ReadRows, Joined
  <2> QED
    BY <1>1, <1>2, <2>5
       DEF Read, Listed, Carried, ReadToEnd, Early, Streaming, Late, Loading
<1>4. CASE countFailed # 0
  BY <1>1, <1>2, <1>4, ReadExit DEF Read, ReadShape
<1> QED
  BY <1>3, <1>4

LEMMA ReadFinish ==
  ASSUME Inv, Read, SpawnDone \/ Drain \/ CloseIndexer \/ CloseDone \/ Restore
  PROVE  Read'
<1>1. UNCHANGED <<rows, titled, docs, last, ids, stream, errs, jobs, queued>>
      /\ UNCHANGED <<countSuccessful, countFailed>>
  BY DEF SpawnDone, Drain, CloseIndexer, CloseDone, Restore, PutRefresh, service, pools, indexer
<1>2. CASE pc' = "exited"
  <2>1. ReadShape'
    BY <1>1 DEF Read, ReadShape
  <2> QED
    BY <1>2, <2>1, ReadExit
       DEF SpawnDone, Drain, CloseIndexer, CloseDone, Restore, PutRefresh, Exit
<1>3. CASE pc' # "exited"
  <2>1. /\ pc \in Streaming /\ pc' \in Streaming /\ outcome' = outcome
        /\ pc' \in {"drain"} \cup Late => jobs = {}
    BY <1>3 DEF Read, Listed, SpawnDone, Drain, CloseIndexer, CloseDone, Restore, PutRefresh,
                Exit, Streaming, Late
  <2>2. /\ pc' \in {"closing", "restore", "report"} => closed'
        /\ pc' \in {"restore", "report"} => queued = {}
    BY <1>3 DEF Read, Listed, SpawnDone, Drain, CloseIndexer, CloseDone, Restore, PutRefresh,
                Exit, indexer
  <2> QED
    BY <1>1, <2>1, <2>2, ReadIdle
<1> QED
  BY <1>2, <1>3

\* The steps of a goroutine that read nothing.
LEMMA ReadStream ==
  ASSUME Inv, Read, pc # "exited", NEW k \in Kitab,
         Spawn(k) \/ StreamEnd(k) \/ StreamFail(k) \/ ReportError(k) \/ Release(k)
  PROVE  Read'
<1>1. /\ UNCHANGED <<rows, titled, docs, last, ids, queued, pc, closed>>
      /\ UNCHANGED <<countSuccessful, countFailed, outcome>>
  BY DEF Spawn, StreamEnd, StreamFail, ReportError, Release, service, indexer
<1>2. pc \in Streaming
  BY StreamsWhileStreaming
     DEF Spawn, StreamEnd, StreamFail, ReportError, Release, Streaming
<1>3. jobs' \subseteq jobs
      /\ \A m \in ids : m \in jobs \/ stream[m] # "none" => m \in jobs' \/ stream'[m] # "none"
  BY DEF Spawn, StreamEnd, StreamFail, ReportError, Release, Inv, Shape
<1>4. errs' = 0 => errs = 0 /\ \A m \in Kitab :
                     stream'[m] \in {"releasing", "done"} =>
                       stream[m] \in {"releasing", "done"} \/ Remaining(m) = {}
  BY DEF Spawn, StreamEnd, StreamFail, ReportError, Release, Inv, Shape
<1> QED
  BY <1>1, <1>2, <1>3, <1>4, ReadIdle DEF Read, Listed

LEMMA ReadRerun == ASSUME Read, Rerun PROVE Read'
BY SyncAssumption
   DEF Read, ReadShape, Listed, Carried, ReadToEnd, SuccessIsComplete, Rerun,
       Early, Streaming, Late, Loading

LEMMA ReadStep == Inv /\ Read /\ [Next]_vars => Read'
<1> SUFFICES ASSUME Inv, Read, [Next]_vars PROVE Read'
  OBVIOUS
<1>1. CASE Run
  BY <1>1, ReadPrepare, ReadListIDs, ReadStream, ReadRow, ReadFlush, ReadFinish, ReadReport
     DEF Run, Prepare, Finish, Stream
<1>2. CASE Kill
  BY <1>2, ReadExit DEF Kill, Exit, service, pools, indexer, Read, ReadShape
<1>3. CASE Rerun
  BY <1>3, ReadRerun
<1>4. CASE Refresh \/ UNCHANGED vars
  <2>1. UNCHANGED <<rows, titled, docs, pc, pools, indexer, outcome>>
    BY <1>4 DEF Refresh, vars, service
  <2>2. /\ Joined' = Joined /\ ReadRows' = ReadRows
        /\ \A k \in Kitab : Remaining(k)' = Remaining(k)
    BY <2>1 DEF ReadRows, Joined, Remaining, pools
  <2> QED
    BY <2>1, <2>2
       DEF Read, ReadShape, Listed, Carried, ReadToEnd, SuccessIsComplete, pools, indexer
<1> QED
  BY <1>1, <1>2, <1>3, <1>4 DEF Next, Stopped

LEMMA ReadCorrect == Spec => [](Inv /\ Read)
<1>1. Init => Read
  <2> SUFFICES ASSUME Init PROVE Read
    OBVIOUS
  <2>1. ReadShape /\ Listed /\ ReadToEnd /\ SuccessIsComplete
    BY SyncAssumption DEF Init, ReadShape, Listed, ReadToEnd, SuccessIsComplete, Doc,
                          Early, Streaming, Late
  <2>2. Carried
    BY DEF Init, Carried, Loading, Streaming, Late
  <2> QED
    BY <2>1, <2>2 DEF Read
<1> QED
  BY <1>1, ReadStep, InvInit, InvStep, PTL DEF Spec

\* What a run leaves in the index when it reports success is what it has read,
\* and every row that has a kitab if no stream failed, however the runs before it ended.
THEOREM SuccessHoldsRows == Spec => []SuccessIsComplete
BY ReadCorrect, PTL DEF Read

\* The two counters of the report add up to the items that were added.
THEOREM NothingUncounted == Spec => []AllCounted
<1>1. Inv /\ Read => AllCounted
  <2> SUFFICES ASSUME Inv, Read, pc = "report"
               PROVE  countSuccessful + countFailed = Cardinality(ReadRows)
    BY DEF AllCounted
  <2>1. Cardinality(queued) = 0
    BY FS_EmptySet DEF Read, Listed
  <2> QED
    BY <2>1 DEF Read, ReadShape, Carried, Loading, Streaming, Late
<1> QED
  BY <1>1, ReadCorrect, PTL

\* The rest of the variables, which no other invariant needs.
Rest ==
  /\ exists \in BOOLEAN /\ refused \in BOOLEAN /\ closed \in BOOLEAN
  /\ refresh \in {"1s", "-1"}
  /\ searchable \subseteq Doc /\ titled \subseteq Kitab
  /\ runs \in Nat /\ outcome \in Outcomes

LEMMA RestStep == Inv /\ Read /\ Rest /\ [Next]_vars => Rest'
<1> SUFFICES ASSUME Inv, Read, Rest, [Next]_vars PROVE Rest'
  OBVIOUS
<1>1. /\ exists' = exists \/ exists' = TRUE \/ exists' = FALSE
      /\ refused' = refused \/ refused' = TRUE \/ refused' = FALSE
      /\ closed' = closed \/ closed' = TRUE \/ closed' = FALSE
  BY DEF Next, Run, Prepare, Finish, Stream, Flush, Connect, CheckExists, DeleteIndex,
         DropIndex, CreateIndex, MakeIndex, MayMakeIndex, Optimize, PutRefresh, ListIDs, Spawn,
         StreamRow, StreamEnd, StreamFail, ReportError, Release, SpawnDone, Drain,
         CloseIndexer, CloseDone, FlushOk, FlushFail, Restore, Report, Kill, Refresh, Rerun,
         Stopped, vars, service, indexer
<1>2. /\ refresh' \in {"1s", "-1"} /\ searchable' \subseteq Doc /\ titled' \subseteq Kitab
      /\ runs' \in Nat /\ outcome' \in Outcomes
  BY SyncAssumption
     DEF Rest, Read, ReadShape, Next, Run, Prepare, Finish, Stream, Flush, Connect, CheckExists,
         DeleteIndex, DropIndex, CreateIndex, MakeIndex, MayMakeIndex, Optimize, PutRefresh,
         ListIDs, Spawn, StreamRow, StreamEnd, StreamFail, ReportError, Release, SpawnDone,
         Drain, CloseIndexer, CloseDone, FlushOk, FlushFail, Restore, Report, Kill, Refresh,
         Rerun, Stopped, Exit, Outcomes, vars, service, indexer
<1>3. exists' \in BOOLEAN /\ refused' \in BOOLEAN /\ closed' \in BOOLEAN
  BY <1>1, Zenon DEF Rest
<1> QED
  BY <1>2, <1>3 DEF Rest

\* Every variable keeps its type, and tokens never exceed the workers.
THEOREM TypeCorrect == Spec => []TypeOK
<1>1. Init => Rest
  <2> SUFFICES ASSUME Init PROVE Rest
    OBVIOUS
  <2>1. exists \in BOOLEAN /\ refused \in BOOLEAN /\ closed \in BOOLEAN
    BY Zenon DEF Init
  <2>2. docs \subseteq Doc
    BY DEF Init, Doc
  <2> QED
    BY <2>1, <2>2, SyncAssumption DEF Init, Rest, Outcomes
<1>2. ASSUME Inv, Read, Rest PROVE TypeOK
  <2>1. sem \in 0..Workers /\ taken \in 0..Workers
    BY <1>2, FiniteSets, SyncAssumption DEF Inv, Shape, Tokens
  <2> QED
    BY <1>2, <2>1 DEF Inv, Shape, Read, ReadShape, Rest, TypeOK
<1> QED
  BY <1>1, <1>2, RestStep, ReadCorrect, PTL DEF Spec
===============================================================================
