----------------------------- MODULE SyncPipeline -----------------------------
(***************************************************************************)
(* cmd/sync: rebuild the Elasticsearch index from PostgreSQL.              *)
(*                                                                         *)
(* The main goroutine drops and creates the index, switches refresh off,   *)
(* starts one streaming goroutine per kitab with at most Workers of them   *)
(* at a time, waits for them by taking every token of the semaphore,       *)
(* closes the bulk indexer and switches refresh back on.  A document is    *)
(* <<kitab, section>>; its DocumentID is a function of that pair, so       *)
(* indexing it twice is indexing it once.                                  *)
(*                                                                         *)
(* Chunks are one level down, in KeysetStream: here a stream yields the    *)
(* rows of a kitab in ascending order and may fail between any two.        *)
(***************************************************************************)
EXTENDS Naturals, FiniteSets

CONSTANTS
  Kitab,        \* the kitab ids
  MaxSection,   \* bound: sections are 1..MaxSection
  Workers,      \* cfg.SyncWorkers
  QueueCap,     \* bound: items the bulk indexer holds before Add blocks
  MaxRuns,      \* bound: how often the command is started
  Titles,       \* bound: the sets of kitab that may have a row in daftar_kitab
  Faults        \* what may go wrong, a subset of FaultKinds

\* "net":  a request to Elasticsearch ends without a response
\* "http": Elasticsearch answers a request with an error status
\* "bulk": an item of a bulk request is reported failed
\* "pg":   a query or a row of PostgreSQL ends with an error
\* "kill": the process is killed
FaultKinds == {"net", "http", "bulk", "pg", "kill"}

Section == 1..MaxSection
Doc     == Kitab \X Section

ASSUME SyncAssumption ==
  /\ IsFiniteSet(Kitab)
  /\ MaxSection \in Nat
  /\ Workers \in Nat
  /\ QueueCap \in Nat \ {0}
  /\ MaxRuns \in Nat
  /\ Titles \subseteq SUBSET Kitab
  /\ Faults \subseteq FaultKinds

VARIABLES
  \* PostgreSQL and Elasticsearch
  rows,       \* the rows of konten_kitab
  titled,     \* the kitab that have a row in daftar_kitab
  exists,     \* whether the index exists
  docs,       \* the documents of the index
  refresh,    \* the index setting: "1s" or "-1"
  searchable, \* the documents that a search sees
  refused,    \* history: the last change of settings was refused
  \* the command
  runs,       \* history: how often the command was started
  pc,         \* where the main goroutine is
  jobs,       \* the kitab ids that are in the channel jobs
  ids,        \* the kitab ids that were listed
  stream,     \* the state of each kitab's goroutine
  last,       \* the last section id each stream has read
  sem,        \* the number of tokens in the channel sem
  taken,      \* the tokens the main goroutine has taken at the end
  errs,       \* the number of errors in errChan
  queued,     \* the items the bulk indexer holds
  closed,     \* whether bi.Close has closed the indexer's queue
  countSuccessful, countFailed,
  outcome     \* how the last run ended

service == <<rows, titled, exists, docs, refresh, searchable, refused>>
pools   == <<jobs, ids, stream, last, sem, taken, errs>>
indexer == <<queued, closed, countSuccessful, countFailed>>
vars    == <<service, runs, pc, pools, indexer, outcome>>

MainPCs == {"connect", "exists", "delete", "create", "optimize", "listids", "spawn",
            "drain", "close", "closing", "restore", "report", "exited"}

Outcomes == {"none", "success", "warning", "error", "panic", "killed"}

StreamStates == {"none", "streaming", "failing", "releasing", "done"}

\* A goroutine that has been started and still owns its token.
HoldsToken(k) == stream[k] \in {"streaming", "failing", "releasing"}

\* Nothing is known of the index the first run finds.
Init ==
  /\ rows \in SUBSET Doc /\ titled \in Titles
  /\ exists \in BOOLEAN
  /\ docs \in IF exists THEN {{}, Doc} ELSE {{}}
  /\ refresh = "1s" /\ refused = FALSE
  /\ searchable = docs
  /\ runs = 1
  /\ pc = "connect"
  /\ jobs = {} /\ ids = {}
  /\ stream = [k \in Kitab |-> "none"] /\ last = [k \in Kitab |-> 0]
  /\ sem = 0 /\ taken = 0 /\ errs = 0
  /\ queued = {} /\ closed = FALSE
  /\ countSuccessful = 0 /\ countFailed = 0
  /\ outcome = "none"

Exit(how) == pc' = "exited" /\ outcome' = how

-------------------------------------------------------------------------------
(* Preparing the index.                                                      *)

\* The pool, its Ping, and es.Info, whose status is not looked at.
Connect ==
  /\ pc = "connect"
  /\ \/ pc' = "exists" /\ UNCHANGED outcome
     \/ {"pg", "net"} \cap Faults # {} /\ Exit("error")
  /\ UNCHANGED <<service, runs, pools, indexer>>

\* es.Indices.Exists: an error ends the run, any status but 200 means no.
CheckExists ==
  /\ pc = "exists"
  /\ \/ /\ pc' = IF exists THEN "delete" ELSE "create"
        /\ UNCHANGED outcome
     \/ "http" \in Faults /\ pc' = "create" /\ UNCHANGED outcome
     \/ "net" \in Faults /\ Exit("error")
  /\ UNCHANGED <<service, runs, pools, indexer>>

DropIndex ==
  /\ exists' = FALSE /\ docs' = {} /\ searchable' = {}
  /\ UNCHANGED <<rows, titled, refresh, refused>>

\* res, _ := es.Indices.Delete(...): the status is not looked at, and without
\* a response res is nil, so closing its body panics, whether or not
\* Elasticsearch has done what it was asked.
DeleteIndex ==
  /\ pc = "delete"
  /\ \/ DropIndex /\ pc' = "create" /\ UNCHANGED outcome
     \/ "http" \in Faults /\ pc' = "create" /\ UNCHANGED <<service, outcome>>
     \/ "net" \in Faults /\ (DropIndex \/ UNCHANGED service) /\ Exit("panic")
  /\ UNCHANGED <<runs, pools, indexer>>

MakeIndex ==
  /\ exists' = TRUE /\ docs' = {} /\ searchable' = {} /\ refresh' = "1s"
  /\ UNCHANGED <<rows, titled, refused>>

\* A lost response leaves open whether the request was carried out.
MayMakeIndex == (~exists /\ MakeIndex) \/ UNCHANGED service

\* Mutant of CreateIndex: an index that exists is taken as it is.
CreateIndexIfMissing ==
  /\ pc = "create"
  /\ \/ ~exists /\ MakeIndex /\ pc' = "optimize" /\ UNCHANGED outcome
     \/ exists /\ pc' = "optimize" /\ UNCHANGED <<service, outcome>>
     \/ "net" \in Faults /\ MayMakeIndex /\ Exit("error")
  /\ UNCHANGED <<runs, pools, indexer>>

CreateIndex ==
  /\ pc = "create"
  /\ \/ ~exists /\ MakeIndex /\ pc' = "optimize" /\ UNCHANGED outcome
     \/ (exists \/ "http" \in Faults) /\ Exit("error") /\ UNCHANGED service
     \/ "net" \in Faults /\ MayMakeIndex /\ Exit("error")
  /\ UNCHANGED <<runs, pools, indexer>>

\* PutSettings: the status is not looked at.
PutRefresh(value, next) ==
  \/ /\ refresh' = value /\ refused' = FALSE /\ pc' = next
     /\ UNCHANGED <<rows, titled, exists, docs, searchable, outcome>>
  \/ /\ "http" \in Faults /\ refused' = TRUE /\ pc' = next
     /\ UNCHANGED <<rows, titled, exists, docs, refresh, searchable, outcome>>
  \/ /\ "net" \in Faults /\ refresh' \in {value, refresh} /\ Exit("error")
     /\ UNCHANGED <<rows, titled, exists, docs, searchable, refused>>

Optimize ==
  /\ pc = "optimize"
  /\ PutRefresh("-1", "listids")
  /\ UNCHANGED <<runs, pools, indexer>>

\* ListKitabIDs, and the channels that are made for its result.
ListIDs ==
  /\ pc = "listids"
  /\ \/ /\ ids' = {d[1] : d \in rows} /\ jobs' = ids'
        /\ pc' = "spawn" /\ UNCHANGED outcome
     \/ "pg" \in Faults /\ Exit("error") /\ UNCHANGED <<ids, jobs>>
  /\ UNCHANGED <<service, runs, stream, last, sem, taken, errs, indexer>>

-------------------------------------------------------------------------------
(* The streams.                                                              *)

\* Mutant of Spawn: the goroutine is started without a token of its own.
SpawnUnbounded(k) ==
  /\ pc = "spawn"
  /\ k \in jobs
  /\ jobs' = jobs \ {k}
  /\ sem' = IF sem < Workers THEN sem + 1 ELSE sem
  /\ stream' = [stream EXCEPT ![k] = "streaming"]
  /\ UNCHANGED <<service, runs, pc, ids, last, taken, errs, indexer, outcome>>

\* The next job, once the channel sem has room for a token.
Spawn(k) ==
  /\ pc = "spawn"
  /\ k \in jobs
  /\ sem < Workers
  /\ jobs' = jobs \ {k}
  /\ sem' = sem + 1
  /\ stream' = [stream EXCEPT ![k] = "streaming"]
  /\ UNCHANGED <<service, runs, pc, ids, last, taken, errs, indexer, outcome>>

SpawnDone ==
  /\ pc = "spawn"
  /\ jobs = {}
  /\ pc' = "drain"
  /\ UNCHANGED <<service, runs, pools, indexer, outcome>>

\* The query of a chunk joins daftar_kitab, the one that lists the ids does not.
Joined == {d \in rows : d[1] \in titled}

Remaining(k) == {i \in Section : i > last[k] /\ <<k, i>> \in Joined}

\* The next row of a kitab is read and given to bi.Add, which blocks while
\* the indexer has no room and panics when its queue is closed.
StreamRow(k) ==
  /\ stream[k] = "streaming"
  /\ \E i \in Remaining(k) :
       /\ \A j \in Remaining(k) : i <= j
       /\ last' = [last EXCEPT ![k] = i]
       /\ IF closed
          THEN Exit("panic") /\ UNCHANGED queued
          ELSE /\ Cardinality(queued) < QueueCap
               /\ queued' = queued \cup {<<k, i>>}
               /\ UNCHANGED <<pc, outcome>>
  /\ UNCHANGED <<service, runs, jobs, ids, stream, sem, taken, errs, closed,
                 countSuccessful, countFailed>>

StreamEnd(k) ==
  /\ stream[k] = "streaming"
  /\ Remaining(k) = {}
  /\ stream' = [stream EXCEPT ![k] = "releasing"]
  /\ UNCHANGED <<service, runs, pc, jobs, ids, last, sem, taken, errs, indexer, outcome>>

\* A chunk's query or a row fails: the rest of the kitab is not read.
StreamFail(k) ==
  /\ "pg" \in Faults
  /\ stream[k] = "streaming"
  /\ stream' = [stream EXCEPT ![k] = "failing"]
  /\ UNCHANGED <<service, runs, pc, jobs, ids, last, sem, taken, errs, indexer, outcome>>

\* Mutant of ErrChanCap: one slot per worker.
ErrChanPerWorker == Workers

ErrChanCap == Cardinality(ids)

\* Mutant of ReportError: the error path gives the token back as well.
ReportErrorReleases(k) ==
  /\ stream[k] = "failing"
  /\ errs < ErrChanCap
  /\ errs' = errs + 1
  /\ sem' = sem - 1
  /\ stream' = [stream EXCEPT ![k] = "releasing"]
  /\ UNCHANGED <<service, runs, pc, jobs, ids, last, taken, indexer, outcome>>

\* errChan <- err: nobody ever receives from errChan.
ReportError(k) ==
  /\ stream[k] = "failing"
  /\ errs < ErrChanCap
  /\ errs' = errs + 1
  /\ stream' = [stream EXCEPT ![k] = "releasing"]
  /\ UNCHANGED <<service, runs, pc, jobs, ids, last, sem, taken, indexer, outcome>>

\* The deferred <-sem.
Release(k) ==
  /\ stream[k] = "releasing"
  /\ sem' = sem - 1
  /\ stream' = [stream EXCEPT ![k] = "done"]
  /\ UNCHANGED <<service, runs, pc, jobs, ids, last, taken, errs, indexer, outcome>>

-------------------------------------------------------------------------------
(* The end of a run.                                                         *)

\* Mutant of Drain: one token too few is taken.
DrainShort ==
  /\ pc = "drain"
  /\ \/ /\ taken + 1 < Workers /\ sem < Workers
        /\ taken' = taken + 1 /\ sem' = sem + 1
        /\ UNCHANGED pc
     \/ taken + 1 = Workers /\ pc' = "close" /\ UNCHANGED <<taken, sem>>
  /\ UNCHANGED <<service, runs, jobs, ids, stream, last, errs, indexer, outcome>>

\* The main goroutine fills the semaphore itself: when it has every token no
\* stream has one.
Drain ==
  /\ pc = "drain"
  /\ \/ /\ taken < Workers /\ sem < Workers
        /\ taken' = taken + 1 /\ sem' = sem + 1
        /\ UNCHANGED pc
     \/ taken = Workers /\ pc' = "close" /\ UNCHANGED <<taken, sem>>
  /\ UNCHANGED <<service, runs, jobs, ids, stream, last, errs, indexer, outcome>>

\* bi.Close: no more items, then wait until the indexer is empty; it may give up
\* with an error, which ends the run.
CloseIndexer ==
  /\ pc = "close"
  /\ closed' = TRUE
  /\ pc' = "closing"
  /\ UNCHANGED <<service, runs, pools, queued, countSuccessful, countFailed, outcome>>

CloseDone ==
  /\ pc = "closing"
  /\ \/ queued = {} /\ pc' = "restore" /\ UNCHANGED outcome
     \/ "net" \in Faults /\ Exit("error")
  /\ UNCHANGED <<service, runs, pools, indexer>>

\* A worker of the bulk indexer has an item indexed: OnSuccess.
FlushOk(d) ==
  /\ d \in queued
  /\ queued' = queued \ {d}
  /\ docs' = docs \cup {d}
  /\ countSuccessful' = countSuccessful + 1
  /\ UNCHANGED <<rows, titled, exists, refresh, searchable, refused, runs, pc, pools,
                 closed, countFailed, outcome>>

\* Mutant of FlushFail: OnFailure does not count.
FlushFailUncounted(d) ==
  /\ "bulk" \in Faults
  /\ d \in queued
  /\ queued' = queued \ {d}
  /\ docs' \in {docs, docs \cup {d}}
  /\ UNCHANGED countFailed
  /\ UNCHANGED <<rows, titled, exists, refresh, searchable, refused, runs, pc, pools,
                 closed, countSuccessful, outcome>>

\* An item is reported failed, OnFailure: it may have been indexed all the same.
FlushFail(d) ==
  /\ "bulk" \in Faults
  /\ d \in queued
  /\ queued' = queued \ {d}
  /\ docs' \in {docs, docs \cup {d}}
  /\ countFailed' = countFailed + 1
  /\ UNCHANGED <<rows, titled, exists, refresh, searchable, refused, runs, pc, pools,
                 closed, countSuccessful, outcome>>

\* Mutant of Restore: the settings of the load are put again.
RestoreOff ==
  /\ pc = "restore"
  /\ PutRefresh("-1", "report")
  /\ UNCHANGED <<runs, pools, indexer>>

Restore ==
  /\ pc = "restore"
  /\ PutRefresh("1s", "report")
  /\ UNCHANGED <<runs, pools, indexer>>

\* The log line that ends the run: errChan is not read.
Report ==
  /\ pc = "report"
  /\ Exit(IF countFailed > 0 THEN "warning" ELSE "success")
  /\ UNCHANGED <<service, runs, pools, indexer>>

-------------------------------------------------------------------------------
(* The environment.                                                          *)

\* While refresh is on, Elasticsearch makes what has been indexed visible.
Refresh ==
  /\ exists /\ refresh = "1s"
  /\ searchable # docs
  /\ searchable' = docs
  /\ UNCHANGED <<rows, titled, exists, docs, refresh, refused, runs, pc, pools, indexer, outcome>>

Kill ==
  /\ "kill" \in Faults
  /\ pc # "exited"
  /\ Exit("killed")
  /\ UNCHANGED <<service, runs, pools, indexer>>

\* Between two runs the rows change; the index keeps what the last run left.
Rerun ==
  /\ pc = "exited"
  /\ runs < MaxRuns
  /\ runs' = runs + 1
  /\ pc' = "connect"
  /\ outcome' = "none"
  /\ rows' \in SUBSET Doc /\ titled' \in Titles
  /\ jobs' = {} /\ ids' = {}
  /\ stream' = [k \in Kitab |-> "none"] /\ last' = [k \in Kitab |-> 0]
  /\ sem' = 0 /\ taken' = 0 /\ errs' = 0
  /\ queued' = {} /\ closed' = FALSE
  /\ countSuccessful' = 0 /\ countFailed' = 0
  /\ UNCHANGED <<exists, docs, refresh, searchable, refused>>

-------------------------------------------------------------------------------
Prepare ==
  Connect \/ CheckExists \/ DeleteIndex \/ CreateIndex \/ Optimize \/ ListIDs
Finish  == SpawnDone \/ Drain \/ CloseIndexer \/ CloseDone \/ Restore \/ Report

Stream(k) == StreamRow(k) \/ StreamEnd(k) \/ StreamFail(k) \/ ReportError(k) \/ Release(k)
Flush(d)  == FlushOk(d) \/ FlushFail(d)

\* The goroutines of the command end with it.
Run ==
  /\ pc # "exited"
  /\ \/ Prepare \/ Finish
     \/ \E k \in Kitab : Spawn(k) \/ Stream(k)
     \/ \E d \in Doc : Flush(d)

\* After the last run nothing more happens.
Stopped == pc = "exited" /\ runs = MaxRuns /\ UNCHANGED vars

Next == Run \/ Kill \/ Rerun \/ Refresh \/ Stopped

Spec == Init /\ [][Next]_vars

\* The command's goroutines are scheduled, the services answer, and
\* Elasticsearch refreshes an index whose setting says so.
FairSpec == Spec /\ WF_vars(Run) /\ WF_vars(Refresh)

-------------------------------------------------------------------------------
(* Properties.                                                               *)

\* Type correctness of the variables.
TypeOK ==
  /\ rows \subseteq Doc /\ titled \subseteq Kitab /\ docs \subseteq Doc
  /\ exists \in BOOLEAN /\ refresh \in {"1s", "-1"}
  /\ searchable \subseteq Doc /\ refused \in BOOLEAN
  /\ runs \in Nat
  /\ pc \in MainPCs /\ outcome \in Outcomes
  /\ jobs \subseteq Kitab /\ ids \subseteq Kitab
  /\ stream \in [Kitab -> StreamStates]
  /\ last \in [Kitab -> 0..MaxSection]
  /\ sem \in 0..Workers /\ taken \in 0..Workers
  /\ errs \in Nat
  /\ queued \subseteq Doc /\ closed \in BOOLEAN
  /\ countSuccessful \in Nat /\ countFailed \in Nat

\* At most SyncWorkers goroutines stream at a time, so the pool of
\* SyncWorkers + 2 connections has one for each of them.
StreamsBounded == Cardinality({k \in Kitab : HoldsToken(k)}) <= Workers

\* The main goroutine closes the bulk indexer only when no goroutine can
\* still call bi.Add on it, although it waits for none of them by name: it
\* only takes the tokens they give back.
NoAddAfterClose == closed => \A k \in Kitab : ~HoldsToken(k)

\* A failed stream can always leave its error in errChan, which nobody
\* empties: otherwise it would keep its token and the run would never end.
ErrChanNeverFull == \A k \in Kitab : stream[k] = "failing" => errs < ErrChanCap

ReadRows == {d \in Joined : d[2] <= last[d[1]]}

\* When the run reports, every item that was added has been counted once, as
\* indexed or as failed, although the counting is done by other goroutines.
AllCounted ==
  pc = "report" => countSuccessful + countFailed = Cardinality(ReadRows)

\* A run that ends in success leaves exactly the rows it has read in the
\* index, and all rows that have a kitab if no stream failed: nothing of an earlier,
\* broken or killed run is left, whatever Elasticsearch answered to the delete.
SuccessIsComplete ==
  outcome = "success" => docs = ReadRows /\ (errs = 0 => docs = Joined)

\* Searches go on while the command runs: an index that is loaded with refresh
\* off shows them nothing, neither a part of the new rows nor any of the old,
\* and stays so if the run is killed.
LoadIsHidden == refresh = "-1" => searchable = {}

\* After a run that reports success, with no stream failed and its last settings
\* accepted, searches come to see exactly the rows that have a kitab, however the
\* runs before it ended.  The code does not look at the status of the settings.
SuccessBecomesSearchable ==
  outcome = "success" /\ errs = 0 /\ ~refused ~> searchable = Joined \/ outcome # "success"

\* Every run ends, if there is at least one worker, whatever the services
\* answer: nobody waits for a token, or for room in errChan, that never comes.
SyncTerminates == pc # "exited" ~> pc = "exited"

\* main.go:287, "Synchronization completed successfully!": the index holds
\* every row that has a kitab.
SuccessMeansIndexed == outcome = "success" => docs = Joined
===============================================================================
