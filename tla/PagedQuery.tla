------------------------------ MODULE PagedQuery ------------------------------
(***************************************************************************)
(* The PostgreSQL reads of internal/repository/postgres.go.  ListKitab,    *)
(* GetKontenByKitabID and SearchKonten run two queries at a time, the rows *)
(* of a page and the total count, as the two goroutines of an errgroup     *)
(* whose context the first error cancels; GetKitabByID and ListKategori    *)
(* run one query.  All take their connections from one pool of MaxConns    *)
(* (cmd/api/main.go:60).                                                   *)
(*                                                                         *)
(* A request makes one call.  A query is answered from the state of the    *)
(* table when it runs; rows and total are known by that version.           *)
(***************************************************************************)
EXTENDS Naturals, FiniteSets

CONSTANTS
  Requests,     \* goroutines that call the repository, once each
  Paged,        \* those that call one of the three paged reads
  MaxConns,     \* the size of the pool
  MaxVersion,   \* bound: how often the table changes
  None

Version == 0..MaxVersion
Tasks   == {"rows", "count"}
ErrKind == {"database", "canceled"}

ASSUME ConstantsAssumption ==
  /\ Paged \subseteq Requests
  /\ MaxConns \in Nat \ {0}
  /\ MaxVersion \in Nat
  /\ None \notin Version /\ None \notin ErrKind

VARIABLES
  table,        \* the version of the table
  pc,           \* where each request is
  task,         \* where the goroutines of each request are
  err,          \* the error a task has returned
  first,        \* errgroup.err: the first error, set once
  cancelled,    \* requests whose group context is cancelled
  gone,         \* requests whose client has disconnected
  found,        \* the variables items and total: what each task has read
  ret           \* what the call returned: an error, or None for items and total

vars == <<table, pc, task, err, first, cancelled, gone, found, ret>>

TasksOf(r) == IF r \in Paged THEN Tasks ELSE {"rows"}

PCs     == {"start", "wait", "done"}
Stages  == {"off", "acquire", "query", "return", "ended"}

Job == Requests \X Tasks

\* Mutant of Busy: a task closes its rows only when the call returns.
BusyUntilReturn ==
  {j \in Job : pc[j[1]] = "wait" /\ (task[j[1]][j[2]] = "query" \/ found[j[1]][j[2]] # None)}

\* A connection is out of the pool from Query until its rows are closed.
Busy == {j \in Job : task[j[1]][j[2]] = "query"}

Init ==
  /\ table = 0
  /\ pc = [r \in Requests |-> "start"]
  /\ task = [r \in Requests |-> [t \in Tasks |-> "off"]]
  /\ err = [r \in Requests |-> [t \in Tasks |-> None]]
  /\ first = [r \in Requests |-> None]
  /\ cancelled = {}
  /\ gone = {}
  /\ found = [r \in Requests |-> [t \in Tasks |-> None]]
  /\ ret = [r \in Requests |-> None]

-------------------------------------------------------------------------------

\* g.Go for every task; a single query is made by the caller itself.
Call(r) ==
  /\ pc[r] = "start"
  /\ pc' = [pc EXCEPT ![r] = "wait"]
  /\ task' = [task EXCEPT ![r] =
                [t \in Tasks |-> IF t \in TasksOf(r) THEN "acquire" ELSE "ended"]]
  /\ UNCHANGED <<table, err, first, cancelled, gone, found, ret>>

Stop(r, t, kind) ==
  /\ task' = [task EXCEPT ![r][t] = "return"]
  /\ err' = [err EXCEPT ![r][t] = kind]
  /\ UNCHANGED <<table, pc, first, cancelled, gone, found, ret>>

\* pool.Query waits for a free connection.
Acquire(r, t) ==
  /\ task[r][t] = "acquire"
  /\ Cardinality(Busy) < MaxConns
  /\ task' = [task EXCEPT ![r][t] = "query"]
  /\ UNCHANGED <<table, pc, err, first, cancelled, gone, found, ret>>

\* The query is answered and its rows are scanned and closed.
Read(r, t) ==
  /\ task[r][t] = "query"
  /\ task' = [task EXCEPT ![r][t] = "return"]
  /\ found' = [found EXCEPT ![r][t] = table]
  /\ UNCHANGED <<table, pc, err, first, cancelled, gone, ret>>

\* Query, Scan or rows.Err fails on its own.
Fail(r, t) ==
  /\ task[r][t] = "query"
  /\ Stop(r, t, "database")

\* The context ends, while the task waits for a connection or runs its query.
Cancel(r, t) ==
  /\ task[r][t] \in {"acquire", "query"}
  /\ r \in cancelled \cup gone
  /\ Stop(r, t, "canceled")

\* Mutant of Return: a later error replaces the first.
ReturnLast(r, t) ==
  /\ task[r][t] = "return"
  /\ task' = [task EXCEPT ![r][t] = "ended"]
  /\ IF err[r][t] # None
       THEN /\ first' = [first EXCEPT ![r] = err[r][t]]
            /\ cancelled' = cancelled \cup {r}
       ELSE UNCHANGED <<first, cancelled>>
  /\ UNCHANGED <<table, pc, err, gone, found, ret>>

\* Mutant of Return: a plain errgroup.Group, whose context nobody cancels.
ReturnUncancelled(r, t) ==
  /\ task[r][t] = "return"
  /\ task' = [task EXCEPT ![r][t] = "ended"]
  /\ IF err[r][t] # None /\ first[r] = None
       THEN /\ first' = [first EXCEPT ![r] = err[r][t]]
            /\ UNCHANGED cancelled
       ELSE UNCHANGED <<first, cancelled>>
  /\ UNCHANGED <<table, pc, err, gone, found, ret>>

\* Mutant of Return: a failed count is not an error.
ReturnRowsOnly(r, t) ==
  /\ task[r][t] = "return"
  /\ task' = [task EXCEPT ![r][t] = "ended"]
  /\ IF t = "rows" /\ err[r][t] # None /\ first[r] = None
       THEN /\ first' = [first EXCEPT ![r] = err[r][t]]
            /\ cancelled' = cancelled \cup {r}
       ELSE UNCHANGED <<first, cancelled>>
  /\ UNCHANGED <<table, pc, err, gone, found, ret>>

\* The goroutine has returned: errgroup keeps the first error and cancels the
\* group with it.
Return(r, t) ==
  /\ task[r][t] = "return"
  /\ task' = [task EXCEPT ![r][t] = "ended"]
  /\ IF err[r][t] # None /\ first[r] = None
       THEN /\ first' = [first EXCEPT ![r] = err[r][t]]
            /\ cancelled' = cancelled \cup {r}
       ELSE UNCHANGED <<first, cancelled>>
  /\ UNCHANGED <<table, pc, err, gone, found, ret>>

\* g.Wait: every goroutine has ended.
Wait(r) ==
  /\ pc[r] = "wait"
  /\ \A t \in Tasks : task[r][t] = "ended"
  /\ pc' = [pc EXCEPT ![r] = "done"]
  /\ ret' = [ret EXCEPT ![r] = first[r]]
  /\ cancelled' = cancelled \cup {r}
  /\ UNCHANGED <<table, task, err, first, gone, found>>

\* net/http cancels the request's context.
Disconnect(r) ==
  /\ pc[r] = "wait"
  /\ r \notin gone
  /\ gone' = gone \cup {r}
  /\ UNCHANGED <<table, pc, task, err, first, cancelled, found, ret>>

\* Other sessions write to the table.
Write ==
  /\ table < MaxVersion
  /\ table' = table + 1
  /\ UNCHANGED <<pc, task, err, first, cancelled, gone, found, ret>>

TaskStep(r, t) ==
  \/ Acquire(r, t) \/ Read(r, t) \/ Fail(r, t) \/ Cancel(r, t) \/ Return(r, t)

Terminating ==
  /\ \A r \in Requests : pc[r] = "done"
  /\ UNCHANGED vars

Next ==
  \/ Write \/ Terminating
  \/ \E r \in Requests :
       Call(r) \/ Wait(r) \/ Disconnect(r) \/ \E t \in Tasks : TaskStep(r, t)

Spec == Init /\ [][Next]_vars

\* Goroutines that can run do run, and PostgreSQL answers.  A task may be
\* passed over for a connection while others take it, as often as there are
\* others, so weak fairness is enough.
FairSpec ==
  /\ Spec
  /\ \A r \in Requests :
       WF_vars(Wait(r)) /\ \A t \in Tasks : WF_vars(TaskStep(r, t))

-------------------------------------------------------------------------------

\* Every variable keeps its type, and an error is recorded only together with
\* the cancellation of its group.
TypeOK ==
  /\ table \in Version
  /\ pc \in [Requests -> PCs]
  /\ task \in [Requests -> [Tasks -> Stages]]
  /\ err \in [Requests -> [Tasks -> ErrKind \cup {None}]]
  /\ first \in [Requests -> ErrKind \cup {None}]
  /\ cancelled \subseteq Requests
  /\ gone \subseteq Requests
  /\ found \in [Requests -> [Tasks -> Version \cup {None}]]
  /\ ret \in [Requests -> ErrKind \cup {None}]
  /\ \A r \in Requests : first[r] # None => r \in cancelled

\* A page is complete: a call that returns no error has read both the rows
\* and the total.
PageIsWhole ==
  \A r \in Requests :
    pc[r] = "done" /\ ret[r] = None => \A t \in TasksOf(r) : found[r][t] # None

\* The cancellation of the other query never hides the error that caused it:
\* a caller is told "canceled" only if its own client has left.
CauseIsReported == \A r \in Requests : ret[r] = "canceled" => r \in gone

\* Every call returns, even if the two queries of a page have to share one
\* connection: a task never waits for one while it holds one.
CallsReturn == \A r \in Requests : pc[r] = "wait" ~> pc[r] = "done"
===============================================================================
