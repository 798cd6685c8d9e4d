------------------------------ MODULE CacheAside ------------------------------
(***************************************************************************)
(* The read path of internal/service/kitab.go: cache-aside reads through   *)
(* Redis, with one singleflight.Group per process.  ListKitab, GetKitab,   *)
(* GetKonten, Search and ListKategori are the same protocol with another   *)
(* key builder, repository call and TTL, so one model stands for the five. *)
(*                                                                         *)
(* A client is one goroutine serving a request (an HTTP handler of         *)
(* cmd/api or a tool call of cmd/mcp); it may serve any number of requests *)
(* one after the other.  A query is the filter of a request; the answer to *)
(* a query is abstracted to the version of the database it was read from.  *)
(*                                                                         *)
(* What happens inside one repository call (count and rows in parallel) is *)
(* one step here.  A TTL is the freedom of Redis to drop an entry at any   *)
(* time.  Json encoding of these types cannot fail and is left out; a      *)
(* cached value that does not decode is read as a miss, like a Get error.  *)
(***************************************************************************)
EXTENDS Naturals

CONSTANTS
  Clients,      \* goroutines that serve requests
  Procs,        \* processes: each has a KitabService, all share Redis
  Query,        \* the filters that requests carry
  Key,          \* cache keys, which are also the singleflight keys
  KeyOf,        \* the key builder: [Query -> Key]
  MaxVersion,   \* bound: how often the rows behind a query change
  Faults,       \* what may go wrong, a subset of FaultKinds
  None,         \* no entry, no call in flight
  Failed        \* the answer of a request that ended with an error

FaultKinds == {"get", "set", "db", "disconnect", "crash"}

Version == 0..MaxVersion
Answer  == [query : Query, version : Version]

ASSUME ConstantsAssumption ==
  /\ KeyOf \in [Query -> Key]
  /\ MaxVersion \in Nat
  /\ Faults \subseteq FaultKinds
  /\ None \notin Clients \cup Query \cup Answer \cup {Failed}
  /\ Failed \notin Answer

VARIABLES
  db,       \* the current version of the rows behind each query
  cache,    \* Redis: the entry stored under each key
  call,     \* singleflight.Group.m: the leader of the call in flight
  pc,       \* where each client is
  proc,     \* the process that serves the client's request
  query,    \* the filter of the client's request
  joined,   \* the leader whose call the client waits for
  ans,      \* the answer the client holds
  gone,     \* clients whose request context is cancelled
  seen,     \* history: the newest version any client has returned
  floor     \* history: the value of seen when the client's request began

vars == <<db, cache, call, pc, proc, query, joined, ans, gone, seen, floor>>

PCs == {"idle", "get", "do", "read", "store", "finish", "wait", "ready"}

\* The states in which a client runs the function passed to sf.Do.
InFlight == {"read", "store", "finish"}

KeyFor(c)  == KeyOf[query[c]]
Slot(c)    == <<proc[c], KeyFor(c)>>

Goto(c, label) == pc' = [pc EXCEPT ![c] = label]

Init ==
  /\ db = [q \in Query |-> 0]
  /\ cache = [k \in Key |-> None]
  /\ call = [s \in Procs \X Key |-> None]
  /\ pc = [c \in Clients |-> "idle"]
  /\ proc \in [Clients -> Procs]
  /\ query \in [Clients -> Query]
  /\ joined = [c \in Clients |-> None]
  /\ ans = [c \in Clients |-> Failed]
  /\ gone = {}
  /\ seen = [q \in Query |-> 0]
  /\ floor = [c \in Clients |-> 0]

-------------------------------------------------------------------------------
(* The steps of one request.                                                 *)

Begin(c, p, q) ==
  /\ pc[c] = "idle"
  /\ Goto(c, "get")
  /\ proc' = [proc EXCEPT ![c] = p]
  /\ query' = [query EXCEPT ![c] = q]
  /\ floor' = [floor EXCEPT ![c] = seen[q]]
  /\ UNCHANGED <<db, cache, call, joined, ans, gone, seen>>

CacheHit(c) ==
  /\ pc[c] = "get"
  /\ cache[KeyFor(c)] # None
  /\ ans' = [ans EXCEPT ![c] = cache[KeyFor(c)]]
  /\ Goto(c, "ready")
  /\ UNCHANGED <<db, cache, call, proc, query, joined, gone, seen, floor>>

\* Every error of Get falls through to the database like a miss.
CacheMiss(c) ==
  /\ pc[c] = "get"
  /\ cache[KeyFor(c)] = None \/ "get" \in Faults \/ c \in gone
  /\ Goto(c, "do")
  /\ UNCHANGED <<db, cache, call, proc, query, joined, ans, gone, seen, floor>>

\* Mutant of Lead: the call map is not looked at.
LeadUnchecked(c) ==
  /\ pc[c] = "do"
  /\ call' = [call EXCEPT ![Slot(c)] = c]
  /\ Goto(c, "read")
  /\ UNCHANGED <<db, cache, proc, query, joined, ans, gone, seen, floor>>

\* sf.Do, no call in flight for the key: this client runs the function.
Lead(c) ==
  /\ pc[c] = "do"
  /\ call[Slot(c)] = None
  /\ call' = [call EXCEPT ![Slot(c)] = c]
  /\ Goto(c, "read")
  /\ UNCHANGED <<db, cache, proc, query, joined, ans, gone, seen, floor>>

\* sf.Do, a call in flight: this client waits for it, whatever its own
\* context does.
Follow(c) ==
  /\ pc[c] = "do"
  /\ call[Slot(c)] # None
  /\ joined' = [joined EXCEPT ![c] = call[Slot(c)]]
  /\ Goto(c, "wait")
  /\ UNCHANGED <<db, cache, call, proc, query, ans, gone, seen, floor>>

\* The repository call, made with the leader's own filter and context.
RepoRead(c) ==
  /\ pc[c] = "read"
  /\ ans' = [ans EXCEPT ![c] = [query |-> query[c], version |-> db[query[c]]]]
  /\ Goto(c, "store")
  /\ UNCHANGED <<db, cache, call, proc, query, joined, gone, seen, floor>>

\* Mutant of RepoFail: the error is cached like a result.
RepoFailStored(c) ==
  /\ pc[c] = "read"
  /\ "db" \in Faults \/ c \in gone
  /\ ans' = [ans EXCEPT ![c] = Failed]
  /\ Goto(c, "store")
  /\ UNCHANGED <<db, cache, call, proc, query, joined, gone, seen, floor>>

\* Mutant of RepoFail: the error returns past the end of the shared call.
RepoFailLeaves(c) ==
  /\ pc[c] = "read"
  /\ "db" \in Faults \/ c \in gone
  /\ ans' = [ans EXCEPT ![c] = Failed]
  /\ Goto(c, "ready")
  /\ UNCHANGED <<db, cache, call, proc, query, joined, gone, seen, floor>>

\* Mutant of RepoFail: an error is answered with the last known version.
RepoFailServesOld(c) ==
  /\ pc[c] = "read"
  /\ "db" \in Faults \/ c \in gone
  /\ ans' = [ans EXCEPT ![c] = [query |-> query[c], version |-> seen[query[c]]]]
  /\ Goto(c, "finish")
  /\ UNCHANGED <<db, cache, call, proc, query, joined, gone, seen, floor>>

\* Mutant of RepoFail: the call is cancelled with any of its requests.
RepoFailWithAny(c) ==
  /\ pc[c] = "read"
  /\ "db" \in Faults \/ c \in gone
     \/ \E f \in gone : pc[f] = "wait" /\ joined[f] = c
  /\ ans' = [ans EXCEPT ![c] = Failed]
  /\ Goto(c, "finish")
  /\ UNCHANGED <<db, cache, call, proc, query, joined, gone, seen, floor>>

RepoFail(c) ==
  /\ pc[c] = "read"
  /\ "db" \in Faults \/ c \in gone
  /\ ans' = [ans EXCEPT ![c] = Failed]
  /\ Goto(c, "finish")
  /\ UNCHANGED <<db, cache, call, proc, query, joined, gone, seen, floor>>

\* Mutant of CacheSet: SET with NX, an entry that is there stays.
CacheSetIfAbsent(c) ==
  /\ pc[c] = "store"
  /\ cache' = [cache EXCEPT ![KeyFor(c)] = IF @ = None THEN ans[c] ELSE @]
  /\ Goto(c, "finish")
  /\ UNCHANGED <<db, call, proc, query, joined, ans, gone, seen, floor>>

CacheSet(c) ==
  /\ pc[c] = "store"
  /\ cache' = [cache EXCEPT ![KeyFor(c)] = ans[c]]
  /\ Goto(c, "finish")
  /\ UNCHANGED <<db, call, proc, query, joined, ans, gone, seen, floor>>

\* The error of Set is ignored.
CacheSetFail(c) ==
  /\ pc[c] = "store"
  /\ "set" \in Faults \/ c \in gone
  /\ Goto(c, "finish")
  /\ UNCHANGED <<db, cache, call, proc, query, joined, ans, gone, seen, floor>>

\* The end of singleflight's doCall, under its mutex: the key is free again
\* and the outcome is fixed for everybody who joined.
Joiners(c) == {f \in Clients : pc[f] = "wait" /\ joined[f] = c}

\* Mutant of FinishCall: those who joined are not woken.
FinishAlone(c) ==
  /\ pc[c] = "finish"
  /\ call' = [call EXCEPT ![Slot(c)] = None]
  /\ Goto(c, "ready")
  /\ UNCHANGED <<db, cache, proc, query, joined, ans, gone, seen, floor>>

FinishCall(c) ==
  /\ pc[c] = "finish"
  /\ call' = [call EXCEPT ![Slot(c)] = None]
  /\ pc' = [f \in Clients |-> IF f = c \/ f \in Joiners(c) THEN "ready" ELSE pc[f]]
  /\ ans' = [f \in Clients |-> IF f \in Joiners(c) THEN ans[c] ELSE ans[f]]
  /\ UNCHANGED <<db, cache, proc, query, joined, gone, seen, floor>>

Newer(v, w) == IF v < w THEN w ELSE v

Return(c) ==
  /\ pc[c] = "ready"
  /\ Goto(c, "idle")
  /\ seen' = IF ans[c] = Failed THEN seen
             ELSE [seen EXCEPT ![ans[c].query] = Newer(@, ans[c].version)]
  /\ joined' = [joined EXCEPT ![c] = None]
  /\ ans' = [ans EXCEPT ![c] = Failed]
  /\ gone' = gone \ {c}
  /\ floor' = [floor EXCEPT ![c] = 0]
  /\ UNCHANGED <<db, cache, call, proc, query>>

-------------------------------------------------------------------------------
(* The environment.                                                          *)

\* The peer closes its connection: net/http cancels the request context.
Disconnect(c) ==
  /\ "disconnect" \in Faults
  /\ pc[c] # "idle"
  /\ gone' = gone \cup {c}
  /\ UNCHANGED <<db, cache, call, pc, proc, query, joined, ans, seen, floor>>

\* A process dies or is redeployed: its requests and its call map are lost,
\* Redis keeps what was stored.
Crash(p) ==
  LET Lost == {c \in Clients : pc[c] # "idle" /\ proc[c] = p} IN
  /\ "crash" \in Faults
  /\ Lost # {}
  /\ pc' = [c \in Clients |-> IF c \in Lost THEN "idle" ELSE pc[c]]
  /\ call' = [s \in Procs \X Key |-> IF s[1] = p THEN None ELSE call[s]]
  /\ joined' = [c \in Clients |-> IF c \in Lost THEN None ELSE joined[c]]
  /\ ans' = [c \in Clients |-> IF c \in Lost THEN Failed ELSE ans[c]]
  /\ floor' = [c \in Clients |-> IF c \in Lost THEN 0 ELSE floor[c]]
  /\ gone' = gone \ Lost
  /\ UNCHANGED <<db, cache, proc, query, seen>>

\* Mutant of Expire: entries are stored without a TTL.
ExpireNever(k) == FALSE /\ UNCHANGED vars

\* The TTL of an entry runs out (or Redis evicts it).
Expire(k) ==
  /\ cache[k] # None
  /\ cache' = [cache EXCEPT ![k] = None]
  /\ UNCHANGED <<db, call, pc, proc, query, joined, ans, gone, seen, floor>>

\* The rows behind a query change.  Nothing in this repository writes them,
\* so nothing tells the cache: Cache.Del has no caller.
Update(q) ==
  /\ db[q] < MaxVersion
  /\ db' = [db EXCEPT ![q] = @ + 1]
  /\ UNCHANGED <<cache, call, pc, proc, query, joined, ans, gone, seen, floor>>

-------------------------------------------------------------------------------
Get(c)   == CacheHit(c) \/ CacheMiss(c)
Do(c)    == Lead(c) \/ Follow(c)
Read(c)  == RepoRead(c) \/ RepoFail(c)
Store(c) == CacheSet(c) \/ CacheSetFail(c)

\* Everything one call of a read method does.
ReadMethod(c) ==
  \/ Get(c) \/ Do(c) \/ Read(c) \/ Store(c) \/ FinishCall(c) \/ Return(c)

Next ==
  \/ \E c \in Clients, p \in Procs, q \in Query : Begin(c, p, q)
  \/ \E c \in Clients : ReadMethod(c) \/ Disconnect(c)
  \/ \E p \in Procs : Crash(p)
  \/ \E k \in Key : Expire(k)
  \/ \E q \in Query : Update(q)

Spec == Init /\ [][Next]_vars

\* Goroutines are scheduled and Redis and PostgreSQL answer, with a result or
\* with an error; a TTL that has been set runs out.  Nothing obliges clients
\* to come, rows to change, peers to leave or processes to crash.
Fairness ==
  /\ \A c \in Clients :
       /\ WF_vars(Get(c)) /\ WF_vars(Do(c)) /\ WF_vars(Read(c))
       /\ WF_vars(Store(c)) /\ WF_vars(FinishCall(c)) /\ WF_vars(Return(c))
  /\ \A k \in Key : WF_vars(Expire(k))

FairSpec == Spec /\ Fairness
-------------------------------------------------------------------------------
(* Properties.                                                               *)

\* Type correctness of the variables.
TypeOK ==
  /\ db \in [Query -> Version]
  /\ cache \in [Key -> Answer \cup {None}]
  /\ call \in [Procs \X Key -> Clients \cup {None}]
  /\ pc \in [Clients -> PCs]
  /\ proc \in [Clients -> Procs]
  /\ query \in [Clients -> Query]
  /\ joined \in [Clients -> Clients \cup {None}]
  /\ ans \in [Clients -> Answer \cup {Failed}]
  /\ gone \subseteq Clients
  /\ seen \in [Query -> Version]
  /\ floor \in [Clients -> Version]

\* Requests that miss the same key at the same time in one process do not
\* read the database side by side: at any moment at most one client per
\* process and key is inside the function passed to sf.Do.
OneFlight ==
  \A c, d \in Clients :
    pc[c] \in InFlight /\ pc[d] \in InFlight /\ Slot(c) = Slot(d) => c = d

\* Nobody waits for a call that will not end: whoever waits has joined the
\* call now registered for its key in its process, and that call's leader is
\* still running the function.  This must survive errors, crashes, and
\* leaders that go on to serve other requests.
NoOrphanWaiter ==
  \A f \in Clients : pc[f] = "wait" =>
    /\ joined[f] = call[Slot(f)]
    /\ joined[f] \in Clients
    /\ pc[joined[f]] \in InFlight
    /\ Slot(joined[f]) = Slot(f)

\* A request is answered with the rows of its own filter, although both the
\* cached entry and the shared call are found by key alone.
AnswersOwnQuery ==
  \A c \in Clients :
    pc[c] = "ready" /\ ans[c] # Failed => ans[c].query = query[c]

\* A request that begins after another one has returned never gets an older
\* version than that one returned.
MonotonicReads ==
  \A c \in Clients :
    pc[c] = "ready" /\ ans[c] # Failed => ans[c].version >= floor[c]

\* While the database answers, the only disconnected peer that can turn an
\* answer into an error is the leader's own: a waiting client that leaves
\* costs the others nothing.
OnlyLeaderCancelFails ==
  [][\A c \in Clients :
       pc[c] \in {"read", "wait", "finish"} /\ ans'[c] = Failed /\ pc'[c] = "ready"
         => (IF pc[c] = "wait" THEN joined[c] ELSE c) \in gone]_vars

\* Every request is answered: no cache error, database error, disconnected
\* peer or crash of another process leaves it waiting for ever.
EveryRequestReturns ==
  \A c \in Clients : pc[c] # "idle" ~> pc[c] = "idle"

\* Stale answers drain: although a slow call may store an old version after a
\* newer one, once the rows have stopped changing (MaxVersion stops them in
\* every behaviour) there is a time from which every entry in Redis and every
\* answer is current.
EventuallyCurrent ==
  <>[](/\ \A k \in Key : cache[k] # None => cache[k].version = db[cache[k].query]
       /\ \A c \in Clients : pc[c] = "ready" /\ ans[c] # Failed
                             => ans[c].version = db[ans[c].query])

\* The service implements the abstract read-through service: its copies are
\* the entries in Redis and the results of calls that are still in flight.
HasResult(c) == pc[c] \in {"store", "finish"} /\ ans[c] # Failed

Copies ==
  {cache[k] : k \in {j \in Key : cache[j] # None}}
    \cup {ans[c] : c \in {d \in Clients : HasResult(d)}}
Asked == [c \in Clients |-> IF pc[c] \in {"idle", "ready"} THEN None ELSE query[c]]
Given == [c \in Clients |-> IF pc[c] = "ready" THEN ans[c] ELSE None]

Service == INSTANCE ReadThrough WITH copies <- Copies, asked <- Asked, given <- Given

ImplementsReadThrough == Service!Spec
===============================================================================
