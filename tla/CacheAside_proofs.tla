-------------------------- MODULE CacheAside_proofs --------------------------
(***************************************************************************)
(* Proofs about CacheAside, for every number of clients, processes,        *)
(* queries, keys and versions and for every set of faults.                 *)
(***************************************************************************)
EXTENDS CacheAside, SequenceTheorems, TLAPS

-------------------------------------------------------------------------------
(* Type correctness.                                                         *)

\* What is stored is a result, never an error: TypeOK needs it to be inductive.
StoresResults == \A c \in Clients : pc[c] = "store" => ans[c] # Failed

Typed == TypeOK /\ StoresResults

LEMMA KeyForType ==
  ASSUME TypeOK, NEW c \in Clients
  PROVE  KeyFor(c) \in Key /\ Slot(c) \in Procs \X Key
BY ConstantsAssumption DEF TypeOK, KeyFor, Slot

LEMMA TypedInit == Init => Typed
BY ConstantsAssumption
   DEF Init, Typed, TypeOK, StoresResults, PCs, Version

LEMMA TypedStep == Typed /\ [Next]_vars => Typed'
<1> SUFFICES ASSUME Typed, [Next]_vars PROVE Typed'
  OBVIOUS
<1> USE ConstantsAssumption
<1>1. ASSUME NEW c \in Clients, NEW p \in Procs, NEW q \in Query, Begin(c, p, q)
      PROVE  Typed'
  BY <1>1 DEF Begin, Goto, Typed, TypeOK, StoresResults, PCs
<1>2. ASSUME NEW c \in Clients, CacheHit(c)
      PROVE  Typed'
  BY <1>2, KeyForType DEF CacheHit, Goto, Typed, TypeOK, StoresResults, PCs
<1>3. ASSUME NEW c \in Clients, CacheMiss(c)
      PROVE  Typed'
  BY <1>3 DEF CacheMiss, Goto, Typed, TypeOK, StoresResults, PCs
<1>4. ASSUME NEW c \in Clients, Lead(c)
      PROVE  Typed'
  BY <1>4, KeyForType DEF Lead, Goto, Typed, TypeOK, StoresResults, PCs
<1>5. ASSUME NEW c \in Clients, Follow(c)
      PROVE  Typed'
  BY <1>5, KeyForType DEF Follow, Goto, Typed, TypeOK, StoresResults, PCs
<1>6. ASSUME NEW c \in Clients, RepoRead(c)
      PROVE  Typed'
  BY <1>6 DEF RepoRead, Goto, Typed, TypeOK, StoresResults, PCs, Answer
<1>7. ASSUME NEW c \in Clients, RepoFail(c)
      PROVE  Typed'
  BY <1>7 DEF RepoFail, Goto, Typed, TypeOK, StoresResults, PCs
<1>8. ASSUME NEW c \in Clients, CacheSet(c)
      PROVE  Typed'
  BY <1>8, KeyForType DEF CacheSet, Goto, Typed, TypeOK, StoresResults, PCs
<1>9. ASSUME NEW c \in Clients, CacheSetFail(c)
      PROVE  Typed'
  BY <1>9 DEF CacheSetFail, Goto, Typed, TypeOK, StoresResults, PCs
<1>10. ASSUME NEW c \in Clients, FinishCall(c)
       PROVE  Typed'
  BY <1>10, KeyForType DEF FinishCall, Joiners, Typed, TypeOK, StoresResults, PCs
<1>11. ASSUME NEW c \in Clients, Return(c)
       PROVE  Typed'
  <2>1. seen' \in [Query -> Version]
    BY <1>11 DEF Return, Newer, Typed, TypeOK, Answer
  <2>2. floor' \in [Clients -> Version]
    BY <1>11 DEF Return, Typed, TypeOK, Version
  <2> QED
    BY <1>11, <2>1, <2>2 DEF Return, Goto, Typed, TypeOK, StoresResults, PCs
<1>12. ASSUME NEW c \in Clients, Disconnect(c)
       PROVE  Typed'
  BY <1>12 DEF Disconnect, Typed, TypeOK, StoresResults
<1>13. ASSUME NEW p \in Procs, Crash(p)
       PROVE  Typed'
  BY <1>13 DEF Crash, Typed, TypeOK, StoresResults, PCs, Version
<1>14. ASSUME NEW k \in Key, Expire(k)
       PROVE  Typed'
  BY <1>14 DEF Expire, Typed, TypeOK, StoresResults
<1>15. ASSUME NEW q \in Query, Update(q)
       PROVE  Typed'
  BY <1>15 DEF Update, Typed, TypeOK, StoresResults, Version
<1>16. CASE UNCHANGED vars
  BY <1>16 DEF vars, Typed, TypeOK, StoresResults
<1> QED
  BY <1>1, <1>2, <1>3, <1>4, <1>5, <1>6, <1>7, <1>8, <1>9, <1>10, <1>11,
     <1>12, <1>13, <1>14, <1>15, <1>16
     DEF Next, ReadMethod, Get, Do, Read, Store

\* TypeOK holds in every reachable state: in particular no error is ever
\* stored in Redis as if it were a result.
THEOREM TypeCorrect == Spec => []TypeOK
<1>1. Typed => TypeOK
  BY DEF Typed
<1> QED
  BY <1>1, TypedInit, TypedStep, PTL DEF Spec

-------------------------------------------------------------------------------
(* One call per process and key, and nobody waits for a call that is over.   *)
(*                                                                           *)
(* The call map and the program counters agree: a client is inside the       *)
(* function passed to sf.Do exactly when the map names it as the leader for  *)
(* its slot, and a waiting client has joined the leader its slot names.      *)

LeadersRegistered ==
  \A c \in Clients : pc[c] \in InFlight => call[Slot(c)] = c

CallsRunning ==
  \A s \in Procs \X Key : call[s] # None =>
    pc[call[s]] \in InFlight /\ Slot(call[s]) = s

WaitersJoined ==
  \A f \in Clients : pc[f] = "wait" =>
    joined[f] = call[Slot(f)] /\ joined[f] \in Clients

Flights == LeadersRegistered /\ CallsRunning /\ WaitersJoined

LEMMA FlightsInit == Init => Flights
BY DEF Init, Flights, LeadersRegistered, CallsRunning, WaitersJoined, InFlight

LEMMA FlightsStep == Typed /\ Flights /\ [Next]_vars => Flights'
<1> SUFFICES ASSUME Typed, Flights, [Next]_vars PROVE Flights'
  OBVIOUS
<1> USE ConstantsAssumption DEF Typed, TypeOK
<1>s. \A c \in Clients : KeyFor(c) \in Key /\ Slot(c) \in Procs \X Key
  BY KeyForType
<1>1. ASSUME NEW c \in Clients, NEW p \in Procs, NEW q \in Query, Begin(c, p, q)
      PROVE  Flights'
  <2>1. \A d \in Clients \ {c} : Slot(d)' = Slot(d) /\ pc'[d] = pc[d]
    BY <1>1 DEF Begin, Goto, Slot, KeyFor
  <2>2. \A s \in Procs \X Key : call[s] # c
    BY <1>1 DEF Begin, Flights, CallsRunning, InFlight
  <2> QED
    BY <1>1, <1>s, <2>1, <2>2
       DEF Begin, Goto, Flights, LeadersRegistered, CallsRunning, WaitersJoined, InFlight
<1>2. ASSUME NEW c \in Clients, CacheHit(c) \/ CacheMiss(c) \/ RepoRead(c)
               \/ RepoFail(c) \/ CacheSet(c) \/ CacheSetFail(c) \/ Return(c)
      PROVE  Flights'
  <2>1. \A d \in Clients : Slot(d)' = Slot(d)
    BY <1>2 DEF CacheHit, CacheMiss, RepoRead, RepoFail, CacheSet, CacheSetFail,
                Return, Slot, KeyFor
  <2>2. call' = call
    BY <1>2
       DEF CacheHit, CacheMiss, RepoRead, RepoFail, CacheSet, CacheSetFail,
           Return
  <2>3. \A d \in Clients : pc'[d] \in InFlight <=> pc[d] \in InFlight
    BY <1>2 DEF CacheHit, CacheMiss, RepoRead, RepoFail, CacheSet, CacheSetFail,
                Return, Goto, InFlight
  <2>4. \A d \in Clients : pc'[d] = "wait" => pc[d] = "wait" /\ joined'[d] = joined[d]
    BY <1>2 DEF CacheHit, CacheMiss, RepoRead, RepoFail, CacheSet, CacheSetFail,
                Return, Goto
  <2> QED
    BY <2>1, <2>2, <2>3, <2>4
       DEF Flights, LeadersRegistered, CallsRunning, WaitersJoined
<1>3. ASSUME NEW c \in Clients, Lead(c)
      PROVE  Flights'
  <2>1. \A d \in Clients : Slot(d)' = Slot(d)
    BY <1>3 DEF Lead, Slot, KeyFor
  <2> QED
    BY <1>3, <1>s, <2>1
       DEF Lead, Goto, Flights, LeadersRegistered, CallsRunning, WaitersJoined, InFlight
<1>4. ASSUME NEW c \in Clients, Follow(c)
      PROVE  Flights'
  <2>1. \A d \in Clients : Slot(d)' = Slot(d)
    BY <1>4 DEF Follow, Slot, KeyFor
  <2> QED
    BY <1>4, <1>s, <2>1
       DEF Follow, Goto, Flights, LeadersRegistered, CallsRunning, WaitersJoined, InFlight
<1>5. ASSUME NEW c \in Clients, FinishCall(c)
      PROVE  Flights'
  <2>1. \A d \in Clients : Slot(d)' = Slot(d)
    BY <1>5 DEF FinishCall, Slot, KeyFor
  <2>2. \A d \in Clients : pc[d] = "wait" /\ Slot(d) = Slot(c) => d \in Joiners(c)
    BY <1>5, <1>s
       DEF FinishCall, Joiners, Flights, LeadersRegistered, WaitersJoined,
           InFlight
  <2>3. call[Slot(c)] = c /\ pc[c] = "finish"
    BY <1>5 DEF FinishCall, Flights, LeadersRegistered, InFlight
  <2>4. \A d \in Clients : pc'[d] # "ready" => pc'[d] = pc[d] /\ d # c /\ d \notin Joiners(c)
    BY <1>5 DEF FinishCall
  <2>5. \A s \in Procs \X Key : s # Slot(c) => call'[s] = call[s]
    BY <1>5 DEF FinishCall
  <2>6. call'[Slot(c)] = None
    BY <1>5, <1>s DEF FinishCall
  <2>7. LeadersRegistered'
    BY <1>s, <2>1, <2>3, <2>4, <2>5 DEF Flights, LeadersRegistered, InFlight
  <2>8. CallsRunning'
    <3> SUFFICES ASSUME NEW s \in Procs \X Key, call'[s] # None
                 PROVE  pc'[call'[s]] \in InFlight /\ Slot(call[s])' = s
      BY DEF CallsRunning
    <3>1. s # Slot(c) /\ call'[s] = call[s]
      BY <2>5, <2>6
    <3>2. call[s] \in Clients
      BY <3>1
    <3>3. pc[call[s]] \in InFlight /\ Slot(call[s]) = s
      BY <3>1 DEF Flights, CallsRunning
    <3>4. call[s] # c
      BY <3>1, <3>3
    <3>5. pc'[call[s]] = pc[call[s]]
      BY <1>5, <3>2, <3>3, <3>4 DEF FinishCall, Joiners, InFlight
    <3>6. proc' = proc /\ query' = query
      BY <1>5 DEF FinishCall
    <3> QED
      BY <3>1, <3>2, <3>3, <3>5, <3>6 DEF Slot, KeyFor
  <2>9. WaitersJoined'
    BY <1>5, <1>s, <2>1, <2>2, <2>4, <2>5 DEF FinishCall, Flights, WaitersJoined
  <2> QED
    BY <2>7, <2>8, <2>9 DEF Flights
<1>6. ASSUME NEW p \in Procs, Crash(p)
      PROVE  Flights'
  <2>1. \A d \in Clients : Slot(d)' = Slot(d) /\ Slot(d)[1] = proc[d]
    BY <1>6 DEF Crash, Slot, KeyFor
  <2>2. \A d \in Clients : pc'[d] # "idle" => pc'[d] = pc[d] /\ proc[d] # p
                                           /\ joined'[d] = joined[d]
    BY <1>6 DEF Crash
  <2>3. \A s \in Procs \X Key : call'[s] = IF s[1] = p THEN None ELSE call[s]
    BY <1>6 DEF Crash
  <2>4. \A d \in Clients : proc[d] # p => pc'[d] = pc[d]
    BY <1>6 DEF Crash
  <2>5. LeadersRegistered'
    BY <1>s, <2>1, <2>2, <2>3 DEF Flights, LeadersRegistered, InFlight
  <2>6. CallsRunning'
    BY <1>s, <2>1, <2>3, <2>4 DEF Flights, CallsRunning
  <2>7. WaitersJoined'
    BY <1>s, <2>1, <2>2, <2>3 DEF Flights, WaitersJoined
  <2> QED
    BY <2>5, <2>6, <2>7 DEF Flights
<1>7. CASE UNCHANGED <<call, pc, proc, query, joined>>
  BY <1>7 DEF Flights, LeadersRegistered, CallsRunning, WaitersJoined, Slot, KeyFor
<1> QED
  BY <1>1, <1>2, <1>3, <1>4, <1>5, <1>6, <1>7
     DEF Next, ReadMethod, Get, Do, Read, Store, Disconnect, Expire, Update, vars

LEMMA FlightsCorrect == Spec => [](Typed /\ Flights)
BY TypedInit, TypedStep, FlightsInit, FlightsStep, PTL DEF Spec

\* At most one client per process and key is inside the function passed to
\* sf.Do, whatever fails and however many clients and processes there are.
THEOREM SingleFlight == Spec => []OneFlight
<1>1. Typed /\ Flights => OneFlight
  BY DEF Flights, LeadersRegistered, OneFlight
<1> QED
  BY <1>1, FlightsCorrect, PTL

\* Whoever waits has joined the call that is registered for its own process
\* and key, and the leader of that call is still running it.
THEOREM NoWaiterIsOrphaned == Spec => []NoOrphanWaiter
<1>1. Typed /\ Flights => NoOrphanWaiter
  <2> SUFFICES ASSUME Typed, Flights, NEW f \in Clients, pc[f] = "wait"
               PROVE  /\ joined[f] = call[Slot(f)]
                      /\ joined[f] \in Clients
                      /\ pc[joined[f]] \in InFlight
                      /\ Slot(joined[f]) = Slot(f)
    BY DEF NoOrphanWaiter
  <2>1. Slot(f) \in Procs \X Key
    BY KeyForType DEF Typed
  <2> QED
    BY <2>1, ConstantsAssumption DEF Flights, CallsRunning, WaitersJoined
<1> QED
  BY <1>1, FlightsCorrect, PTL

-------------------------------------------------------------------------------
(* Answers do not cross over, if different queries have different keys.      *)

DistinctKeys == \A q, r \in Query : KeyOf[q] = KeyOf[r] => q = r

EntriesUnderOwnKey ==
  \A k \in Key : cache[k] # None => KeyOf[cache[k].query] = k

ResultsOwn ==
  \A c \in Clients :
    pc[c] \in {"store", "finish", "ready"} /\ ans[c] # Failed => ans[c].query = query[c]

OwnAnswers == EntriesUnderOwnKey /\ ResultsOwn

LEMMA OwnAnswersInit == Init => OwnAnswers
BY DEF Init, OwnAnswers, EntriesUnderOwnKey, ResultsOwn

LEMMA OwnAnswersStep ==
  ASSUME DistinctKeys, Typed, Flights, OwnAnswers, [Next]_vars
  PROVE  OwnAnswers'
<1> USE ConstantsAssumption DEF Typed, TypeOK, OwnAnswers, EntriesUnderOwnKey, ResultsOwn
<1>1. ASSUME NEW c \in Clients, NEW p \in Procs, NEW q \in Query, Begin(c, p, q)
      PROVE  OwnAnswers'
  BY <1>1 DEF Begin, Goto
<1>2. ASSUME NEW c \in Clients, CacheHit(c)
      PROVE  OwnAnswers'
  <2>1. cache[KeyFor(c)] \in Answer /\ KeyOf[cache[KeyFor(c)].query] = KeyOf[query[c]]
    BY <1>2, KeyForType DEF CacheHit, KeyFor
  <2>2. cache[KeyFor(c)].query = query[c]
    BY <2>1 DEF DistinctKeys, Answer
  <2> QED
    BY <1>2, <2>2 DEF CacheHit, Goto
<1>3. ASSUME NEW c \in Clients,
             CacheMiss(c) \/ Lead(c) \/ Follow(c) \/ RepoFail(c) \/ CacheSetFail(c)
      PROVE  OwnAnswers'
  BY <1>3 DEF CacheMiss, Lead, Follow, RepoFail, CacheSetFail, Goto
<1>4. ASSUME NEW c \in Clients, RepoRead(c)
      PROVE  OwnAnswers'
  BY <1>4 DEF RepoRead, Goto
<1>5. ASSUME NEW c \in Clients, CacheSet(c)
      PROVE  OwnAnswers'
  <2>1. ans[c].query = query[c]
    BY <1>5 DEF CacheSet, StoresResults
  <2> QED
    BY <1>5, <2>1, KeyForType DEF CacheSet, Goto, KeyFor
<1>6. ASSUME NEW c \in Clients, FinishCall(c)
      PROVE  OwnAnswers'
  <2>1. \A f \in Joiners(c) : query[f] = query[c]
    <3> SUFFICES ASSUME NEW f \in Joiners(c) PROVE query[f] = query[c]
      OBVIOUS
    <3>1. f \in Clients /\ call[Slot(f)] = c /\ Slot(f) \in Procs \X Key
      BY KeyForType DEF Joiners, Flights, WaitersJoined
    <3>2. Slot(c) = Slot(f)
      BY <3>1 DEF Flights, CallsRunning
    <3> QED
      BY <3>1, <3>2 DEF DistinctKeys, Slot, KeyFor
  <2> QED
    BY <1>6, <2>1 DEF FinishCall, Joiners
<1>7. ASSUME NEW c \in Clients, Return(c)
      PROVE  OwnAnswers'
  BY <1>7 DEF Return, Goto
<1>8. ASSUME NEW p \in Procs, Crash(p)
      PROVE  OwnAnswers'
  BY <1>8 DEF Crash
<1>9. ASSUME NEW k \in Key, Expire(k)
      PROVE  OwnAnswers'
  BY <1>9 DEF Expire
<1>10. CASE UNCHANGED <<cache, pc, query, ans>>
  BY <1>10
<1> QED
  BY <1>1, <1>2, <1>3, <1>4, <1>5, <1>6, <1>7, <1>8, <1>9, <1>10
     DEF Next, ReadMethod, Get, Do, Read, Store, Disconnect, Update, vars

LEMMA OwnAnswersCorrect ==
  ASSUME DistinctKeys
  PROVE  Spec => [](Typed /\ Flights /\ OwnAnswers)
<1>1. Typed /\ Flights /\ OwnAnswers /\ [Next]_vars => OwnAnswers'
  BY OwnAnswersStep
<1> QED
  BY <1>1, FlightsCorrect, OwnAnswersInit, PTL DEF Spec

\* If no two queries share a key, every answer, cached, shared or fresh, is
\* for the query that was asked.  Where two queries do share a key the runs
\* of MCCacheKeys show that it is not.
THEOREM NoCrossover ==
  ASSUME DistinctKeys
  PROVE  Spec => []AnswersOwnQuery
<1>1. OwnAnswers => AnswersOwnQuery
  BY DEF OwnAnswers, ResultsOwn, AnswersOwnQuery
<1> QED
  BY <1>1, OwnAnswersCorrect, PTL

-------------------------------------------------------------------------------
(* Reads never go back, as long as one process uses Redis and its stores     *)
(* land.  The invariant orders the copies of a query: what was returned <=   *)
(* what Redis holds <= what a running call has read <= what the rows are.    *)

HealthyCache ==
  /\ DistinctKeys
  /\ \A p, r \in Procs : p = r
  /\ Faults \cap {"set", "disconnect"} = {}

Answered(c)  == pc[c] = "ready" /\ ans[c] # Failed

NobodyGone == gone = {}

ReturnedOld == \A q \in Query : seen[q] <= db[q]

FloorsOld == \A c \in Clients : floor[c] <= seen[query[c]]

EntriesBetween ==
  \A k \in Key : cache[k] # None =>
    /\ seen[cache[k].query] <= cache[k].version
    /\ cache[k].version <= db[cache[k].query]

ResultsBetween ==
  \A c \in Clients : HasResult(c) =>
    /\ seen[query[c]] <= ans[c].version
    /\ ans[c].version <= db[query[c]]

ResultsAboveEntries ==
  \A c \in Clients : HasResult(c) /\ cache[KeyFor(c)] # None =>
    /\ cache[KeyFor(c)].version <= ans[c].version
    /\ pc[c] = "finish" => cache[KeyFor(c)].version = ans[c].version

AnswersBetween ==
  \A c \in Clients : Answered(c) =>
    /\ floor[c] <= ans[c].version
    /\ ans[c].version <= db[query[c]]

EntriesAboveAnswers ==
  \A c \in Clients : Answered(c) /\ cache[KeyFor(c)] # None =>
    ans[c].version <= cache[KeyFor(c)].version

ResultsAboveAnswers ==
  \A c, d \in Clients : Answered(c) /\ HasResult(d) /\ query[c] = query[d] =>
    ans[c].version <= ans[d].version

Ordered ==
  /\ NobodyGone /\ ReturnedOld /\ FloorsOld /\ EntriesBetween /\ ResultsBetween
  /\ ResultsAboveEntries /\ AnswersBetween /\ EntriesAboveAnswers
  /\ ResultsAboveAnswers

LEMMA OrderedInit == Init => Ordered
BY ConstantsAssumption
   DEF Init, Ordered, NobodyGone, ReturnedOld, FloorsOld, EntriesBetween,
       ResultsBetween, ResultsAboveEntries, AnswersBetween, EntriesAboveAnswers,
       ResultsAboveAnswers, HasResult, Answered

LEMMA OrderedStep ==
  ASSUME HealthyCache, Typed, Flights, OwnAnswers, Ordered, [Next]_vars
  PROVE  Ordered'
<1> USE ConstantsAssumption
    DEF HealthyCache, Typed, TypeOK, OwnAnswers, EntriesUnderOwnKey, ResultsOwn,
        Ordered, HasResult, Answered
<1>t. /\ \A q \in Query : db[q] \in Nat /\ seen[q] \in Nat
      /\ \A c \in Clients : ans[c] # Failed => ans[c].version \in Nat /\ ans[c].query \in Query
      /\ \A k \in Key : cache[k] # None => cache[k].version \in Nat /\ cache[k].query \in Query
      /\ \A c \in Clients : floor[c] \in Nat /\ query[c] \in Query
  BY DEF Version, Answer
<1>k. \A c \in Clients : KeyFor(c) \in Key
        /\ cache[KeyFor(c)] # None => cache[KeyFor(c)].query = query[c]
  BY <1>t, KeyForType DEF DistinctKeys, KeyFor
<1>q. \A c, d \in Clients : KeyFor(c) = KeyFor(d) <=> query[c] = query[d]
  BY <1>t DEF DistinctKeys, KeyFor
<1>f. \A c, d \in Clients : pc[c] \in InFlight /\ pc[d] \in InFlight
                              /\ query[c] = query[d] => c = d
  <2>1. \A c, d \in Clients : query[c] = query[d] => Slot(c) = Slot(d)
    BY DEF Slot, KeyFor
  <2> QED
    BY <2>1 DEF Flights, LeadersRegistered
<1>1. ASSUME NEW c \in Clients, NEW p \in Procs, NEW q \in Query, Begin(c, p, q)
      PROVE  Ordered'
  <2>1. FloorsOld'
    BY <1>1, <1>t, <1>k DEF Begin, Goto, KeyFor, FloorsOld
  <2>2. /\ NobodyGone' /\ ReturnedOld' /\ EntriesBetween'
        /\ ResultsBetween' /\ ResultsAboveEntries' /\ AnswersBetween'
        /\ EntriesAboveAnswers' /\ ResultsAboveAnswers'
    BY <1>1, <1>t, <1>k
       DEF Begin, Goto, KeyFor, NobodyGone, ReturnedOld, EntriesBetween,
           ResultsBetween, ResultsAboveEntries, AnswersBetween,
           EntriesAboveAnswers, ResultsAboveAnswers
  <2> QED
    BY <2>1, <2>2
<1>2. ASSUME NEW c \in Clients, CacheHit(c)
      PROVE  Ordered'
  <2>1. AnswersBetween'
    BY <1>2, <1>t, <1>k
       DEF CacheHit, Goto, KeyFor, AnswersBetween, FloorsOld, EntriesBetween
  <2>2. EntriesAboveAnswers'
    BY <1>2, <1>t, <1>k DEF CacheHit, Goto, KeyFor, EntriesAboveAnswers
  <2>3. ResultsAboveAnswers'
    BY <1>2, <1>t, <1>k, <1>q
       DEF CacheHit, Goto, KeyFor, ResultsAboveAnswers, ResultsAboveEntries
  <2>4. /\ NobodyGone' /\ ReturnedOld' /\ FloorsOld'
        /\ EntriesBetween' /\ ResultsBetween' /\ ResultsAboveEntries'
    BY <1>2, <1>t, <1>k
       DEF CacheHit, Goto, KeyFor, NobodyGone, ReturnedOld, FloorsOld,
           EntriesBetween, ResultsBetween, ResultsAboveEntries
  <2> QED
    BY <2>1, <2>2, <2>3, <2>4
<1>3. ASSUME NEW c \in Clients, CacheMiss(c) \/ Lead(c) \/ Follow(c) \/ RepoFail(c)
      PROVE  Ordered'
  <2>1. UNCHANGED <<db, cache, query, gone, seen, floor>>
    BY <1>3 DEF CacheMiss, Lead, Follow, RepoFail
  <2>2. \A d \in Clients :
          pc'[d] \in {"store", "finish", "ready"} /\ ans'[d] # Failed
            => pc'[d] = pc[d] /\ ans'[d] = ans[d]
    BY <1>3 DEF CacheMiss, Lead, Follow, RepoFail, Goto
  <2>3. NobodyGone' /\ ReturnedOld' /\ FloorsOld' /\ EntriesBetween'
    BY <2>1 DEF NobodyGone, ReturnedOld, FloorsOld, EntriesBetween
  <2>4. ResultsBetween' /\ ResultsAboveEntries'
    BY <2>1, <2>2 DEF ResultsBetween, ResultsAboveEntries, KeyFor
  <2>5. AnswersBetween' /\ EntriesAboveAnswers' /\ ResultsAboveAnswers'
    BY <2>1, <2>2
       DEF AnswersBetween, EntriesAboveAnswers, ResultsAboveAnswers, KeyFor
  <2> QED
    BY <2>3, <2>4, <2>5
<1>4. ASSUME NEW c \in Clients, RepoRead(c)
      PROVE  Ordered'
  <2>1. ResultsBetween'
    BY <1>4, <1>t, <1>k DEF RepoRead, Goto, KeyFor, ResultsBetween, ReturnedOld
  <2>2. ResultsAboveEntries'
    BY <1>4, <1>t, <1>k
       DEF RepoRead, Goto, KeyFor, ResultsAboveEntries, EntriesBetween
  <2>3. ResultsAboveAnswers'
    BY <1>4, <1>t, <1>k
       DEF RepoRead, Goto, KeyFor, ResultsAboveAnswers, AnswersBetween
  <2>4. /\ NobodyGone' /\ ReturnedOld' /\ FloorsOld'
        /\ EntriesBetween' /\ AnswersBetween' /\ EntriesAboveAnswers'
    BY <1>4, <1>t, <1>k
       DEF RepoRead, Goto, KeyFor, NobodyGone, ReturnedOld, FloorsOld,
           EntriesBetween, AnswersBetween, EntriesAboveAnswers
  <2> QED
    BY <2>1, <2>2, <2>3, <2>4
<1>5. ASSUME NEW c \in Clients, CacheSet(c)
      PROVE  Ordered'
  <2>1. cache' = [cache EXCEPT ![KeyFor(c)] = ans[c]] /\ HasResult(c) /\ ans[c].query = query[c]
    BY <1>5 DEF CacheSet, StoresResults
  <2>2. EntriesBetween'
    BY <1>5, <1>t, <1>k, <2>1 DEF CacheSet, EntriesBetween, ResultsBetween
  <2>3. ResultsAboveEntries'
    BY <1>5, <1>t, <1>k, <1>q, <1>f
       DEF CacheSet, Goto, KeyFor, ResultsAboveEntries, InFlight
  <2>4. EntriesAboveAnswers'
    BY <1>5, <1>t, <1>k, <1>q, <2>1
       DEF CacheSet, Goto, KeyFor, EntriesAboveAnswers, ResultsAboveAnswers
  <2>5. /\ NobodyGone' /\ ReturnedOld' /\ FloorsOld'
        /\ ResultsBetween' /\ AnswersBetween' /\ ResultsAboveAnswers'
    BY <1>5, <1>t, <1>k
       DEF CacheSet, Goto, KeyFor, NobodyGone, ReturnedOld, FloorsOld,
           ResultsBetween, AnswersBetween, ResultsAboveAnswers
  <2> QED
    BY <2>2, <2>3, <2>4, <2>5
<1>6. ASSUME NEW c \in Clients, FinishCall(c)
      PROVE  Ordered'
  <2>1. \A f \in Joiners(c) : f \in Clients /\ query[f] = query[c] /\ KeyFor(f) = KeyFor(c)
    <3> SUFFICES ASSUME NEW f \in Joiners(c)
                 PROVE  f \in Clients /\ query[f] = query[c]
      BY <1>q, <1>6 DEF Joiners
    <3>1. f \in Clients /\ call[Slot(f)] = c /\ Slot(f) \in Procs \X Key
      BY KeyForType DEF Joiners, Flights, WaitersJoined
    <3>2. Slot(c) = Slot(f)
      BY <3>1 DEF Flights, CallsRunning
    <3> QED
      BY <3>1, <3>2 DEF DistinctKeys, Slot, KeyFor
  <2>2. ResultsAboveEntries'
    BY <1>6, <1>t, <1>k DEF FinishCall, Joiners, KeyFor, ResultsAboveEntries
  <2>3. AnswersBetween'
    BY <1>6, <1>t, <1>k, <2>1
       DEF FinishCall, Joiners, KeyFor, AnswersBetween, FloorsOld,
           ResultsBetween
  <2>4. EntriesAboveAnswers'
    BY <1>6, <1>t, <1>k, <2>1
       DEF FinishCall, Joiners, KeyFor, EntriesAboveAnswers,
           ResultsAboveEntries
  <2>5. ResultsAboveAnswers'
    BY <1>6, <1>t, <1>k, <1>f, <2>1
       DEF FinishCall, Joiners, KeyFor, ResultsAboveAnswers, InFlight
  <2>6. /\ NobodyGone' /\ ReturnedOld' /\ FloorsOld'
        /\ EntriesBetween' /\ ResultsBetween'
    BY <1>6, <1>t, <1>k
       DEF FinishCall, Joiners, KeyFor, NobodyGone, ReturnedOld, FloorsOld,
           EntriesBetween, ResultsBetween
  <2> QED
    BY <2>2, <2>3, <2>4, <2>5, <2>6
<1>7. ASSUME NEW c \in Clients, Return(c)
      PROVE  Ordered'
  <2>1. /\ \A q \in Query : seen[q] <= seen'[q] /\ seen'[q] \in Nat
        /\ \A q \in Query : seen'[q] # seen[q] =>
             Answered(c) /\ q = query[c] /\ seen'[q] = ans[c].version
    <3>1. CASE ans[c] = Failed
      BY <1>7, <1>t, <3>1 DEF Return
    <3>2. CASE ans[c] # Failed
      <4>1. ans[c].query = query[c] /\ ans[c].version \in Nat
        BY <1>7, <1>t, <3>2 DEF Return
      <4>2. seen' = [seen EXCEPT ![query[c]] = Newer(@, ans[c].version)]
        BY <1>7, <3>2, <4>1 DEF Return
      <4> QED
        BY <1>7, <1>t, <3>2, <4>1, <4>2 DEF Return, Newer
    <3> QED
      BY <3>1, <3>2
  <2>2. ReturnedOld'
    BY <1>7, <1>t, <1>k, <2>1 DEF Return, Goto, KeyFor, ReturnedOld, AnswersBetween
  <2>3. FloorsOld'
    BY <1>7, <1>t, <1>k, <2>1 DEF Return, Goto, KeyFor, FloorsOld
  <2>4. EntriesBetween'
    BY <1>7, <1>t, <1>k, <2>1
       DEF Return, Goto, KeyFor, EntriesBetween, EntriesAboveAnswers
  <2>5. ResultsBetween'
    BY <1>7, <1>t, <1>k, <2>1
       DEF Return, Goto, KeyFor, ResultsBetween, ResultsAboveAnswers
  <2>6. /\ NobodyGone' /\ ResultsAboveEntries' /\ AnswersBetween'
        /\ EntriesAboveAnswers' /\ ResultsAboveAnswers'
    BY <1>7, <1>t, <1>k, <2>1
       DEF Return, Goto, KeyFor, NobodyGone, ResultsAboveEntries,
           AnswersBetween, EntriesAboveAnswers, ResultsAboveAnswers
  <2> QED
    BY <2>2, <2>3, <2>4, <2>5, <2>6
<1>8. ASSUME NEW p \in Procs, Crash(p)
      PROVE  Ordered'
  <2>1. /\ NobodyGone' /\ ReturnedOld' /\ FloorsOld'
        /\ EntriesBetween' /\ ResultsBetween' /\ ResultsAboveEntries'
        /\ AnswersBetween' /\ EntriesAboveAnswers' /\ ResultsAboveAnswers'
    BY <1>8, <1>t, <1>k
       DEF Crash, KeyFor, NobodyGone, ReturnedOld, FloorsOld, EntriesBetween,
           ResultsBetween, ResultsAboveEntries, AnswersBetween,
           EntriesAboveAnswers, ResultsAboveAnswers
  <2> QED
    BY <2>1
<1>9. ASSUME NEW k \in Key, Expire(k)
      PROVE  Ordered'
  <2>1. /\ NobodyGone' /\ ReturnedOld' /\ FloorsOld'
        /\ EntriesBetween' /\ ResultsBetween' /\ ResultsAboveEntries'
        /\ AnswersBetween' /\ EntriesAboveAnswers' /\ ResultsAboveAnswers'
    BY <1>9, <1>t, <1>k
       DEF Expire, KeyFor, NobodyGone, ReturnedOld, FloorsOld, EntriesBetween,
           ResultsBetween, ResultsAboveEntries, AnswersBetween,
           EntriesAboveAnswers, ResultsAboveAnswers
  <2> QED
    BY <2>1
<1>10. ASSUME NEW q \in Query, Update(q)
      PROVE  Ordered'
  <2>1. /\ NobodyGone' /\ ReturnedOld' /\ FloorsOld'
        /\ EntriesBetween' /\ ResultsBetween' /\ ResultsAboveEntries'
        /\ AnswersBetween' /\ EntriesAboveAnswers' /\ ResultsAboveAnswers'
    BY <1>10, <1>t, <1>k
       DEF Update, KeyFor, NobodyGone, ReturnedOld, FloorsOld, EntriesBetween,
           ResultsBetween, ResultsAboveEntries, AnswersBetween,
           EntriesAboveAnswers, ResultsAboveAnswers
  <2> QED
    BY <2>1
<1>11. CASE UNCHANGED vars
  BY <1>11 DEF vars, KeyFor, NobodyGone, ReturnedOld, FloorsOld, EntriesBetween,
     ResultsBetween, ResultsAboveEntries, AnswersBetween, EntriesAboveAnswers,
     ResultsAboveAnswers
<1> QED
  <2>1. \A c \in Clients : ~Disconnect(c) /\ ~CacheSetFail(c)
    BY DEF Disconnect, CacheSetFail, NobodyGone
  <2> QED
    BY <1>1, <1>2, <1>3, <1>4, <1>5, <1>6, <1>7, <1>8, <1>9, <1>10, <1>11, <2>1
       DEF Next, ReadMethod, Get, Do, Read, Store

\* With one process, healthy stores and no peer that disconnects, a request
\* that begins after another has returned is never answered with an older
\* version of the rows: neither a late store nor a shared call takes a reader
\* back.  A lost store or a second process is enough to break this.
THEOREM ReadsNeverGoBack ==
  ASSUME HealthyCache
  PROVE  Spec => []MonotonicReads
<1>1. Typed /\ Flights /\ OwnAnswers /\ Ordered /\ [Next]_vars => Ordered'
  BY OrderedStep
<1>2. Ordered => MonotonicReads
  BY DEF Ordered, AnswersBetween, Answered, MonotonicReads
<1>3. DistinctKeys
  BY DEF HealthyCache
<1> QED
  BY <1>1, <1>2, <1>3, OwnAnswersCorrect, OrderedInit, PTL DEF Spec
-------------------------------------------------------------------------------
(* Waiting clients do not pay for those that leave.                          *)

FailedLeft == \A c \in Clients : pc[c] = "finish" /\ ans[c] = Failed => c \in gone

LEMMA FailedLeftStep ==
  ASSUME "db" \notin Faults, Typed, FailedLeft, [Next]_vars
  PROVE  FailedLeft'
<1> USE DEF Typed, TypeOK, FailedLeft
<1>1. ASSUME NEW c \in Clients, ReadMethod(c)
      PROVE  FailedLeft'
  <2>1. CASE Get(c) \/ Do(c)
    BY <2>1 DEF Get, Do, CacheHit, CacheMiss, Lead, Follow, Goto
  <2>2. CASE Read(c)
    BY <2>2, ConstantsAssumption DEF Read, RepoRead, RepoFail, Goto, Answer
  <2>3. CASE Store(c)
    BY <2>3 DEF Store, CacheSet, CacheSetFail, Goto, StoresResults
  <2>4. CASE FinishCall(c)
    BY <2>4 DEF FinishCall, Joiners
  <2>5. CASE Return(c)
    BY <2>5 DEF Return, Goto
  <2> QED
    BY <1>1, <2>1, <2>2, <2>3, <2>4, <2>5 DEF ReadMethod
<1>2. ASSUME NEW c \in Clients, NEW p \in Procs, NEW q \in Query, Begin(c, p, q)
      PROVE  FailedLeft'
  BY <1>2 DEF Begin, Goto
<1>3. ASSUME NEW p \in Procs, Crash(p)
      PROVE  FailedLeft'
  BY <1>3 DEF Crash
<1>4. CASE UNCHANGED <<pc, ans>> /\ gone \subseteq gone'
  BY <1>4
<1> QED
  BY <1>1, <1>2, <1>3, <1>4 DEF Next, Disconnect, Expire, Update, vars

\* As long as the database answers, an error reaches only the client whose own
\* peer has left, and those who joined its call.
THEOREM OthersLeaveFreely ==
  ASSUME "db" \notin Faults
  PROVE  Spec => OnlyLeaderCancelFails
<1>1. Init => FailedLeft
  BY DEF Init, FailedLeft
<1>2. Typed /\ FailedLeft /\ [Next]_vars => FailedLeft'
  BY FailedLeftStep
<1> DEFINE Failing(c) ==
      pc[c] \in {"read", "wait", "finish"} /\ ans'[c] = Failed /\ pc'[c] = "ready"
<1>3. ASSUME Typed, FailedLeft, [Next]_vars, NEW c \in Clients, Failing(c)
      PROVE  (IF pc[c] = "wait" THEN joined[c] ELSE c) \in gone
  <2>1. PICK l \in Clients : FinishCall(l)
    BY <1>3 DEF Next, ReadMethod, Get, Do, Read, Store, Begin, CacheHit, CacheMiss, Lead,
        Follow, RepoRead, RepoFail, CacheSet, CacheSetFail, Return, Disconnect, Crash,
        Expire, Update, Goto, vars, Typed, TypeOK
  <2> QED
    BY <1>3, <2>1 DEF FinishCall, Joiners, FailedLeft
<1>4. Typed /\ FailedLeft /\ [Next]_vars =>
        [\A c \in Clients : Failing(c) =>
             (IF pc[c] = "wait" THEN joined[c] ELSE c) \in gone]_vars
  BY <1>3
<1> QED
  BY <1>1, <1>2, <1>4, TypedInit, TypedStep, PTL DEF Spec, OnlyLeaderCancelFails

-------------------------------------------------------------------------------
(* The service without Redis and singleflight.                               *)

\* What a step makes of the copies and of what the clients see, action by action.
LEMMA ServiceStep ==
  ASSUME DistinctKeys, Typed, Flights, OwnAnswers, [Next]_vars
  PROVE  [Service!Next]_(Service!vars)
<1> USE ConstantsAssumption DEF Typed, TypeOK
<1>k. \A c \in Clients : KeyFor(c) \in Key
  BY KeyForType
<1>1. ASSUME NEW c \in Clients, NEW p \in Procs, NEW q \in Query, Begin(c, p, q)
      PROVE  Service!Ask(c, q)
  <2>1. Asked[c] = None /\ Given[c] = None
    BY <1>1 DEF Begin, Asked, Given
  <2>2. Asked' = [Asked EXCEPT ![c] = q] /\ Given' = Given
    BY <1>1 DEF Begin, Goto, Asked, Given
  <2>3. Copies' = Copies
    BY <1>1 DEF Begin, Goto, Copies, HasResult
  <2> QED
    BY <1>1, <2>1, <2>2, <2>3 DEF Begin, Service!Ask
<1>2. ASSUME NEW c \in Clients, CacheHit(c)
      PROVE  Service!Next
  <2> DEFINE a == cache[KeyFor(c)]
  <2>1. a \in Answer /\ a \in Copies /\ a # Failed
    BY <1>2, <1>k DEF CacheHit, Copies
  <2>2. KeyOf[a.query] = KeyOf[query[c]] /\ a.query \in Query
    BY <1>2, <1>k, <2>1 DEF CacheHit, OwnAnswers, EntriesUnderOwnKey, KeyFor, Answer
  <2>3. a.query = query[c] /\ Asked[c] = query[c]
    BY <1>2, <2>2 DEF DistinctKeys, CacheHit, Asked
  <2>4. Asked' = [d \in Clients |-> IF d \in {c} THEN None ELSE Asked[d]]
    BY <1>2 DEF CacheHit, Goto, Asked
  <2>5. Given' = [d \in Clients |-> IF d \in {c} THEN a ELSE Given[d]]
    BY <1>2 DEF CacheHit, Goto, Given
  <2>6. Copies' = Copies
    BY <1>2 DEF CacheHit, Goto, Copies, HasResult
  <2>7. Service!Answer({c}, a)
    BY <1>2, <2>1, <2>3, <2>4, <2>5, <2>6 DEF CacheHit, Service!Answer
  <2> QED
    BY <2>1, <2>7 DEF Service!Next
<1>3. ASSUME NEW c \in Clients,
             CacheMiss(c) \/ Do(c) \/ RepoFail(c) \/ CacheSetFail(c) \/ Disconnect(c)
      PROVE  UNCHANGED Service!vars
  <2>1. UNCHANGED <<db, cache, query>>
    BY <1>3 DEF CacheMiss, Do, Lead, Follow, RepoFail, CacheSetFail, Disconnect
  <2>2. Asked' = Asked /\ Given' = Given
    BY <1>3 DEF CacheMiss, Do, Lead, Follow, RepoFail, CacheSetFail, Disconnect, Goto,
        Asked, Given
  <2>3. \A d \in Clients : HasResult(d)' <=> HasResult(d)
    BY <1>3 DEF CacheMiss, Do, Lead, Follow, RepoFail, CacheSetFail, Disconnect, Goto,
        HasResult
  <2>4. \A d \in Clients : HasResult(d) => ans'[d] = ans[d]
    BY <1>3 DEF CacheMiss, Do, Lead, Follow, RepoFail, CacheSetFail, Disconnect, HasResult
  <2>5. Copies' = Copies
    BY <2>1, <2>3, <2>4 DEF Copies
  <2> QED
    BY <2>1, <2>2, <2>5 DEF Service!vars
<1>4. ASSUME NEW c \in Clients, RepoRead(c)
      PROVE  Service!Fetch(query[c])
  <2> DEFINE a == [query |-> query[c], version |-> db[query[c]]]
  <2>1. a \in Answer /\ a # Failed
    BY DEF Answer
  <2>2. Asked' = Asked /\ Given' = Given /\ Asked[c] = query[c]
    BY <1>4 DEF RepoRead, Goto, Asked, Given
  <2>3. \A d \in Clients : HasResult(d)' <=> HasResult(d) \/ d = c
    BY <1>4, <2>1 DEF RepoRead, Goto, HasResult
  <2>4. ans'[c] = a /\ \A d \in Clients : HasResult(d) => ans'[d] = ans[d]
    BY <1>4 DEF RepoRead, HasResult
  <2>5. Copies' = Copies \cup {a}
    BY <1>4, <2>3, <2>4 DEF RepoRead, Copies
  <2> QED
    BY <1>4, <2>2, <2>5 DEF RepoRead, Service!Fetch
<1>5. ASSUME NEW c \in Clients, CacheSet(c)
      PROVE  Service!Leave({})
  <2>1. Asked' = Asked /\ Given' = Given
    BY <1>5 DEF CacheSet, Goto, Asked, Given
  <2>2. \A d \in Clients : HasResult(d)' <=> HasResult(d)
    BY <1>5 DEF CacheSet, Goto, HasResult
  <2>3. HasResult(c) /\ ans[c] # None
    BY <1>5 DEF CacheSet, HasResult, StoresResults
  <2>4. \A k \in Key : cache'[k] = cache[k] \/ cache'[k] = ans[c]
    BY <1>5 DEF CacheSet
  <2>5. Copies' \subseteq Copies
    BY <1>5, <2>2, <2>3, <2>4 DEF CacheSet, Copies
  <2> QED
    BY <1>5, <2>1, <2>5 DEF CacheSet, Service!Leave, Asked, Given
<1>6. ASSUME NEW c \in Clients, FinishCall(c)
      PROVE  Service!Next
  <2> DEFINE S == {c} \cup Joiners(c)
             a == ans[c]
  <2>1. S \subseteq Clients /\ \A f \in S : query[f] = query[c] /\ Asked[f] = query[c]
    <3>1. ASSUME NEW f \in Joiners(c)
          PROVE  query[f] = query[c]
      <4>1. f \in Clients /\ call[Slot(f)] = c /\ Slot(f) \in Procs \X Key
        BY KeyForType DEF Joiners, Flights, WaitersJoined
      <4>2. Slot(c) = Slot(f)
        BY <4>1 DEF Flights, CallsRunning
      <4> QED
        BY <4>1, <4>2 DEF DistinctKeys, Slot, KeyFor
    <3> QED
      BY <1>6, <3>1 DEF FinishCall, Joiners, Asked
  <2>2. a # Failed => a \in Copies /\ a.query = query[c]
    BY <1>6 DEF FinishCall, Copies, HasResult, OwnAnswers, ResultsOwn
  <2>3. Asked' = [d \in Clients |-> IF d \in S THEN None ELSE Asked[d]]
    BY <1>6 DEF FinishCall, Asked
  <2>4. Given' = [d \in Clients |-> IF d \in S THEN a ELSE Given[d]]
    BY <1>6 DEF FinishCall, Joiners, Given
  <2>5. \A d \in Clients : HasResult(d)' => HasResult(d) /\ ans'[d] = ans[d]
    BY <1>6 DEF FinishCall, HasResult
  <2>6. Copies' \subseteq Copies
    BY <1>6, <2>5 DEF FinishCall, Copies
  <2>7. \A d \in S : Asked[d] # None
    BY <2>1
  <2>8. Service!Answer(S, a)
    BY <1>6, <2>1, <2>2, <2>3, <2>4, <2>6, <2>7 DEF FinishCall, Service!Answer
  <2> QED
    BY <2>1, <2>2, <2>8 DEF Service!Next
<1>7. ASSUME NEW c \in Clients, Return(c)
      PROVE  Service!Leave({c})
  <2>1. Asked' = [d \in Clients |-> IF d \in {c} THEN None ELSE Asked[d]]
    BY <1>7 DEF Return, Goto, Asked
  <2>2. Given' = [d \in Clients |-> IF d \in {c} THEN None ELSE Given[d]]
    BY <1>7 DEF Return, Goto, Given
  <2>3. \A d \in Clients : HasResult(d)' => HasResult(d) /\ ans'[d] = ans[d]
    BY <1>7 DEF Return, Goto, HasResult
  <2>4. Copies' \subseteq Copies
    BY <1>7, <2>3 DEF Return, Copies
  <2> QED
    BY <1>7, <2>1, <2>2, <2>4 DEF Return, Service!Leave
<1>8. ASSUME NEW p \in Procs, Crash(p)
      PROVE  \E S \in SUBSET Clients : Service!Leave(S)
  <2> DEFINE Lost == {c \in Clients : pc[c] # "idle" /\ proc[c] = p}
  <2>1. Asked' = [d \in Clients |-> IF d \in Lost THEN None ELSE Asked[d]]
    BY <1>8 DEF Crash, Asked
  <2>2. Given' = [d \in Clients |-> IF d \in Lost THEN None ELSE Given[d]]
    BY <1>8 DEF Crash, Given
  <2>3. \A d \in Clients : HasResult(d)' => HasResult(d) /\ ans'[d] = ans[d]
    BY <1>8 DEF Crash, HasResult
  <2>4. Copies' \subseteq Copies
    BY <1>8, <2>3 DEF Crash, Copies
  <2>5. Service!Leave(Lost)
    BY <1>8, <2>1, <2>2, <2>4 DEF Crash, Service!Leave
  <2> QED
    BY <2>5
<1>9. ASSUME NEW k \in Key, Expire(k)
      PROVE  Service!Leave({})
  <2>1. Asked' = Asked /\ Given' = Given
    BY <1>9 DEF Expire, Asked, Given
  <2>2. Copies' \subseteq Copies
    BY <1>9 DEF Expire, Copies, HasResult
  <2> QED
    BY <1>9, <2>1, <2>2 DEF Expire, Service!Leave, Asked, Given
<1>10. ASSUME NEW q \in Query, Update(q)
       PROVE  Service!Update(q)
  BY <1>10 DEF Update, Service!Update, Copies, HasResult, Asked, Given
<1>11. CASE UNCHANGED vars
  BY <1>11 DEF vars, Service!vars, Copies, HasResult, Asked, Given
<1>l. ASSUME NEW S \in SUBSET Clients, Service!Leave(S)
      PROVE  Service!Next
  BY <1>l DEF Service!Next
<1>12. ASSUME NEW c \in Clients, ReadMethod(c) \/ Disconnect(c)
       PROVE  [Service!Next]_(Service!vars)
  <2>1. {c} \in SUBSET Clients /\ {} \in SUBSET Clients /\ query[c] \in Query
    OBVIOUS
  <2>2. RepoRead(c) => Service!Next
    BY <1>4, <2>1 DEF Service!Next
  <2>3. CacheSet(c) \/ Return(c) => Service!Next
    BY <1>5, <1>7, <1>l, <2>1
  <2> QED
    BY <1>2, <1>3, <1>6, <1>12, <2>2, <2>3 DEF ReadMethod, Get, Read, Store
<1> QED
  <2>1. ASSUME NEW c \in Clients, NEW p \in Procs, NEW q \in Query, Begin(c, p, q)
        PROVE  Service!Next
    BY <1>1, <2>1 DEF Service!Next
  <2>2. ASSUME NEW p \in Procs, Crash(p)
        PROVE  Service!Next
    BY <1>8, <1>l, <2>2
  <2>3. ASSUME NEW k \in Key, Expire(k)
        PROVE  Service!Next
    <3>1. {} \in SUBSET Clients
      OBVIOUS
    <3> QED
      BY <1>9, <1>l, <2>3, <3>1
  <2>4. ASSUME NEW q \in Query, Update(q)
        PROVE  Service!Next
    BY <1>10, <2>4 DEF Service!Next
  <2> QED
    BY <1>11, <1>12, <2>1, <2>2, <2>3, <2>4 DEF Next

\* With distinct keys, whatever fails, callers cannot tell the service from one
\* that only copies answers, hands them out and drops them.
THEOREM ReadsThrough ==
  ASSUME DistinctKeys
  PROVE  Spec => ImplementsReadThrough
<1>1. Init => Service!Init
  BY DEF Init, Service!Init, Copies, HasResult, Asked, Given
<1>2. Typed /\ Flights /\ OwnAnswers /\ [Next]_vars => [Service!Next]_(Service!vars)
  BY ServiceStep
<1> QED
  BY <1>1, <1>2, OwnAnswersCorrect, PTL DEF Spec, ImplementsReadThrough, Service!Spec

-------------------------------------------------------------------------------
(* The keys the code builds (internal/cache/cache.go:37), and when they are  *)
(* distinct: what NoCrossover and ReadsThrough assume of KeyOf is proved     *)
(* here of the key builders.                                                 *)

CONSTANT Fnv64a(_)

Keys == INSTANCE CacheKeys

\* The texts without a colon, which are one piece.
Plain(Piece) == {<<p>> : p \in Piece}

\* Requests whose category and title hold no colon.  The query of a search may:
\* its key holds the hash.
PlainRequest(Piece, Texts) ==
  Keys!KitabFilter(Plain(Piece), Piece, Piece)
    \cup [op : {"get"}, id : Piece]
    \cup Keys!KontenFilter(Piece, Piece, Piece)
    \cup Keys!SearchFilter(Texts, Plain(Piece), Piece, Piece)
    \cup [op : {"kategori"}]

\* A request without its two switches, if it has them.
Unswitched(r) ==
  IF r.op = "search" THEN [r EXCEPT !.fuzzy = FALSE, !.highlight = FALSE] ELSE r

LEMMA Join ==
  ASSUME NEW U, NEW s \in Seq(U), NEW t \in Seq(U), NEW key, key = s \o t
  PROVE  /\ key \in Seq(U) /\ Len(key) = Len(s) + Len(t)
         /\ \A i \in 1 .. Len(s) + Len(t) : key[i] = IF i <= Len(s) THEN s[i] ELSE t[i - Len(s)]
BY ConcatProperties

LEMMA ListKey ==
  ASSUME NEW f, NEW j, NEW k, f.judul = <<j>>, f.kategori = <<k>>
  PROVE  LET key == Keys!KeyListKitab(f)
         IN  Len(key) = 7 /\ key[4] = j /\ key[5] = k /\ key[6] = f.page /\ key[7] = f.limit
<1> DEFINE p == f.page
           l == f.limit
           U == {"ks", "kitab", "list", j, k, p, l}
           s0 == <<"ks", "kitab", "list">>
           tj == <<j>>
           tk == <<k>>
           tp == <<p, l>>
<1>1. /\ s0 \in Seq(U) /\ Len(s0) = 3
      /\ tj \in Seq(U) /\ Len(tj) = 1 /\ tj[1] = j
      /\ tk \in Seq(U) /\ Len(tk) = 1 /\ tk[1] = k
      /\ tp \in Seq(U) /\ Len(tp) = 2 /\ tp[1] = p /\ tp[2] = l
  OBVIOUS
<1> HIDE DEF p, l, U, s0, tj, tk, tp
<1> DEFINE s1 == s0 \o tj
           s2 == s1 \o tk
           s3 == s2 \o tp
<1> HIDE DEF s1, s2, s3
<1>2. s1 \in Seq(U) /\ Len(s1) = 4 /\ s1[4] = j
  <2>1. /\ s1 \in Seq(U) /\ Len(s1) = Len(s0) + Len(tj)
        /\ \A i \in 1 .. Len(s0) + Len(tj) :
             s1[i] = IF i <= Len(s0) THEN s0[i] ELSE tj[i - Len(s0)]
    <3>1. s0 \in Seq(U) /\ tj \in Seq(U) /\ s1 = s0 \o tj
      BY <1>1 DEF s1
    <3> QED
      BY ONLY <3>1, Join
  <2> QED
    BY <1>1, <2>1
<1>3. s2 \in Seq(U) /\ Len(s2) = 5 /\ s2[4] = j /\ s2[5] = k
  <2>1. /\ s2 \in Seq(U) /\ Len(s2) = Len(s1) + Len(tk)
        /\ \A i \in 1 .. Len(s1) + Len(tk) :
             s2[i] = IF i <= Len(s1) THEN s1[i] ELSE tk[i - Len(s1)]
    <3>1. s1 \in Seq(U) /\ tk \in Seq(U) /\ s2 = s1 \o tk
      BY <1>1, <1>2 DEF s2
    <3> QED
      BY ONLY <3>1, Join
  <2> QED
    BY <1>1, <1>2, <2>1
<1>4. Len(s3) = 7 /\ s3[4] = j /\ s3[5] = k /\ s3[6] = p /\ s3[7] = l
  <2>1. /\ s3 \in Seq(U) /\ Len(s3) = Len(s2) + Len(tp)
        /\ \A i \in 1 .. Len(s2) + Len(tp) :
             s3[i] = IF i <= Len(s2) THEN s2[i] ELSE tp[i - Len(s2)]
    <3>1. s2 \in Seq(U) /\ tp \in Seq(U) /\ s3 = s2 \o tp
      BY <1>1, <1>3 DEF s3
    <3> QED
      BY ONLY <3>1, Join
  <2> QED
    BY <1>1, <1>3, <2>1
<1> QED
  BY <1>4 DEF Keys!KeyListKitab, p, l, s0, s1, s2, s3, tj, tk, tp

LEMMA SearchKey ==
  ASSUME NEW f, NEW k, f.kategori = <<k>>
  PROVE  LET key == Keys!KeySearch(f)
         IN  /\ Len(key) = 6 /\ key[3] = Fnv64a(f.query) /\ key[4] = k
             /\ key[5] = f.page /\ key[6] = f.limit
<1> DEFINE h == Fnv64a(f.query)
           p == f.page
           l == f.limit
           U == {"ks", "search", h, k, p, l}
           s0 == <<"ks", "search", h>>
           tk == <<k>>
           tp == <<p, l>>
<1>1. /\ s0 \in Seq(U) /\ Len(s0) = 3 /\ s0[3] = h
      /\ tk \in Seq(U) /\ Len(tk) = 1 /\ tk[1] = k
      /\ tp \in Seq(U) /\ Len(tp) = 2 /\ tp[1] = p /\ tp[2] = l
  OBVIOUS
<1> HIDE DEF h, p, l, U, s0, tk, tp
<1> DEFINE s1 == s0 \o tk
           s2 == s1 \o tp
<1> HIDE DEF s1, s2
<1>2. s1 \in Seq(U) /\ Len(s1) = 4 /\ s1[3] = h /\ s1[4] = k
  <2>1. /\ s1 \in Seq(U) /\ Len(s1) = Len(s0) + Len(tk)
        /\ \A i \in 1 .. Len(s0) + Len(tk) :
             s1[i] = IF i <= Len(s0) THEN s0[i] ELSE tk[i - Len(s0)]
    <3>1. s0 \in Seq(U) /\ tk \in Seq(U) /\ s1 = s0 \o tk
      BY <1>1 DEF s1
    <3> QED
      BY ONLY <3>1, Join
  <2> QED
    BY <1>1, <2>1
<1>3. Len(s2) = 6 /\ s2[3] = h /\ s2[4] = k /\ s2[5] = p /\ s2[6] = l
  <2>1. /\ s2 \in Seq(U) /\ Len(s2) = Len(s1) + Len(tp)
        /\ \A i \in 1 .. Len(s1) + Len(tp) :
             s2[i] = IF i <= Len(s1) THEN s1[i] ELSE tp[i - Len(s1)]
    <3>1. s1 \in Seq(U) /\ tp \in Seq(U) /\ s2 = s1 \o tp
      BY <1>1, <1>2 DEF s2
    <3> QED
      BY ONLY <3>1, Join
  <2> QED
    BY <1>1, <1>2, <2>1
<1> QED
  BY <1>3 DEF Keys!KeySearch, h, p, l, s0, s1, s2, tk, tp

\* No two queries have the same hash.
NoCollision(Texts) == \A t, u \in Texts : Fnv64a(t) = Fnv64a(u) => t = u

\* The key builders leave out the two switches of a search, and nothing else of a
\* request whose texts hold no colon (internal/cache/cache.go:54).
THEOREM KeysSeparate ==
  ASSUME NEW Piece, NEW Texts, NoCollision(Texts),
         NEW r \in PlainRequest(Piece, Texts), NEW s \in PlainRequest(Piece, Texts)
  PROVE  Keys!KeyOfRequest(r) = Keys!KeyOfRequest(s) <=> Unswitched(r) = Unswitched(s)
<1> DEFINE KeyR == Keys!KeyOfRequest(r)
           KeyS == Keys!KeyOfRequest(s)
           List == Keys!KitabFilter(Plain(Piece), Piece, Piece)
           Single == [op : {"get"}, id : Piece]
           Konten == Keys!KontenFilter(Piece, Piece, Piece)
           Search == Keys!SearchFilter(Texts, Plain(Piece), Piece, Piece)
           Kategori == [op : {"kategori"}]
<1>1. ASSUME NEW q \in List
      PROVE  \E j, k, p, l \in Piece :
               /\ q = [op |-> "list", judul |-> <<j>>, kategori |-> <<k>>, page |-> p, limit |-> l]
               /\ LET key == Keys!KeyOfRequest(q)
                  IN  Len(key) = 7 /\ key[4] = j /\ key[5] = k /\ key[6] = p /\ key[7] = l
  <2>1. PICK j \in Piece, k \in Piece : q.judul = <<j>> /\ q.kategori = <<k>>
    BY DEF Plain, Keys!KitabFilter
  <2>2. PICK p \in Piece, l \in Piece :
          q = [op |-> "list", judul |-> <<j>>, kategori |-> <<k>>, page |-> p, limit |-> l]
    BY <2>1 DEF Keys!KitabFilter
  <2>3. Keys!KeyOfRequest(q) = Keys!KeyListKitab(q)
    BY <2>2 DEF Keys!KeyOfRequest
  <2>4. LET key == Keys!KeyListKitab(q)
        IN  Len(key) = 7 /\ key[4] = j /\ key[5] = k /\ key[6] = q.page /\ key[7] = q.limit
    BY <2>1, ListKey
  <2> QED
    BY <2>2, <2>3, <2>4
<1>2. ASSUME NEW q \in Search
      PROVE  /\ q.op = "search" /\ q.query \in Texts
             /\ \E k \in Piece :
                  /\ q.kategori = <<k>>
                  /\ LET key == Keys!KeyOfRequest(q)
                     IN  /\ Len(key) = 6 /\ key[3] = Fnv64a(q.query) /\ key[4] = k
                         /\ key[5] = q.page /\ key[6] = q.limit
  <2>1. PICK k \in Piece : q.kategori = <<k>>
    BY DEF Plain, Keys!SearchFilter
  <2>2. q.op = "search" /\ q.query \in Texts
    BY DEF Keys!SearchFilter
  <2>3. Keys!KeyOfRequest(q) = Keys!KeySearch(q)
    BY <2>2 DEF Keys!KeyOfRequest
  <2>4. LET key == Keys!KeySearch(q)
        IN  /\ Len(key) = 6 /\ key[3] = Fnv64a(q.query) /\ key[4] = k
            /\ key[5] = q.page /\ key[6] = q.limit
    BY <2>1, SearchKey
  <2> QED
    BY <2>1, <2>2, <2>3, <2>4
<1>3. ASSUME NEW q \in Konten
      PROVE  /\ q = [op |-> "konten", kitabID |-> q.kitabID, page |-> q.page, limit |-> q.limit]
             /\ Keys!KeyOfRequest(q) = <<"ks", "konten", q.kitabID, q.page, q.limit>>
  BY DEF Keys!KeyOfRequest, Keys!KeyKonten, Keys!KontenFilter
<1>4. ASSUME NEW q \in Single
      PROVE  q = [op |-> "get", id |-> q.id] /\ Keys!KeyOfRequest(q) = <<"ks", "kitab", q.id>>
  BY DEF Keys!KeyOfRequest, Keys!KeyGetKitab
<1>5. ASSUME NEW q \in Kategori
      PROVE  q = [op |-> "kategori"] /\ Keys!KeyOfRequest(q) = <<"ks", "kategori">>
  BY DEF Keys!KeyOfRequest, Keys!KeyKategori
<1>6. /\ \A q \in List : Len(Keys!KeyOfRequest(q)) = 7 /\ q.op = "list"
      /\ \A q \in Search : Len(Keys!KeyOfRequest(q)) = 6 /\ q.op = "search"
      /\ \A q \in Konten : Len(Keys!KeyOfRequest(q)) = 5 /\ q.op = "konten"
      /\ \A q \in Single : Len(Keys!KeyOfRequest(q)) = 3 /\ q.op = "get"
      /\ \A q \in Kategori : Len(Keys!KeyOfRequest(q)) = 2 /\ q.op = "kategori"
  <2>1. \A q \in List : Len(Keys!KeyOfRequest(q)) = 7 /\ q.op = "list"
    BY <1>1
  <2>2. \A q \in Search : Len(Keys!KeyOfRequest(q)) = 6 /\ q.op = "search"
    BY <1>2
  <2>3. \A q \in Konten : Len(Keys!KeyOfRequest(q)) = 5 /\ q.op = "konten"
    BY <1>3
  <2>4. \A q \in Single : Len(Keys!KeyOfRequest(q)) = 3 /\ q.op = "get"
    BY <1>4
  <2>5. \A q \in Kategori : Len(Keys!KeyOfRequest(q)) = 2 /\ q.op = "kategori"
    BY <1>5
  <2> QED
    BY <2>1, <2>2, <2>3, <2>4, <2>5
<1>7. r \in List \cup Single \cup Konten \cup Search \cup Kategori
      /\ s \in List \cup Single \cup Konten \cup Search \cup Kategori
  BY DEF PlainRequest
<1>8. CASE r.op # s.op
  <2>1. KeyR # KeyS
    BY <1>6, <1>7, <1>8
  <2>2. Unswitched(r).op = r.op /\ Unswitched(s).op = s.op
    BY <1>1, <1>2, <1>3, <1>4, <1>5, <1>7 DEF Unswitched
  <2> QED
    BY <1>8, <2>1, <2>2
<1>9. CASE r \in List /\ s \in List
  BY <1>1, <1>9 DEF Unswitched
<1>10. CASE r \in Search /\ s \in Search
  <2>1. PICK k \in Piece :
          /\ r.op = "search" /\ r.query \in Texts /\ r.kategori = <<k>>
          /\ Len(KeyR) = 6 /\ KeyR[3] = Fnv64a(r.query) /\ KeyR[4] = k
          /\ KeyR[5] = r.page /\ KeyR[6] = r.limit
    BY <1>2, <1>10
  <2>2. PICK m \in Piece :
          /\ s.op = "search" /\ s.query \in Texts /\ s.kategori = <<m>>
          /\ Len(KeyS) = 6 /\ KeyS[3] = Fnv64a(s.query) /\ KeyS[4] = m
          /\ KeyS[5] = s.page /\ KeyS[6] = s.limit
    BY <1>2, <1>10
  <2> DEFINE Alike == /\ r.query = s.query /\ r.kategori = s.kategori
                      /\ r.page = s.page /\ r.limit = s.limit
  <2>3. KeyR = KeyS => Alike
    <3> HIDE DEF KeyR, KeyS
    <3> QED
      BY <2>1, <2>2 DEF NoCollision
  <2>4. Alike => KeyR = KeyS
    BY <2>1, <2>2 DEF Keys!KeyOfRequest, Keys!KeySearch
  <2>5. Unswitched(r) = Unswitched(s) <=> Alike
    BY <1>10 DEF Unswitched, Keys!SearchFilter
  <2> QED
    BY <2>3, <2>4, <2>5
<1>11. CASE r \in Konten /\ s \in Konten
  BY <1>3, <1>11 DEF Unswitched
<1>12. CASE r \in Single /\ s \in Single
  BY <1>4, <1>12 DEF Unswitched
<1>13. CASE r \in Kategori /\ s \in Kategori
  BY <1>5, <1>13 DEF Unswitched
<1> QED
  BY <1>6, <1>7, <1>8, <1>9, <1>10, <1>11, <1>12, <1>13

\* Every search sets the two switches alike.
SwitchesAgree ==
  \A r, s \in Query :
    r.op = "search" /\ s.op = "search" => r.fuzzy = s.fuzzy /\ r.highlight = s.highlight

LEMMA PlainKeysDistinct ==
  ASSUME NEW Piece, NEW Texts, NoCollision(Texts), Query \subseteq PlainRequest(Piece, Texts),
         SwitchesAgree, \A r \in Query : KeyOf[r] = Keys!KeyOfRequest(r)
  PROVE  DistinctKeys
<1> SUFFICES ASSUME NEW r \in Query, NEW s \in Query, KeyOf[r] = KeyOf[s]
             PROVE  r = s
  BY DEF DistinctKeys
<1>1. r \in PlainRequest(Piece, Texts) /\ s \in PlainRequest(Piece, Texts)
  OBVIOUS
<1>2. Keys!KeyOfRequest(r) = Keys!KeyOfRequest(s)
  OBVIOUS
<1>3. Unswitched(r) = Unswitched(s)
  BY <1>1, <1>2, KeysSeparate
<1>4. CASE r.op = "search" /\ s.op = "search"
  <2>1. r.fuzzy = s.fuzzy /\ r.highlight = s.highlight
    BY <1>4 DEF SwitchesAgree
  <2>2. /\ r \in Keys!SearchFilter(Texts, Plain(Piece), Piece, Piece)
        /\ s \in Keys!SearchFilter(Texts, Plain(Piece), Piece, Piece)
    BY <1>1, <1>4 DEF PlainRequest, Keys!KitabFilter, Keys!KontenFilter
  <2>3. /\ r.query = s.query /\ r.kategori = s.kategori
        /\ r.page = s.page /\ r.limit = s.limit
    BY <1>3, <2>2 DEF Unswitched, Keys!SearchFilter
  <2> QED
    BY <2>1, <2>2, <2>3 DEF Keys!SearchFilter
<1>5. CASE r.op # "search" /\ s.op # "search"
  BY <1>3, <1>5 DEF Unswitched
<1>6. (r.op = "search") = (s.op = "search")
  BY <1>1, <1>3
     DEF Unswitched, PlainRequest, Keys!KitabFilter, Keys!KontenFilter, Keys!SearchFilter
<1> QED
  BY <1>4, <1>5, <1>6

\* With the keys the code builds, callers whose texts hold no colon, whose
\* queries do not collide and whose searches set the switches alike are
\* answered with their own rows, and the service implements read-through.
THEOREM PlainRequestsReadThrough ==
  ASSUME NEW Piece, NEW Texts, NoCollision(Texts), Query \subseteq PlainRequest(Piece, Texts),
         SwitchesAgree, \A r \in Query : KeyOf[r] = Keys!KeyOfRequest(r)
  PROVE  /\ Spec => []AnswersOwnQuery
         /\ Spec => ImplementsReadThrough
<1>1. DistinctKeys
  BY PlainKeysDistinct
<1>2. Spec => []AnswersOwnQuery
  BY <1>1, NoCrossover
<1>3. Spec => ImplementsReadThrough
  BY <1>1, ReadsThrough
<1> QED
  BY <1>2, <1>3

\* With the keys the code builds, one process, stores that succeed and clients
\* that stay, such callers never get an older answer than one already returned.
THEOREM PlainReadsNeverGoBack ==
  ASSUME NEW Piece, NEW Texts, NoCollision(Texts), Query \subseteq PlainRequest(Piece, Texts),
         SwitchesAgree, \A r \in Query : KeyOf[r] = Keys!KeyOfRequest(r),
         \A p, o \in Procs : p = o, Faults \cap {"set", "disconnect"} = {}
  PROVE  Spec => []MonotonicReads
<1>1. DistinctKeys
  BY PlainKeysDistinct
<1>2. HealthyCache
  BY <1>1 DEF HealthyCache
<1> QED
  BY <1>2, ReadsNeverGoBack
===============================================================================
