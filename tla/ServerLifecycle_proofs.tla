------------------------ MODULE ServerLifecycle_proofs ------------------------
(***************************************************************************)
(* For any number of requests and any environments: an API that ends with  *)
(* code 0 has answered every request it accepted, and run() returns with   *)
(* nothing left open.                                                      *)
(***************************************************************************)
EXTENDS ServerLifecycle, TLAPS

\* Once the API drains, its listener is closed, so that nothing is accepted any
\* more; and run() returns nil only after it has seen the server idle.
Drained ==
  command = "api" =>
    /\ main \in {"draining"} \cup Ending /\ result # "error" => listener = "closed"
    /\ result = "ok" => listener = "closed" /\ Idle

\* What is open at the places of run() that rely on it: nothing before the pool,
\* the pool when Redis comes, and always what is still to be closed.
Opened ==
  /\ main \in {"config", "pool", "return"} => open = {}
  /\ main \in {"ping", "redis"} => "pool" \in open
  /\ main \in {"ping", "redis", "closePool"} => "redis" \notin open

IInv == TypeOK /\ Drained /\ Opened /\ ClosedOnReturn

LEMMA InitIInv == Init => IInv
<1> SUFFICES ASSUME Init PROVE IInv
  OBVIOUS
<1>1. asked \in BOOLEAN
  BY Zenon DEF Init
<1>2. QED
  BY <1>1, ConstantsAssumption
     DEF Init, IInv, TypeOK, Drained, Opened, ClosedOnReturn, Mains, Boot, Ending,
         Active, Results

\* Steps of run() before its server.
LEMMA PassFail ==
  ASSUME IInv, Startup \/ (Fail("transport", "closeRedis") /\ command = "other")
  PROVE  IInv'
<1> USE ConstantsAssumption
    DEF IInv, TypeOK, Drained, Opened, ClosedOnReturn, Mains, Boot, Ending, Active,
        Results, Idle, Pass, Fail, program
<1>1. CASE LoadConfig
  BY <1>1 DEF LoadConfig
<1>2. CASE OpenPool
  BY <1>2 DEF OpenPool
<1>3. CASE Ping
  BY <1>3 DEF Ping
<1>4. CASE OpenRedis
  BY <1>4 DEF OpenRedis
<1>5. CASE MakeRepository
  BY <1>5 DEF MakeRepository
<1>6. QED
  BY <1>1, <1>2, <1>3, <1>4, <1>5 DEF Startup

LEMMA NextIInv == IInv /\ [Next]_vars => IInv'
<1> SUFFICES ASSUME IInv, [Next]_vars PROVE IInv'
  OBVIOUS
<1>1. CASE Startup
  BY <1>1, PassFail
<1> USE ConstantsAssumption
    DEF IInv, TypeOK, Drained, Opened, ClosedOnReturn, Mains, Boot, Ending, Active,
        Results, Idle, program
<1>2. CASE Transport
  <2>1. CASE Fail("transport", "closeRedis") /\ command = "other"
    BY <2>1, PassFail
  <2>2. QED
    BY <1>2, <2>1 DEF Transport
<1>3. ASSUME NEW how \in {"ok", "error"}, TransportEnds(how) PROVE IInv'
  BY <1>3 DEF TransportEnds
<1>4. CASE StdioCancelled
  BY <1>3, <1>4 DEF StdioCancelled
<1>5. CASE Go
  BY <1>5 DEF Go
<1>6. CASE BeginShutdown
  BY <1>6 DEF BeginShutdown
<1>7. CASE ShutdownDone \/ ShutdownTimeout
  BY <1>7 DEF ShutdownDone, ShutdownTimeout
<1>8. CASE CloseRedis \/ ClosePool \/ Exit
  BY <1>8 DEF CloseRedis, ClosePool, Exit
<1>9. CASE Signal
  <2>1. asked' \in BOOLEAN
    BY <1>9, Zenon DEF Signal, Killed
  <2>2. CASE Killed
    BY <2>1, <2>2 DEF Killed
  <2>3. CASE ~Killed
    <3>1. quit' = 1 /\ UNCHANGED <<command, env, main, open, listener, result, req>>
      BY <1>9, <2>3 DEF Signal
    <3>2. QED
      BY <2>1, <3>1
  <2>4. QED
    BY <2>2, <2>3
<1>10. CASE Listen \/ ListenFail
  BY <1>10 DEF Listen, ListenFail
<1>11. ASSUME NEW r \in Requests,
              Accept(r) \/ Query(r) \/ Skip(r) \/ QueryDone(r) \/ Set(r) \/ Respond(r)
       PROVE  IInv'
  <2>1. ASSUME NEW from \in Active, NEW to \in Active \cup {"answered"}, Move(r, from, to)
        PROVE  IInv'
    BY <2>1 DEF Move
  <2>2. CASE Accept(r)
    BY <2>2 DEF Accept, Move
  <2>3. QED
    BY <1>11, <2>1, <2>2 DEF Query, Skip, QueryDone, Set, Respond
<1>12. CASE UNCHANGED vars
  BY <1>12 DEF vars
<1>13. QED
  BY <1>1, <1>2, <1>3, <1>4, <1>5, <1>6, <1>7, <1>8, <1>9, <1>10, <1>11, <1>12
  DEF Next, Process, Run, Terminating

LEMMA Inductive == Spec => []IInv
BY InitIInv, NextIInv, PTL DEF Spec

\* Code 0 means that the API has answered every request it accepted.
THEOREM GracefulExit == Spec => []GracefulMeansAnswered
<1>1. IInv => GracefulMeansAnswered
  BY DEF IInv, TypeOK, Drained, Idle, Active, GracefulMeansAnswered
<1>2. QED
  BY <1>1, Inductive, PTL

\* Whatever run() returns, and from wherever, it has closed what it had opened.
THEOREM ReturnsClosed == Spec => []ClosedOnReturn
<1>1. IInv => ClosedOnReturn
  BY DEF IInv
<1>2. QED
  BY <1>1, Inductive, PTL

\* Every variable keeps its type.
THEOREM TypeCorrect == Spec => []TypeOK
<1>1. IInv => TypeOK
  BY DEF IInv
<1>2. QED
  BY <1>1, Inductive, PTL
===============================================================================
