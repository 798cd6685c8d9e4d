-------------------------- MODULE RequestPath_proofs --------------------------
(***************************************************************************)
(* For any number of requests: the middleware and the response helpers     *)
(* leave the lifecycle of the process as it is, responses are not mixed    *)
(* although buffers are shared, and the log says what was sent.            *)
(***************************************************************************)
EXTENDS RequestPath, ServerLifecycle_proofs

LEMMA StepRefines == [PathNext]_allVars => [Next]_vars
<1> SUFFICES ASSUME [PathNext]_allVars PROVE [Next]_vars
  OBVIOUS
<1>1. ASSUME NEW r \in Requests, Rest(r) PROVE Next
  BY <1>1 DEF Rest, Next
<1>2. ASSUME NEW r \in Requests, Response(r) PROVE Next \/ UNCHANGED vars
  BY <1>2 DEF Response, Encode, EncodeFail, Send, Release, Panic, LeaveHandler, StaticRoute,
              Log, InHandler, Next
<1>3. QED
  BY <1>1, <1>2 DEF PathNext, Next, allVars

\* The process behaves as ServerLifecycle says.
THEOREM Refinement == PathSpec => ImplementsLifecycle
<1>1. PathInit => Init
  BY DEF PathInit
<1>2. QED
  BY <1>1, StepRefines, PTL DEF PathSpec, Spec, ImplementsLifecycle

-------------------------------------------------------------------------------

ResponseTypeOK ==
  /\ stage \in [Requests -> {"handler", "encoded", "sent", "done"}]
  /\ chosen \in [Requests -> Statuses \cup {NoStatus}]
  /\ head \in [Requests -> Statuses \cup {NoStatus}]
  /\ body \in [Requests -> SUBSET (Requests \cup {"error", "static"})]
  /\ code \in [Requests -> Statuses]
  /\ written \in [Requests -> BOOLEAN]
  /\ logged \in [Requests -> Statuses \cup {NoStatus}]

\* Nobody shares a buffer, and those that are free, or not made yet, are empty.
Buffers ==
  /\ buf \in [Requests -> Requests \cup {None}]
  /\ content \in [Requests -> SUBSET Requests]
  /\ free \subseteq Requests
  /\ \A r \in Requests : buf[r] # None <=> stage[r] \in {"encoded", "sent"}
  /\ \A r, s \in Requests : buf[r] = buf[s] /\ buf[r] # None => r = s
  /\ \A r \in Requests : buf[r] \notin free
  /\ \A b \in free : content[b] = {}
  /\ \A r \in Requests : stage[r] = "encoded" => content[buf[r]] = {r}
  /\ \A r \in Requests : stage[r] = "handler" =>
       content[r] = {} /\ r \notin free /\ \A s \in Requests : buf[s] # r

\* Nothing is sent before writeJSON, or whatever stands for it, and one status
\* after it, which is the one Logger remembers.
Sent ==
  \A r \in Requests :
    /\ stage[r] \in {"handler", "encoded"} =>
         head[r] = NoStatus /\ body[r] = {} /\ ~written[r] /\ code[r] = 200
    /\ stage[r] = "encoded" => chosen[r] \in Statuses
    /\ stage[r] \in {"sent", "done"} => head[r] \in Statuses /\ code[r] = head[r]

\* The handler of a request is where its response is.
Places ==
  \A r \in Requests :
    /\ command # "api" => stage[r] = "handler"
    /\ req[r] \in {"none", "handler", "query", "set"} => stage[r] = "handler"
    /\ command = "api" /\ req[r] = "answered" => stage[r] = "done"

PInv == ResponseTypeOK /\ Buffers /\ Sent /\ Places /\ BodyIsOwn /\ AnsweredIsLogged

LEMMA InitPInv == PathInit => PInv
BY StatusAssumption, ConstantsAssumption
   DEF PathInit, Init, PInv, ResponseTypeOK, Buffers, Sent, Places, BodyIsOwn, AnsweredIsLogged,
       NoStatus

LEMMA EncodeKeeps == ASSUME PInv, TypeOK, NEW r \in Requests, Encode(r) PROVE PInv'
<1> USE StatusAssumption, ConstantsAssumption DEF PInv, NoStatus
<1>1. ResponseTypeOK'
  BY DEF ResponseTypeOK, Encode, GetBuffer, InHandler, vars, program, Running
<1>2. Buffers'
  BY DEF Buffers, Encode, GetBuffer, ResponseTypeOK, InHandler, vars, program, Running
<1>3. Sent'
  BY DEF Sent, ResponseTypeOK, Places, Encode, GetBuffer, InHandler, vars, program, Running
<1>4. Places'
  BY DEF Places, TypeOK, ResponseTypeOK, Encode, GetBuffer, InHandler, vars, program, Running
<1>5. BodyIsOwn'
  BY DEF BodyIsOwn, Sent, Buffers, ResponseTypeOK, Encode, GetBuffer, InHandler, vars, program, Running
<1>6. AnsweredIsLogged'
  BY DEF AnsweredIsLogged, Places, Sent, ResponseTypeOK, Encode, GetBuffer, InHandler, vars, program, Running
<1>7. QED
  BY <1>1, <1>2, <1>3, <1>4, <1>5, <1>6

LEMMA EncodeFailKeeps == ASSUME PInv, TypeOK, NEW r \in Requests, EncodeFail(r) PROVE PInv'
<1> USE StatusAssumption, ConstantsAssumption DEF PInv, NoStatus
<1>1. ResponseTypeOK'
  BY DEF ResponseTypeOK, EncodeFail, GetBuffer, HttpError, WriteHeader, Write, InHandler, vars, program, Running
<1>2. Buffers'
  BY DEF Buffers, EncodeFail, GetBuffer, ResponseTypeOK, InHandler, vars, program, Running
<1>3. Sent'
  BY DEF Sent, ResponseTypeOK, Places, EncodeFail, GetBuffer, HttpError, WriteHeader, Write, InHandler, vars, program, Running
<1>4. Places'
  BY DEF Places, TypeOK, ResponseTypeOK, EncodeFail, GetBuffer, HttpError, WriteHeader, Write, InHandler, vars, program, Running
<1>5. BodyIsOwn'
  BY DEF BodyIsOwn, Sent, Buffers, ResponseTypeOK, EncodeFail, GetBuffer, HttpError, WriteHeader, Write, InHandler, vars, program, Running
<1>6. AnsweredIsLogged'
  BY DEF AnsweredIsLogged, Places, Sent, ResponseTypeOK, EncodeFail, GetBuffer, HttpError, WriteHeader, Write, InHandler, vars, program, Running
<1>7. QED
  BY <1>1, <1>2, <1>3, <1>4, <1>5, <1>6

LEMMA SendKeeps == ASSUME PInv, TypeOK, NEW r \in Requests, Send(r) PROVE PInv'
<1> USE StatusAssumption, ConstantsAssumption DEF PInv, NoStatus
<1>1. ResponseTypeOK'
  <2>1. content[buf[r]] \subseteq Requests /\ chosen[r] \in Statuses
    BY DEF Buffers, Sent, Send, InHandler
  <2>2. QED
    BY <2>1 DEF ResponseTypeOK, Send, WriteHeader, Write, buffers, InHandler, vars, program, Running
<1>2. Buffers'
  BY DEF Buffers, Send, buffers, ResponseTypeOK, InHandler, vars, program, Running
<1>3. Sent'
  BY DEF Sent, ResponseTypeOK, Places, Send, WriteHeader, Write, buffers, InHandler, vars, program, Running
<1>4. Places'
  BY DEF Places, TypeOK, ResponseTypeOK, Send, WriteHeader, Write, buffers, InHandler, vars, program, Running
<1>5. BodyIsOwn'
  BY DEF BodyIsOwn, Sent, Buffers, ResponseTypeOK, Send, WriteHeader, Write, buffers, InHandler, vars, program, Running
<1>6. AnsweredIsLogged'
  BY DEF AnsweredIsLogged, Places, Sent, ResponseTypeOK, Send, WriteHeader, Write, buffers, InHandler, vars, program, Running
<1>7. QED
  BY <1>1, <1>2, <1>3, <1>4, <1>5, <1>6

LEMMA ReleaseKeeps == ASSUME PInv, TypeOK, NEW r \in Requests, Release(r) PROVE PInv'
<1> USE StatusAssumption, ConstantsAssumption DEF PInv, NoStatus
<1>1. ResponseTypeOK'
  BY DEF ResponseTypeOK, Release, InHandler, vars, program, Running
<1>2. Buffers'
  BY DEF Buffers, Release, ResponseTypeOK, InHandler, vars, program, Running
<1>3. Sent'
  BY DEF Sent, ResponseTypeOK, Places, Release, InHandler, vars, program, Running
<1>4. Places'
  BY DEF Places, TypeOK, ResponseTypeOK, Release, InHandler, vars, program, Running
<1>5. BodyIsOwn'
  BY DEF BodyIsOwn, Sent, Buffers, ResponseTypeOK, Release, InHandler, vars, program, Running
<1>6. AnsweredIsLogged'
  BY DEF AnsweredIsLogged, Places, Sent, ResponseTypeOK, Release, InHandler, vars, program, Running
<1>7. QED
  BY <1>1, <1>2, <1>3, <1>4, <1>5, <1>6

LEMMA PanicKeeps == ASSUME PInv, TypeOK, NEW r \in Requests, Panic(r) PROVE PInv'
<1> USE StatusAssumption, ConstantsAssumption DEF PInv, NoStatus
<1>0. /\ stage[r] = "handler" /\ head[r] = NoStatus /\ body[r] = {}
      /\ ~written[r] /\ code[r] = 200
  BY DEF Places, Sent, Panic, LeaveHandler, Skip, Move, InHandler
<1>1. ResponseTypeOK'
  BY <1>0 DEF ResponseTypeOK, Panic, LeaveHandler, Skip, Move, HttpError, WriteHeader, Write, buffers, InHandler, vars, program, Running
<1>2. Buffers'
  BY DEF Buffers, Panic, LeaveHandler, Skip, Move, Places, buffers, ResponseTypeOK, InHandler, vars, program, Running
<1>3. Sent'
  BY <1>0 DEF Sent, ResponseTypeOK, Places, Panic, LeaveHandler, Skip, Move, HttpError, WriteHeader, Write, buffers, InHandler, vars, program, Running
<1>4. Places'
  BY <1>0 DEF Places, TypeOK, ResponseTypeOK, Panic, LeaveHandler, Skip, Move, HttpError, WriteHeader, Write, buffers, InHandler, vars, program, Running
<1>5. BodyIsOwn'
  BY <1>0 DEF BodyIsOwn, Sent, Buffers, ResponseTypeOK, Panic, LeaveHandler, Skip, Move, HttpError, WriteHeader, Write, buffers, InHandler, vars, program, Running
<1>6. AnsweredIsLogged'
  <2>1. command' = command /\ logged' = logged
    BY DEF Panic, LeaveHandler, Skip, Move, InHandler, vars, program
  <2>2. ASSUME NEW s \in Requests, req'[s] = "answered"
        PROVE  s # r /\ req[s] = "answered"
    BY <2>2 DEF Panic, LeaveHandler, Skip, Move, InHandler, vars, TypeOK
  <2>3. \A s \in Requests : s # r => head'[s] = head[s]
    BY DEF Panic, HttpError, WriteHeader, ResponseTypeOK
  <2>4. QED
    BY <2>1, <2>2, <2>3 DEF AnsweredIsLogged
<1>7. QED
  BY <1>1, <1>2, <1>3, <1>4, <1>5, <1>6

LEMMA StaticRouteKeeps == ASSUME PInv, TypeOK, NEW r \in Requests, StaticRoute(r) PROVE PInv'
<1> USE StatusAssumption, ConstantsAssumption DEF PInv, NoStatus
<1>0. /\ stage[r] = "handler" /\ head[r] = NoStatus /\ body[r] = {}
      /\ ~written[r] /\ code[r] = 200
  BY DEF Places, Sent, StaticRoute, Skip, Move
<1>1. ResponseTypeOK'
  <2>1. CASE WriteHeader(r, 200)
    BY <1>0, <2>1 DEF ResponseTypeOK, StaticRoute, WriteHeader, Write
  <2>2. CASE head' = [head EXCEPT ![r] = 200] /\ UNCHANGED <<code, written>>
    BY <1>0, <2>2 DEF ResponseTypeOK, StaticRoute, Write
  <2>3. QED
    BY <2>1, <2>2 DEF StaticRoute
<1>2. Buffers'
  BY DEF Buffers, StaticRoute, Skip, Move, Places, buffers, ResponseTypeOK, vars, program, Running
<1>3. Sent'
  BY <1>0 DEF Sent, ResponseTypeOK, Places, StaticRoute, Skip, Move, WriteHeader, Write, buffers, vars, program, Running
<1>4. Places'
  BY <1>0 DEF Places, TypeOK, ResponseTypeOK, StaticRoute, Skip, Move, WriteHeader, Write, buffers, vars, program, Running
<1>5. BodyIsOwn'
  BY <1>0 DEF BodyIsOwn, Sent, Buffers, ResponseTypeOK, StaticRoute, Skip, Move, WriteHeader, Write, buffers, vars, program, Running
<1>6. AnsweredIsLogged'
  BY <1>0 DEF AnsweredIsLogged, Places, Sent, ResponseTypeOK, StaticRoute, Skip, Move, WriteHeader, Write, buffers, vars, program, Running
<1>7. QED
  BY <1>1, <1>2, <1>3, <1>4, <1>5, <1>6

LEMMA LogKeeps == ASSUME PInv, TypeOK, NEW r \in Requests, Log(r) PROVE PInv'
<1> USE StatusAssumption, ConstantsAssumption DEF PInv, NoStatus
<1>1. ResponseTypeOK'
  BY DEF ResponseTypeOK, Log, Respond, Move, buffers, vars, program, Running
<1>2. Buffers'
  BY DEF Buffers, Log, buffers, vars, program, Running
<1>3. Sent'
  BY DEF Sent, ResponseTypeOK, Places, Log, Respond, Move, buffers, vars, program, Running
<1>4. Places'
  BY DEF Places, TypeOK, ResponseTypeOK, Log, Respond, Move, buffers, vars, program, Running
<1>5. BodyIsOwn'
  BY DEF BodyIsOwn, Sent, Buffers, ResponseTypeOK, Log, Respond, Move, buffers, vars, program, Running
<1>6. AnsweredIsLogged'
  BY DEF AnsweredIsLogged, Places, Sent, ResponseTypeOK, Log, Respond, Move, buffers, vars, program, Running
<1>7. QED
  BY <1>1, <1>2, <1>3, <1>4, <1>5, <1>6
LEMMA StepPInv == PInv /\ TypeOK /\ [PathNext]_allVars => PInv'
<1> SUFFICES ASSUME PInv, TypeOK, [PathNext]_allVars PROVE PInv'
  OBVIOUS
<1>1. ASSUME NEW r \in Requests, Response(r) PROVE PInv'
  BY <1>1, EncodeKeeps, EncodeFailKeeps, SendKeeps, ReleaseKeeps, PanicKeeps, StaticRouteKeeps,
     LogKeeps DEF Response
\* The rest leaves the responses alone: what is left is where the requests are.
<1>2. ASSUME UNCHANGED path, command' = command,
             \A s \in Requests :
               /\ req'[s] \in {"none", "handler", "query", "set"} =>
                    req[s] \in {"none", "handler", "query", "set"}
               /\ command = "api" /\ req'[s] = "answered" => req[s] = "answered"
      PROVE  PInv'
  BY <1>2 DEF PInv, ResponseTypeOK, Buffers, Sent, Places, BodyIsOwn, AnsweredIsLogged,
              path, response, buffers
<1>3. CASE Process /\ UNCHANGED path
  <2>1. req' = req /\ command' = command
    BY <1>3 DEF Process, Run, Startup, LoadConfig, OpenPool, Ping, OpenRedis, MakeRepository,
                Pass, Fail, Transport, StdioCancelled, TransportEnds, Go, BeginShutdown,
                ShutdownDone, ShutdownTimeout, CloseRedis, ClosePool, Exit, Signal, Killed,
                Listen, ListenFail, program
  <2>2. QED
    BY <1>2, <1>3, <2>1
<1>4. CASE UNCHANGED allVars \/ (Terminating /\ UNCHANGED path)
  BY <1>2, <1>4 DEF allVars, vars, program, Terminating
<1>5. ASSUME NEW r \in Requests,
             Accept(r) \/ QueryDone(r) \/ Query(r) \/ Skip(r) \/ Set(r)
               \/ (command # "api" /\ Respond(r)),
             UNCHANGED path
      PROVE  PInv'
  BY <1>2, <1>5 DEF Accept, QueryDone, Query, Skip, Set, Respond, Move, program, TypeOK
<1>6. QED
  BY <1>1, <1>3, <1>4, <1>5 DEF PathNext, Rest

LEMMA PathInductive == PathSpec => [](PInv /\ TypeOK)
<1>1. PathSpec => []TypeOK
  BY Refinement, TypeCorrect, PTL DEF ImplementsLifecycle
<1>2. QED
  BY <1>1, InitPInv, StepPInv, PTL DEF PathSpec

\* Every variable keeps its type.
THEOREM PathTypeCorrect == PathSpec => []PathTypeOK
<1>1. PInv /\ TypeOK => PathTypeOK
  BY DEF PInv, ResponseTypeOK, Buffers, PathTypeOK
<1>2. QED
  BY <1>1, PathInductive, PTL

\* A response holds no text of another request.
THEOREM ResponsesUnmixed == PathSpec => []BodyIsOwn
<1>1. PInv /\ TypeOK => BodyIsOwn
  BY DEF PInv
<1>2. QED
  BY <1>1, PathInductive, PTL

\* Every answer of the API is in the log, with its status.
THEOREM AnswersLogged == PathSpec => []AnsweredIsLogged
<1>1. PInv /\ TypeOK => AnsweredIsLogged
  BY DEF PInv
<1>2. QED
  BY <1>1, PathInductive, PTL

\* What is proved of the lifecycle holds with the middleware in place.
THEOREM PathGracefulExit == PathSpec => [](GracefulMeansAnswered /\ ClosedOnReturn)
BY Refinement, GracefulExit, ReturnsClosed, PTL DEF ImplementsLifecycle
===============================================================================
