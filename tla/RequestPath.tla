------------------------------ MODULE RequestPath ------------------------------
(***************************************************************************)
(* The way of an API request through internal/middleware and the response  *)
(* helpers of internal/handler, put on top of the lifecycle of the process *)
(* that serves it: Logger calls Recover, which calls the handler, which    *)
(* ends in writeJSON.  The buffers of writeJSON are shared by all requests *)
(* through a sync.Pool.  The tool of the MCP server uses none of this.     *)
(***************************************************************************)
EXTENDS ServerLifecycle

\* The statuses a handler chooses from: 200, one for a refusal, and 500.
CONSTANT Statuses
ASSUME StatusAssumption == Statuses \subseteq Nat \ {0} /\ {200, 500} \subseteq Statuses

NoStatus == 0

VARIABLES
  stage,    \* "handler", "encoded", "sent", "done": where writeJSON is
  chosen,   \* the status the handler has given to writeJSON
  head,     \* the status net/http has sent, or NoStatus
  body,     \* whose text net/http has sent after it
  code,     \* rw.statusCode of Logger's responseWriter
  written,  \* its rw.written
  logged,   \* the status in the line of the log, or NoStatus
  buf,      \* the buffer of a request that is in writeJSON; one that the pool
            \* makes is named after the request that it makes it for
  content,  \* whose text is in a buffer
  free      \* the buffers in the pool

response == <<stage, chosen, head, body, code, written, logged>>
buffers == <<buf, content, free>>
path == <<response, buffers>>
allVars == <<vars, path>>

PathInit ==
  /\ Init
  /\ stage = [r \in Requests |-> "handler"]
  /\ chosen = [r \in Requests |-> NoStatus]
  /\ head = [r \in Requests |-> NoStatus]
  /\ body = [r \in Requests |-> {}]
  /\ code = [r \in Requests |-> 200]
  /\ written = [r \in Requests |-> FALSE]
  /\ logged = [r \in Requests |-> NoStatus]
  /\ buf = [r \in Requests |-> None]
  /\ content = [b \in Requests |-> {}]
  /\ free = {}

\* A step of request r inside its handler, of which the process sees nothing.
InHandler(r, from, to) ==
  /\ command = "api" /\ Running
  /\ req[r] = "respond" /\ stage[r] = from
  /\ stage' = [stage EXCEPT ![r] = to]
  /\ UNCHANGED vars

\* responseWriter.WriteHeader, and net/http after it: both keep the first.
WriteHeader(r, status) ==
  /\ code' = [code EXCEPT ![r] = IF written[r] THEN @ ELSE status]
  /\ written' = [written EXCEPT ![r] = TRUE]
  /\ head' = [head EXCEPT ![r] = IF @ = NoStatus THEN status ELSE @]

Write(r, text) == body' = [body EXCEPT ![r] = @ \cup text]

\* http.Error with a text that is the same for all requests.
HttpError(r) == WriteHeader(r, 500) /\ Write(r, {"error"})

\* jsonBufPool.Get: a buffer of the pool, whichever it likes, or a new one.
GetBuffer(r, b) == b \in free \/ b = r

\* The handler calls writeJSON or writeError, which encodes into a buffer.
Encode(r) ==
  /\ InHandler(r, "handler", "encoded")
  /\ \E b \in Requests, status \in Statuses :
       /\ GetBuffer(r, b)
       /\ buf' = [buf EXCEPT ![r] = b]
       /\ free' = free \ {b}
       /\ content' = [content EXCEPT ![b] = @ \cup {r}]
       /\ chosen' = [chosen EXCEPT ![r] = status]
  /\ UNCHANGED <<head, body, code, written, logged>>

\* json.Encoder refuses the value, and has written nothing to the buffer.
EncodeFail(r) ==
  /\ InHandler(r, "handler", "sent")
  /\ \E b \in Requests :
       /\ GetBuffer(r, b)
       /\ buf' = [buf EXCEPT ![r] = b]
       /\ free' = free \ {b}
  /\ HttpError(r)
  /\ UNCHANGED <<chosen, logged, content>>

\* The header and the bytes of the buffer.
Send(r) ==
  /\ InHandler(r, "encoded", "sent")
  /\ WriteHeader(r, chosen[r])
  /\ Write(r, content[buf[r]])
  /\ UNCHANGED <<chosen, logged, buffers>>

\* Mutant of Release: the buffer is not reset.
ReleaseUnreset(r) ==
  /\ InHandler(r, "sent", "done")
  /\ buf' = [buf EXCEPT ![r] = None]
  /\ free' = free \cup {buf[r]}
  /\ UNCHANGED <<chosen, head, body, code, written, logged, content>>

\* The deferred function of writeJSON.
Release(r) ==
  /\ InHandler(r, "sent", "done")
  /\ buf' = [buf EXCEPT ![r] = None]
  /\ content' = [content EXCEPT ![buf[r]] = {}]
  /\ free' = free \cup {buf[r]}
  /\ UNCHANGED <<chosen, head, body, code, written, logged>>

\* What ends the handler without writeJSON: before its reads, or after them.
LeaveHandler(r) ==
  \/ InHandler(r, "handler", "done")
  \/ /\ command = "api" /\ Skip(r)
     /\ stage' = [stage EXCEPT ![r] = "done"]

\* Mutant of Panic: Recover stands outside Logger, so that its answer does not
\* pass through Logger's responseWriter.
PanicOutsideLogger(r) ==
  /\ LeaveHandler(r)
  /\ head' = [head EXCEPT ![r] = 500]
  /\ Write(r, {"error"})
  /\ UNCHANGED <<chosen, code, written, logged, buffers>>

\* Mutant of Panic: without Recover net/http drops the connection.
PanicUnrecovered(r) ==
  /\ command = "api" /\ Move(r, "handler", "answered")
  /\ UNCHANGED path

\* The handler, or the shared call it waits for, panics, and Recover answers.
Panic(r) ==
  /\ LeaveHandler(r)
  /\ HttpError(r)
  /\ UNCHANGED <<chosen, logged, buffers>>

\* /health, /docs and /docs/openapi.yaml: the first sets its status, the others
\* leave it to the first Write.
StaticRoute(r) ==
  /\ command = "api" /\ Skip(r)
  /\ stage' = [stage EXCEPT ![r] = "done"]
  /\ \/ WriteHeader(r, 200)
     \/ head' = [head EXCEPT ![r] = 200] /\ UNCHANGED <<code, written>>
  /\ Write(r, {"static"})
  /\ UNCHANGED <<chosen, logged, buffers>>

\* Logger writes its line when everything inside has returned.
Log(r) ==
  /\ command = "api" /\ stage[r] = "done"
  /\ Respond(r)
  /\ logged' = [logged EXCEPT ![r] = code[r]]
  /\ UNCHANGED <<stage, chosen, head, body, code, written, buffers>>

Response(r) ==
  \/ Encode(r) \/ EncodeFail(r) \/ Send(r) \/ Release(r)
  \/ Panic(r) \/ StaticRoute(r) \/ Log(r)

\* The reads of the handler, and the requests of the tool.
Rest(r) ==
  /\ \/ Query(r) \/ Skip(r) \/ Set(r)
     \/ command # "api" /\ Respond(r)
  /\ UNCHANGED path

PathNext ==
  \/ (Process \/ Terminating) /\ UNCHANGED path
  \/ \E r \in Requests :
       \/ (Accept(r) \/ QueryDone(r)) /\ UNCHANGED path
       \/ Rest(r) \/ Response(r)

PathSpec == PathInit /\ [][PathNext]_allVars

\* run() and the handlers go on whenever they can, timers fire, and PostgreSQL
\* answers every query: pool.Close has no timeout of its own.
FairSpec ==
  /\ PathSpec
  /\ WF_allVars(Run /\ UNCHANGED path)
  /\ \A r \in Requests :
       /\ WF_allVars(Rest(r) \/ Response(r))
       /\ WF_allVars(QueryDone(r) /\ UNCHANGED path)

-------------------------------------------------------------------------------

\* Every variable keeps its type, and a request holds a buffer exactly while it
\* is in writeJSON.
PathTypeOK ==
  /\ TypeOK
  /\ stage \in [Requests -> {"handler", "encoded", "sent", "done"}]
  /\ chosen \in [Requests -> Statuses \cup {NoStatus}]
  /\ head \in [Requests -> Statuses \cup {NoStatus}]
  /\ body \in [Requests -> SUBSET (Requests \cup {"error", "static"})]
  /\ code \in [Requests -> Statuses]
  /\ written \in [Requests -> BOOLEAN]
  /\ logged \in [Requests -> Statuses \cup {NoStatus}]
  /\ buf \in [Requests -> Requests \cup {None}]
  /\ content \in [Requests -> SUBSET Requests]
  /\ free \subseteq Requests
  /\ \A r \in Requests : buf[r] # None <=> stage[r] \in {"encoded", "sent"}

\* Buffers are reused, responses never mixed: what is sent to a client is the
\* text of its own request or one that is the same for all.
BodyIsOwn ==
  \A r \in Requests : head[r] # NoStatus => body[r] \in {{r}, {"error"}, {"static"}}

\* Every request of the API that has been answered, a panic included, is in the
\* log with the status the client was sent.
AnsweredIsLogged ==
  \A r \in Requests :
    command = "api" /\ req[r] = "answered" => logged[r] # NoStatus /\ logged[r] = head[r]

\* Whatever middleware and response helpers do, the process behaves as
\* ServerLifecycle says: a panic, too, is an answer and never an end.
ImplementsLifecycle == Spec
===============================================================================
