--------------------------- MODULE ServerLifecycle ---------------------------
(***************************************************************************)
(* cmd/api/main.go and cmd/mcp/main.go: both run() functions read the      *)
(* configuration, open the pool and Redis and create a client, in the same *)
(* order and with the same deferred calls.  The API then serves in a       *)
(* goroutine of its own, waits for a signal and drains with a timeout; the *)
(* MCP server hands itself to the transport it was started with.  The      *)
(* requests are told apart by what an end of the process can interrupt: a  *)
(* database query, which holds a connection of the pool, and the write to  *)
(* Redis after it.                                                         *)
(***************************************************************************)
EXTENDS Config

CONSTANTS
  Requests,     \* one request each
  Environments, \* the environments in which a command may be started
  None          \* run() has not returned a result yet

\* cmd/api, and cmd/mcp by the value of its flag -transport.
Commands == {"api", "stdio", "http", "other"}

Results == {"ok", "error", "fatal", "killed"}

ASSUME ConstantsAssumption == None \notin Results \cup Requests

VARIABLES
  command,    \* which program runs
  env,        \* its environment
  main,       \* where run() is
  open,       \* what run() has opened and not closed
  listener,   \* the server: of ListenAndServe, or of the transport
  quit,       \* the signals waiting in the channel, of capacity 1
  result,     \* what run() returns, or how else the process ended
  req,        \* where each request is
  asked       \* history: a signal arrived when it was no longer fatal

program == <<command, env>>
vars == <<program, main, open, listener, quit, result, req, asked>>

\* In the order run() passes through them; "notified" is the API's alone and
\* "transport" the MCP server's.
Boot   == {"config", "pool", "ping", "redis", "elastic", "transport"}
Ending == {"closeRedis", "closePool", "return"}
Mains  == Boot \cup {"notified", "serving", "draining"} \cup Ending \cup {"exited"}
Active == {"handler", "query", "set", "respond"}

Init ==
  /\ command \in Commands
  /\ env \in Environments
  /\ main = "config"
  /\ open = {}
  /\ listener = "off"
  /\ quit = 0
  /\ result = None
  /\ req = [r \in Requests |-> "none"]
  /\ asked = FALSE

cfg == New(env)

-------------------------------------------------------------------------------
(* run(), up to the server.                                                  *)

Pass(from, to, opened) ==
  /\ main = from
  /\ main' = to
  /\ open' = open \cup opened
  /\ UNCHANGED <<program, listener, quit, result, req, asked>>

\* run() returns an error; the deferred calls it has reached begin at to.
Fail(from, to) ==
  /\ main = from
  /\ main' = to
  /\ result' = "error"
  /\ UNCHANGED <<program, open, listener, quit, req, asked>>

LoadConfig ==
  \/ MustEnv(env) /\ Pass("config", "pool", {})
  \/ ~MustEnv(env) /\ Fail("config", "return")

\* pgxpool connects later: it refuses only a URL or a size it cannot use.
PoolUsable == cfg.databaseURL # Garbage /\ MaxConns(cfg) >= 1

OpenPool ==
  \/ PoolUsable /\ Pass("pool", "ping", {"pool"})
  \/ ~PoolUsable /\ Fail("pool", "return")

\* Mutant of Ping: the pool is closed by a deferred call only after its ping.
PingBeforeDefer == Pass("ping", "redis", {}) \/ Fail("ping", "return")

\* The deferred call that closes the pool stands before the ping.
Ping == Pass("ping", "redis", {}) \/ Fail("ping", "closePool")

\* parseRedisURL refuses only what is no URL.
RedisParsed == cfg.redisURL # Garbage

\* rueidis connects at once, so that it may fail with any URL.
OpenRedis ==
  \/ RedisParsed /\ Pass("redis", "elastic", {"redis"})
  \/ Fail("redis", "closePool")

\* The Elasticsearch client is created without connecting, if it is wanted.
ElasticRefused == cfg.searchBackend = "elastic" /\ cfg.elasticURL = Garbage

MakeRepository ==
  \/ ~ElasticRefused /\ Pass("elastic", IF command = "api" THEN "notified" ELSE "transport", {})
  \/ ElasticRefused /\ Fail("elastic", "closeRedis")

Startup == LoadConfig \/ OpenPool \/ Ping \/ OpenRedis \/ MakeRepository

-------------------------------------------------------------------------------
(* The servers, and their end.                                               *)

\* Signals reach a channel from signal.Notify on: the API calls it before it
\* serves, the stdio transport when it starts, the http transport never.
Caught == command # "http" /\ (main = "notified" \/ listener # "off")

Killed ==
  /\ main' = "exited" /\ result' = "killed"
  /\ UNCHANGED <<program, open, listener, quit, req, asked>>

\* Mutant of Signal: the channel has no buffer, so that a signal is lost unless
\* run() is waiting for it.
SignalUnbuffered ==
  /\ main # "exited"
  /\ \/ ~Caught /\ Killed
     \/ /\ Caught
        /\ quit' = IF main = "serving" THEN 1 ELSE quit
        /\ asked' = TRUE
        /\ UNCHANGED <<program, main, open, listener, result, req>>

\* A signal that is caught is kept if the channel has room for it; another one
\* ends the process.
Signal ==
  /\ main # "exited"
  /\ \/ ~Caught /\ Killed
     \/ /\ Caught
        /\ quit' = 1 /\ asked' = TRUE
        /\ UNCHANGED <<program, main, open, listener, result, req>>

\* cmd/mcp starts the transport of its flag, or fails.
Transport ==
  \/ Fail("transport", "closeRedis") /\ command = "other"
  \/ /\ main = "transport" /\ command \in {"stdio", "http"}
     /\ main' = "serving"
     /\ listener' = "open"
     /\ UNCHANGED <<program, open, quit, result, req, asked>>

\* A transport returns, whatever requests it still has: stdio at the end of its
\* input or with an error, http only with an error.
TransportEnds(how) ==
  /\ command # "api" /\ main = "serving"
  /\ command = "http" => how = "error"
  /\ main' = "closeRedis"
  /\ listener' = "closed"
  /\ result' = how
  /\ UNCHANGED <<program, open, quit, req, asked>>

\* The stdio transport gives up at a signal.
StdioCancelled ==
  /\ command = "stdio" /\ main = "serving"
  /\ quit = 1
  /\ TransportEnds("error")

\* The goroutine of the API's server is started.
Go ==
  /\ main = "notified"
  /\ main' = "serving"
  /\ listener' = "started"
  /\ UNCHANGED <<program, open, quit, result, req, asked>>

\* <-quit, and Shutdown closes the listener.
BeginShutdown ==
  /\ command = "api" /\ main = "serving"
  /\ quit = 1
  /\ quit' = 0
  /\ main' = "draining"
  /\ listener' = "closed"
  /\ UNCHANGED <<program, open, result, req, asked>>

Idle == \A r \in Requests : req[r] \notin Active

ShutdownDone ==
  /\ main = "draining"
  /\ Idle
  /\ main' = "closeRedis" /\ result' = "ok"
  /\ UNCHANGED <<program, open, listener, quit, req, asked>>

\* Mutant of ShutdownTimeout: the error of Shutdown is only logged.
ShutdownTimeoutLogged ==
  /\ main = "draining"
  /\ ~Idle
  /\ main' = "closeRedis" /\ result' = "ok"
  /\ UNCHANGED <<program, open, listener, quit, req, asked>>

\* ShutdownTimeout passes; it is 0 if its setting does not parse.
ShutdownTimeout ==
  /\ main = "draining"
  /\ ~Idle
  /\ main' = "closeRedis" /\ result' = "error"
  /\ UNCHANGED <<program, open, listener, quit, req, asked>>

\* Mutant of CloseRedis: the pool is closed first.
ClosePoolFirst ==
  /\ main = "closeRedis"
  /\ main' = "closePool"
  /\ open' = open \ {"pool"}
  /\ UNCHANGED <<program, listener, quit, result, req, asked>>

\* defer rdb.Close().
CloseRedis ==
  /\ main = "closeRedis"
  /\ main' = "closePool"
  /\ open' = open \ {"redis"}
  /\ UNCHANGED <<program, listener, quit, result, req, asked>>

\* defer pool.Close(): it waits until every connection has been returned.
ClosePool ==
  /\ main = "closePool"
  /\ \A r \in Requests : req[r] # "query"
  /\ main' = "return"
  /\ open' = open \ {"pool"}
  /\ UNCHANGED <<program, listener, quit, result, req, asked>>

\* main() returns or exits with 1, whatever still runs.
Exit ==
  /\ main = "return"
  /\ main' = "exited"
  /\ UNCHANGED <<program, open, listener, quit, result, req, asked>>

-------------------------------------------------------------------------------
(* The requests.                                                             *)

Running == main # "exited"

Listen ==
  /\ Running /\ listener = "started"
  /\ listener' = "open"
  /\ UNCHANGED <<program, main, open, quit, result, req, asked>>

\* ListenAndServe of the API returns an error: os.Exit(1) in its goroutine,
\* without the deferred calls.
ListenFail ==
  /\ Running /\ command = "api" /\ listener \in {"started", "open"}
  /\ listener' = "closed"
  /\ main' = "exited" /\ result' = "fatal"
  /\ UNCHANGED <<program, open, quit, req, asked>>

Move(r, from, to) ==
  /\ Running /\ req[r] = from
  /\ req' = [req EXCEPT ![r] = to]
  /\ UNCHANGED <<program, main, open, listener, quit, result, asked>>

Accept(r) == listener = "open" /\ Move(r, "none", "handler")

PoolClosing == main \in {"closePool", "return"}

\* The handler gets a connection; none is given out once Close has begun.
Query(r) == Move(r, "handler", IF PoolClosing THEN "respond" ELSE "query")

\* It needs none: its parameters are refused, Redis has the rows, it panics, or
\* its route reads nothing.
Skip(r) == Move(r, "handler", "respond")

\* PostgreSQL answers with rows, which are to be stored, or with an error.
QueryDone(r) == Move(r, "query", "set") \/ Move(r, "query", "respond")

\* Redis is written, or refuses because it is closed.
Set(r) == Move(r, "set", "respond")

Respond(r) == Move(r, "respond", "answered")

Run ==
  \/ Startup \/ Transport \/ StdioCancelled
  \/ Go \/ BeginShutdown \/ ShutdownDone \/ ShutdownTimeout
  \/ CloseRedis \/ ClosePool \/ Exit

\* The steps of the process that are not steps of a request.
Process ==
  \/ Run \/ Signal \/ Listen \/ ListenFail
  \/ \E how \in {"ok", "error"} : TransportEnds(how)

Terminating == main = "exited" /\ UNCHANGED vars

Next ==
  \/ Process \/ Terminating
  \/ \E r \in Requests :
       Accept(r) \/ Query(r) \/ Skip(r) \/ QueryDone(r) \/ Set(r) \/ Respond(r)

Spec == Init /\ [][Next]_vars

-------------------------------------------------------------------------------

\* Every variable keeps its type; run() has a result from its return on, and
\* Redis is opened after the pool and closed before it.
TypeOK ==
  /\ command \in Commands /\ env \in Environments
  /\ main \in Mains
  /\ open \subseteq {"pool", "redis"}
  /\ listener \in {"off", "started", "open", "closed"}
  /\ quit \in 0..1
  /\ result \in {None} \cup Results
  /\ req \in [Requests -> {"none", "answered"} \cup Active]
  /\ asked \in BOOLEAN
  /\ main \in Ending \cup {"exited"} <=> result # None
  /\ "redis" \in open => "pool" \in open

\* "server stopped gracefully" is not said in vain: when the API ends with code
\* 0 every request it had accepted has been answered.
GracefulMeansAnswered ==
  command = "api" /\ main = "exited" /\ result = "ok" =>
    \A r \in Requests : req[r] \in {"none", "answered"}

\* However far run() has come when it fails, and whatever ends its server, it
\* returns with everything closed that it has opened.
ClosedOnReturn == main = "exited" /\ result \in {"ok", "error"} => open = {}

\* A signal that arrives once it is handled stops the process, if PostgreSQL
\* answers the queries that are running.
SignalStops == asked ~> main = "exited"
===============================================================================
