# Formal models of Kutub Syamilah

TLA+ models of the Kutub Syamilah server (HTTP API, MCP server, index rebuild),
the TLC configurations that check them, and TLAPS proofs. `PROJECT.json` lists
for every definition the lines of the source it stands for.

## 1. The system

| Component | State it keeps | Operations | Interacts with |
|---|---|---|---|
| `internal/service/kitab.go` `KitabService` | one `singleflight.Group` per process | `ListKitab`, `GetKitab`, `GetKonten`, `Search`, `ListKategori`, `SearchDirect` | called by handlers and MCP tool; calls cache and repository |
| `internal/cache` | entries in Redis, shared by all processes, each with a TTL | five key builders, `Get`, `Set`, `Del` (no caller) | Redis |
| `internal/handler` | a pool of buffers; the slices it gets from the service | six routes of `/v1`, translation of sections, `writeJSON` | service, the `trans` command |
| `internal/middleware` | per request: the first status | `Logger` around `Recover` around the handler | handlers, net/http |
| `internal/repository/postgres.go` | a pgx pool | five reads (three with two parallel queries), `StreamKontenChunked`, `ListKitabIDs` | PostgreSQL |
| `internal/repository/elastic.go` | none | `SearchKonten` | Elasticsearch |
| `internal/mcp` | none | tool `search_kitab`: check for Arabic script, search, pages | service |
| `cmd/mcp` | pool, Redis client, transport | start, serve over stdio or HTTP, end | everything above |
| `cmd/api` | pool, Redis client, listener, signal channel | start, serve, graceful shutdown | everything above |
| `cmd/sync` | jobs, semaphore, error channel, bulk indexer, two counters | one run that rebuilds the index | PostgreSQL, Elasticsearch |
| `internal/config` | values read once | `New`, parsers that fall back to 0 | all commands |
| `internal/model`, `api/v1` | none | types, OpenAPI text | handlers |

What is hard in it:

* Concurrency. Requests of one process meet in singleflight, and those who meet
  share the leader's context and, by reference, its result. Processes meet in
  Redis. Two goroutines per page meet in an errgroup and in the pool. The
  streams of a sync run meet in a semaphore, a channel and a bulk indexer.
  Responses of all requests pass through one pool of buffers, and searches see an
  index while it is rebuilt.
* Staleness. A slow read may be stored after a newer one; nothing invalidates. The
  pages of one listing, each with its own count of the whole, are of different ages.
* Failure. Redis errors count as misses; stores are best effort; a stream or a
  bulk item may fail while the others go on; a sync run may be killed anywhere.
* Start and end. A start that fails half way, signals that are caught, kept, or
  fatal, a timeout, deferred closes, and a goroutine that exits the process by
  itself.
* Boundaries. Page arithmetic, the result window of Elasticsearch, settings that
  do not parse and become 0.

What makes the components right:

* service: one call in flight per key, no waiter forgotten, answers for the
  right filter, answers that do not go back in time, and old answers drain away;
* konten handler: a request is answered in its own language and a translation
  never gets into the cache;
* repository: a page is whole, the cause of an error survives; a stream skips and repeats nothing, and ends;
* pages: a walk sees every row once if nothing but appending happened since its
  oldest answer was read;
* sync: bounded streams, no item after the close, nothing uncounted, an index
  that holds what success claims, hidden while it is loaded and visible after
  that, an end to every run;
* cmd/api, cmd/mcp: what is opened is closed when `run()` returns, a signal stops
  the process, and exit code 0 of the API means every request was answered;
* responses: a client gets the text of its own request, and the log the status
  that the client got, also after a panic.

## 2. The modules

| Module | Models | Composes or refines |
|---|---|---|
| `ReadThrough` | abstract: what `KitabService` promises | – |
| `CacheAside` | the read path of the service | implements `ReadThrough` |
| `CacheKeys` | the key builders | put into `CacheAside` by `MCCacheKeys` |
| `KontenShare` | `GET /v1/kitab/{id}/konten` from the shared call to the response | – |
| `PagedQuery` | the reads of `postgres.go` with errgroup and pool | – |
| `Pagination` | page, limit, offset, number of pages, walks over shared and cached pages | – |
| `OrderedStream` | abstract: a stream of single rows over a changing table | – |
| `KeysetStream` | `StreamKontenChunked` | implements `OrderedStream`, which a stream of `SyncPipeline` is |
| `SyncPipeline` | `cmd/sync` | – |
| `Config` | `internal/config` | – |
| `ServerLifecycle` | `run()` of `cmd/api` and of `cmd/mcp` | extends `Config` |
| `RequestPath` | middleware, `writeJSON`, static routes | extends and implements `ServerLifecycle` |
| `MC*` | values of constants and symmetry for TLC | |
| `*_proofs` | theorems and proofs | |

A definition named "Mutant of X" just before X is X with a plausible bug. No
specification uses it; putting it in the place of X shows which property notices.

### CacheAside

A client is a goroutine with a request; `pc` is its place in a read method:
`get` (Redis), `do` (at `sf.Do`), `read`, `store`, `finish` (inside the function
given to `sf.Do`), `wait` (a follower), `ready` (an answer in hand). `call` is
the map of the singleflight group, per process and key. An answer is the query it
is for and the version of the rows it was read from, which is all the properties
need. The five read methods are the same protocol, so the actions map to lines of
any of them. `Faults` chooses what can go wrong: Redis reads and stores,
PostgreSQL, a peer that disconnects, a process that dies. A disconnect counts for
the leader's read and store, never for a follower's wait, as in the code.
Expiry is possible at any time: no property may depend on a TTL's length.
`seen` and `floor` are history variables of the properties alone.

`ReadThrough` knows only copies of answers: made from the current rows when
somebody asks, given to those who asked for that query, dropped at will.
`ImplementsReadThrough` maps the entries in Redis and the results of calls in
flight to these copies. It is a real restriction on the code: an answer is never
invented, never for another query, and an old version whose copies are gone does
not come back.

### CacheKeys

A key is the sequence of the colon-free pieces of its text, so that writing a
text with a colon into a key is what it is in Go: concatenation. The FNV hash of
a query is taken to be injective; its collisions are not the point here, and
the theorems about keys name this as an assumption.

### KontenShare

Slices live in a heap and are named by the client that made them. A cache hit
makes a slice of its own; `FinishCall` gives the leader's slice to its followers.
The assignment `items[i].IsiTeks = translated` is two steps, pointer and length,
because a Go string has two words and no lock protects them here. Redis errors
and database errors are possible at any time.

### PagedQuery

A request makes one call, with two tasks if it is a paged read. A task acquires a
connection, runs its query, and returns to the errgroup, which keeps the first
error and cancels the group. `Wait` needs both. PostgreSQL is one version number.

### Pagination

Integers wrap at `Word`, so overflow is reachable with small numbers. Rows are
their position in the order of the query. With `ties`, two neighbours share a
rank, as in a search ordered by rank alone: then `Slices` has a page for every
order PostgreSQL or Elasticsearch may choose, and each query chooses again. `Ask`
is one request with any parameters, `Walk` a client that goes from page 1 to the
last page its latest response announced. `Ways` has the ways to ask for each of the
four listings: the catalogue and the sections over HTTP from PostgreSQL, a search
over HTTP or by the tool, from either backend. A text is known by its script: Arabic
letters, presentation forms that NFKC turns into them, none of both, or no text.
`Window` is `index.max_result_window`; the default cap of `track_total_hits` is the
same number.

Between the client and the repository stands the service. An element of `reads` is
one call of the repository for a page together with what becomes of it: it begins
with a miss (`StartRead`), reads rows and count one after the other, in any order and
with transactions in between, and then answers anybody who asks for that page
(`Answer`), as a shared call or as an entry of Redis, until `Drop`. That several
reads of a page may be there at a time stands for those of several processes, and for
a call that is still at work beside an entry. The calls and entries themselves, and
how they fail, are `CacheAside`'s subject. `Shared` are the pages that other clients
have read, before the walk begins or during it, so its answers may be older than it.

`orphans` counts sections that match a search but whose kitab has no row: the count
of a PostgreSQL search includes them, its rows do not. `KitabMissing` is the 404 of a
request for sections, from `GetKitab`, whose entry and errors are not modelled further.

Four pieces of history say what the properties are about. `base` is the listing at some
moment, since when nothing but appending has happened; every transaction that does
more moves it, and any transaction may. `since`, of a read, says that it began after
that moment, and `older` that the client was answered with one that did not.
`given` has the rows that came on each page of the walk.

### KeysetStream

One action per chunk query, row, end of a chunk and failure. `out` is what the
callback was given. Ids begin at 1, so that `lastID = 0` is before all.
`OrderedStream` knows rows only: one is handed over if it was in the table while
the stream ran and no smaller row that stays has been left out. A chunk query and
the change to the next chunk are stutters there.

### SyncPipeline

`pc` is the main goroutine; `stream[k]` the goroutine of a kitab: streaming,
failing (about to send its error), releasing (its deferred receive), done. `sem`
is the number of tokens in the channel, `taken` those of the main goroutine at
the end. Every request to Elasticsearch may succeed, be refused (`http`), or
lose its response, carried out or not (`net`). The bulk indexer is a bounded set
of items that are flushed in any order, each followed by exactly one of the two
callbacks. `Kill` ends a run anywhere and `Rerun` starts the next on the index it
left, with other rows in the tables. `titled` are the kitab that have a row in
`daftar_kitab`: the query of a stream joins it (`Joined`), the list of the jobs does
not. `searchable` is what a search sees of
`docs`: `Refresh` brings it up to date while the setting of the index is "1s".
`refused` remembers that the last change of settings was refused, which the code
does not notice.

### Config, ServerLifecycle

`Config` reads an environment as `config.New` does: a variable is unset, garbage,
or what it says. `MaxConns` is the conversion to int32, with `Int32Half` for 2^31.

`command` is the program, `cmd/mcp` once for each value of its flag `-transport`
that makes a difference. `main` is the place of `run()`, including its deferred
calls; `open` what has to be closed; `listener` the goroutine of `ListenAndServe`,
or the transport. Both programs share the steps up to the search client, which are
the same lines twice. A request is in a handler, in a query (a connection of the
pool is out), about to write to Redis, or responding. `Signal` is kept, or kills:
before `signal.Notify`, and always with the http transport of `cmd/mcp`.

### RequestPath

Refines the last stage of a request of the API. `stage` is the place inside the
handler: `handler`, `encoded`, `sent`, `done`. `code` and `written` are the fields
of Logger's `responseWriter`, `head` and `body` what net/http has sent. A buffer is
named after the request it was made for, its `content` is the set of requests
whose text is in it, and `free` is what `sync.Pool` has: `Get` may take any of
these or a new one. `Panic` is a handler, or the shared call it waits for, that
panics before it writes; Recover answers through Logger's writer.
`ImplementsLifecycle` says that all this is `ServerLifecycle` to anybody who does
not look at responses.

## 3. What is checked

All bounds are constants in the `.cfg` files.

| Run | Shows | Bounds |
|---|---|---|
| `CacheAside_shared` | types, `OneFlight`, `NoOrphanWaiter`, `ImplementsReadThrough`, `OnlyLeaderCancelFails` with cache faults, disconnects and crashes | 3 clients, 2 processes, 1 key, 2 versions |
| `CacheKeys_answers` | `AnswersOwnQuery`, `MonotonicReads`, `EveryRequestReturns`, `EventuallyCurrent` with missed reads, database errors and crashes | 2 clients, 1 process, 2 page sizes of one kitab under the real keys, 2 versions |
| `CacheKeys_switches` | *violated*: `AnswersOwnQuery`; fuzzy and highlight are not in the key | 2 clients, 4 searches |
| `KontenShare_private` | types, `CacheKeepsOriginal`, `SoloAnswersOwnLanguage` | 3 clients, 3 languages, 2 sections |
| `KontenShare_lang` | *violated*: `AnswersRequestedLanguage`; shared slices | 2 clients, 1 section |
| `PagedQuery_pool` | types, `PageIsWhole`, `CauseIsReported`, `CallsReturn` | a paged and 2 single reads, 1 connection, 2 versions |
| `Pagination_walk` (module `MCPagination`) | types, `WalkIsComplete`, `NoEmptyPage`, `ExistingPagesAreExact` | 4 listings with 0 to 3 rows, the catalogue in a total order, the others with ties, 1 orphan; 2 reads or entries at a time, 2 pages that others ask for, 1 transaction of any kind; limits 1 to 3 (raw 0, which is 1 over HTTP and the default 3 for the tool, and 2), raw pages 0 and 7, 4-bit integers, window of 6 |
| `Pagination_window` (module `MCPagination`) | *violated*: `AnnouncedPagesWork`; the last page of a full window | Elasticsearch, 3 rows, window of 3, limit 2 |
| `KeysetStream_rows` | types, `StreamEnds`, `ImplementsOrderedStream` (which implies `Ascending` and `NoStableRowSkipped`) | 5 ids, chunks of 2, 3 edits |
| `SyncPipeline_run` | types, `StreamsBounded`, `NoAddAfterClose`, `ErrChanNeverFull`, `AllCounted`, `SuccessIsComplete`, `LoadIsHidden`, `SyncTerminates`, `SuccessBecomesSearchable` with every fault | 3 kitabs of 1 section, one of them perhaps without its own row, 2 workers, 2 runs |
| `SyncPipeline_claim` | *violated*: `SuccessMeansIndexed`; rows missing after success | 2 kitabs, 1 worker |
| `ServerLifecycle_stop` (module `MCRequestPath`) | types, `GracefulMeansAnswered`, `ClosedOnReturn`, `BodyIsOwn`, `AnsweredIsLogged`, `SignalStops`, `ImplementsLifecycle` | 4 ways to start, 8 environments, 2 requests, 3 statuses, 6-bit int32 |

`MCCacheKeys` also has an assumption that TLC evaluates: over 175 requests
of the five read methods without colons in their texts, the key builders give
different requests different keys. `KeysSeparate` proves it for all such requests.

Why the bounds are enough. Three clients are a leader, a follower and a late one,
the smallest set in which a client can belong to a later call of the same key;
two processes are the two commands. Keys do not interact, so one is enough
except where keys are the subject. Two versions let an old one return after a
newer one. Three kitabs over two workers make the semaphore block, an
error channel of one slot per worker would overflow, and two runs are a broken
one and its repair. Five ids in chunks of two give a full, a full and a partial
chunk. Four-bit integers wrap within the enumerated parameters: page 0 has a negative
offset, page 7 one that wraps, to that of the third row with limit 3. Three rows are a rank of
one and a rank of two, two pages of a walk with limit 2; two reads let a walk take a
page of its own beside one that others had read, and one transaction, which may be
before the walk, between its pages or between the two queries of a page, and replaces
the listing by any other, makes one answer older than another. Two transactions would
be one more moment of which the properties say nothing, since they speak of the rows
since the last one that did not just append. Two requests are one that gives a
buffer back and one that takes it, one that drains and one that does not; the
environments have each setting that can stop a start, once. The theorems below
drop the bounds for the invariants they cover.

One connection for three reads is the tightest pool: a paged read that held a
connection while it waited for its second one would block it for ever.

The violated properties quote a comment, document or message of the repository;
`findings` in `PROJECT.json` says where code and text part.

Limits of `MonotonicReads`: it does not hold if a leader's client disconnects
between read and store, if a store fails, or if a second process writes the same
keys, and its run excludes these three. With two processes `ImplementsReadThrough`
is what remains. `SyncTerminates` and `StreamEnds` assume a positive number of
workers and a positive chunk size. `SuccessBecomesSearchable` assumes that no
stream failed and that the last change of settings was not refused: the code
notices neither. `WalkIsComplete`, `NoEmptyPage` and `ExistingPagesAreExact` say
nothing of a client that was given an answer read before the last change that was
more than appending, and `NoEmptyPage` nothing where there are sections without a
kitab: with such answers or sections each page is what the code returns, and the
properties are false, as the notes below say. `WalkIsComplete` counts the rows of each rank, so that it speaks of
every single row only where no ranks tie. `ClosedOnReturn` is about `run()` returning, not
about `os.Exit` in the listener's goroutine or a fatal signal.

`CHECK_DEADLOCK FALSE` stands where the system stops for good: a stream that has
ended, a client that has finished its walk.

### Behaviour of the code seen in the models, about which nothing is stated

* A request that missed, and reaches `sf.Do` after another call for its key has
  stored and ended, reads the database again: the cache is not read inside the
  call (`internal/service/kitab.go:63`).
* Filter texts go into the keys unescaped, so `judul` "a:b" with `kategori` "c"
  and `judul` "a" with `kategori` "b:c" share a key (`internal/cache/cache.go:38`).
* The response to the request that restores the index settings is not looked at
  (`cmd/sync/main.go:278`).
* With 0 workers, the value of a setting that does not parse, the sync command
  waits for ever at its first job, with a negative number it panics there
  (`cmd/sync/main.go:212`), both times after it has dropped the old index; with
  chunk size 0 a stream queries for ever (`internal/repository/postgres.go:291`).
* From the delete on until the index exists again searches fail, and until the
  run's last request they find nothing; the service stores the empty answers for
  two minutes (`cmd/sync/main.go:153`, `internal/service/kitab.go:168`).
* The tool calls the cached `Search`, while the comment on `SearchDirect` says
  "Used by MCP server for real-time search results"
  (`internal/mcp/handlers.go:78`, `internal/service/kitab.go:215`).
* The http transport of `cmd/mcp` is ended by the first signal, with its requests
  and without its deferred calls (`cmd/mcp/main.go:129`).
* A page and its total are up to 30 minutes old. With page 1 from the cache, from a
  time when 20 rows made one page, a walk ends there although 25 rows are listed when
  it starts; with a total from a time when there were more rows it is sent to a page
  that is empty, and a cached page may hold rows that now stand elsewhere or are gone
  (`internal/service/kitab.go:51`, `:116`, `:150`).
* The count of a PostgreSQL search does not join `daftar_kitab` and its rows do: total
  and total_pages include sections without a kitab, and the last pages may be empty
  (`internal/repository/queries.go:54`, `:58`). The sync command lists the kitab of
  such sections and reads none of them, without a warning
  (`internal/repository/queries.go:88`, `:97`).
* Pages of a search repeat and lose rows of one rank
  (`internal/repository/postgres.go:168`).
* A limit out of range is clamped and a negative page ends in a 500, where
  `api/v1/openapi.yaml:573` and `:305` describe a 400 and a minimum
  (`internal/handler/handler.go:86`).
* A failing listener calls `os.Exit` in its goroutine, past the deferred calls
  (`cmd/api/main.go:181`), and `pool.Close` waits for a hanging query beyond the
  shutdown timeout (`cmd/api/main.go:69`).

### Fairness

* `CacheAside`: weak fairness of each step of a client and of expiry. Goroutines
  are scheduled, Redis and PostgreSQL answer with a result or an error, and every
  entry has a TTL. Arrivals, updates, disconnects and crashes are not fair.
* `SyncPipeline`: weak fairness of the run as a whole, which is enough, since each
  step uses up something finite; and of `Refresh`, which Elasticsearch does every
  second while the setting says so.
* `KeysetStream`: weak fairness of the streaming goroutine.
* `PagedQuery`: weak fairness of every task and of `Wait`. A connection is never
  held while another is awaited, so no stronger fairness is needed.
* `RequestPath` (for `ServerLifecycle` as well): weak fairness of `run()`, whose
  timer fires, of every handler, and of the answer to a query, since PostgreSQL
  answers every one. Requests, signals, failures and ends of input are never forced.

## 4. What is proved

Theorems hold for every value of the constants that meets the module's named
assumption. Each proof has the same plan: an inductive invariant, one lemma or
step per action, and PTL at the end.

* `CacheAside_proofs`. `TypeCorrect`. `SingleFlight` and `NoWaiterIsOrphaned`
  rest on `Flights`: a client inside the function is registered in `call` under
  its slot, a registered client is inside the function and in that slot, and a
  waiter has joined the client registered in its slot. `OneFlight` alone is not
  inductive: `Lead` needs to know that an empty slot has nobody inside.
  `NoCrossover` proves `AnswersOwnQuery` from `DistinctKeys`, the injectivity of
  the key builder: entries and results stand under the key of their query. The
  violated run of `CacheKeys` shows that the real builders are not injective;
  the theorem shows nothing else can go wrong. `ReadsNeverGoBack` proves
  `MonotonicReads` from `HealthyCache` (distinct keys, one process, stores that
  land, clients that stay): what a call may still store or return is at least as
  new as everything returned, because calls for one key do not overlap.
  `OthersLeaveFreely` proves `OnlyLeaderCancelFails` from a database that answers:
  a call that has failed has a leader who has left. `ReadsThrough` is the refinement
  `ImplementsReadThrough`, from `DistinctKeys`: a read is `Fetch`, a hit or the end of
  a call is `Answer`, a store, an expiry, a return and a crash are `Leave`, and the
  rest are stutters.
  `KeysSeparate` says what the key builders keep apart: of requests whose titles and
  categories hold no colon, and whose queries have different hashes, everything but
  `fuzzy` and `highlight`. The lengths of the keys tell the five methods apart, and
  each piece of a key then stands at its own place. So `DistinctKeys` is no longer
  assumed for such requests when their switches agree: `PlainRequestsReadThrough`
  and `PlainReadsNeverGoBack` draw the conclusions of `NoCrossover`, `ReadsThrough` and
  `ReadsNeverGoBack` for the keys the code builds. What they assume of the switches is
  what the violated run `CacheKeys_switches` breaks, and what they assume of the texts
  is what the note on colons in section 3 breaks.
* `SyncPipeline_proofs`. `WorkersBounded`, `CloseIsSafe`, `ErrorsFit`. The
  invariant counts tokens: `sem` is `taken` plus the goroutines that hold one.
  So with all `Workers` taken nobody holds one. `ErrorsFit` counts the errors
  against the streams that have failed, at most one per listed kitab.
  `LoadStaysHidden`: refresh goes off on an index that has just been made, so it is
  enough that nothing was added or queued before the streams. `SuccessHoldsRows`,
  `NothingUncounted` and `TypeCorrect` rest on a second invariant, `Read`: what has
  been read is in the index, queued, or counted as failed; nothing is read before
  the streams; a stream that ended without an error has read its kitab to the end;
  and when all tokens are taken every stream is done. A broken earlier run does not
  enter the argument, because a run drops the index before it reads.
* `KeysetStream_proofs`. `RowsAscend`, `StableRowsHanded`, `ChunksInvisible`,
  `TypeCorrect`. The invariant says that `lastID` bounds what was handed over, that the batch lies behind it, and
  that each stable row is handed over, in the batch, or behind both. `StreamEnds`
  needs `ChunkSize > 0` and is left to TLC; safety does not. `ChunksInvisible` is the
  refinement, step by step from the same invariant: it holds for chunk size 0 too.
* `KontenShare_proofs`. `CacheStaysOriginal`, `TypeCorrect`, `SoloIsSafe`. The first
  invariant says who can hold a slice: while its maker is in the flight, only the
  maker, and it is unchanged. For `SoloIsSafe`, a client keeps the slice it holds, so
  one that is alone at its end was always alone; no step of another client reaches
  its slice, and its own steps leave each section stored, translated, or, between
  the two words of an assignment, with the first word of the translation.
* `PagedQuery_proofs`. `PagesAreWhole`, `CausesAreReported`, `TypeCorrect`.
  The invariant ties a task's stage to what it has found or failed with, and the
  group's cancellation to its first error.
* `ServerLifecycle_proofs`. `TypeCorrect`, `GracefulExit`, `ReturnsClosed`. The
  invariant says what is open at each place of `run()`, and that after a drained
  shutdown no request is active and the listener is closed.
* `RequestPath_proofs`. `Refinement` maps every step to one of `ServerLifecycle` or
  to a stutter, so `PathGracefulExit` has the theorems above for the composition.
  `PathTypeCorrect`, `ResponsesUnmixed`, `AnswersLogged`: the invariant says that a
  buffer is in one request's hands or in the pool, that those in the pool are
  empty, and that the status Logger has noted is the one that was sent.
* `Pagination_proofs` has two parts. The arithmetic, for every total, limit and word
  size: `AnnouncedPagesHoldRows`, `FormulasAgree` (the handlers' and the tool's),
  `AnnouncedOffsetsExact` (overflow only happens beyond the last page) and
  `DivisorsFitWindow`. And the requests and walks, for every finite set of rows, any
  ties, any number of shared or cached reads, orphans, and other sessions: `TypesCorrect`, `WalksComplete`, `PagesNotEmpty`,
  `PagesExactlyRead`, `WalksGiveEachRowOnce`, `AnnouncedPagesAnswered`.

  None of the four invariants is inductive. Which rows a page holds is not determined
  when ranks tie, so the strengthening `IInv` counts: the walk has been given, of each
  rank, as many rows as that rank has among the first `Done * limit` of the base. What
  makes this go through a cache is that it holds of each read by itself (`ReadsKept`):
  one with `since` has a page of the listing as it was at some time between the base
  and now (`AsOf`), and a total between the number of rows of the base and what is
  counted now. Appending keeps both, at either end, and an edit that moves the base
  takes `since` away, so it does not matter when the read is used, or how often. Rows
  that came since stand behind all rows of the base, and so a page of the later listing
  has of the base what a page of the base has. `PageDelivers` is the step: a page adds
  to both sides of the equation the same number. It rests on
  lemmas about orders of finite sets (`Least`, `RowAt`, `SamePosition`,
  `SameRankOnPage`, `FirstAndPage`): in every finite set of rows each position
  is taken, and two orders that agree on ranks put equally many rows of a rank on
  a page. `Least` comes from the well-founded order of finite subsets, which the
  library states without an operator parameter.

  `WalksComplete` assumes of Elasticsearch that the listing fits its window: it counts
  no further, so a walk of a larger listing ends at the window. `AnnouncedPagesAnswered`
  is the boundary of the violated run `Pagination_window`: with PostgreSQL, or with a
  limit that divides the window, no announced page of a walk is refused, also when
  rows come and go and totals are old. Its own invariant, `Announced`, needs no base:
  whatever total announced a page, it was at most the window. `ConstantsAssumption` asks
  that the number of rows, orphans and the largest limit together fit an integer: less
  than 2^63 - 100 rows.

Only model-checked: liveness under fairness, which is out of the prover's reach
(`EveryRequestReturns`, `EventuallyCurrent`, `SyncTerminates`,
`SuccessBecomesSearchable`, `StreamEnds`, `CallsReturn`, `SignalStops`), and the
violated properties, which do not hold. Every invariant and every action property of
a passing run is a theorem. What a recursive definition computes cannot be proved
here, which is why `Pagination` keeps the rows it has given as a set of pairs and
counts them, and has no sums or folds.

## 5. Assumptions about what is not in the repository

singleflight, errgroup, pgxpool, net/http, Redis, Elasticsearch and its bulk
indexer are modelled from how the code uses them, and marked external. In
particular: the bulk indexer calls exactly one of `OnSuccess` and `OnFailure` for
each item, also if a whole request fails; `Add` on a closed indexer panics;
`pool.Close` waits for connections that are out; a pool refuses a size below 1 and
connects later; `rueidis.NewClient` connects at once; `ServeStdio` of mcp-go catches
signals and `StreamableHTTPServer.Start` does not; `sync.Pool` gives any buffer it
has, or a new one; Elasticsearch has its default window of 10000 and counts no
further, and refreshes an index by itself unless its setting says otherwise.

## 6. What is not modelled

* A SET of Redis that is sent, and lands after the context of its call has ended
  (`internal/cache/redis.go:46`): `CacheSetFail` leaves the entry as it was. A store
  on its way would be one more copy of an answer that was given, as `ReadThrough` has
  them; one slot for it takes the run of `CacheAside_shared` beyond the few minutes the
  others need. `MonotonicReads` excludes the disconnects that cause it.
* Clients that ask for the same search with different switches in `Pagination`: its
  searches all set them alike. What becomes of others is `CacheKeys_switches`.
* Errors of the service in `Pagination`: a read that failed is a `Drop`, after which
  the client may read again. What the client then sees is in `PagedQuery` and
  `CacheAside`.
* Matching and ranking of texts: they happen in PostgreSQL and Elasticsearch. How
  ranks tie is in `Pagination`, which texts have them is not.
* Two sync commands at a time, and the cache of the API while the index is rebuilt:
  `SyncPipeline` has what a search sees of the index, not what Redis keeps of it.
* The transports of the MCP server, CORS, pprof, and logging apart from the line of
  `Logger`.
* The tool's boolean switches, which are read as numbers by a library that is not
  in the sources.
* Types and texts: `internal/model`, the OpenAPI description, index settings. They
  have no behaviour. The functional options of `config` have no caller but tests.
* A panic after the header was sent: nothing between the last write and the end of
  a handler can panic. Nor are panics in the goroutines of
  an errgroup, which Recover does not reach.

## 7. Plan

Done, in this order of importance: the service (`CacheAside`, `ReadThrough`,
`CacheKeys`), the sync pipeline and its stream with what searches see of it, the
shared slice, the paged reads, pages with ties, the lifecycle of both servers with
configuration, middleware and responses.

Next, models:

1. `SearchDuringSync`: searches of the API through the cache while `SyncPipeline`
   drops and rebuilds the index, and what of it stays in Redis.
2. `SyncPipeline` with a table that changes during a run, its streams replaced by
   `OrderedStream`.

Next, proofs: those that these two models need.
