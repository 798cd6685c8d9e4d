------------------------------ MODULE Pagination ------------------------------
(***************************************************************************)
(* Pages: how the handlers and the MCP tool read page and limit, how the   *)
(* repositories turn them into an offset, how many pages a response        *)
(* announces, and what the service's cache does to a listing that is read  *)
(* page by page.  A client asks for a single page, or walks a listing from *)
(* page 1 to the last page of its latest response.  Other clients have     *)
(* pages read as well, other sessions change the rows.  The model ends     *)
(* with the walk, or with the response to the one request.                 *)
(*                                                                         *)
(* A read of a page serves every client that asks for the key while it     *)
(* runs (the shared call) and, from Redis, long after: rows and total of   *)
(* an answer may be older than the request.  How calls and entries come    *)
(* and go is CacheAside's subject; here a read stands for both, from the   *)
(* first query until its entry has expired.                                *)
(*                                                                         *)
(* Rows are known by their position in the ORDER BY of the query.  A search *)
(* orders by rank alone, and rows of one rank come in any order, another   *)
(* one each time.  Integers wrap at Word, as the 64-bit int of Go does.    *)
(***************************************************************************)
EXTENDS Integers, FiniteSets

CONSTANTS
  Rows,           \* the keys rows may have, in the order of the listing
  Sources,        \* the listings: a subset of DOMAIN Ways
  Ties,           \* whether rows may share a rank, if not ordered by an id
  MaxOrphans,     \* how many matching sections may have no kitab
  Window,         \* index.max_result_window of the index
  MaxLimit,       \* 100 in the code
  DefaultLimit,   \* 20 in the handlers, 5 in the MCP tool
  Word,           \* integers are those from -Word to Word - 1
  Absent,         \* a parameter that is missing or not a number
  RawPages, RawLimits,    \* bound: the parameters that the client may send
  Shared,         \* the pages <<page, limit>> that other clients ask for
  Slots, NoRead,  \* bound: the reads that are there at a time; none in a slot
  MaxEdits        \* bound: how often other sessions change the rows

Int64 == -Word .. Word - 1
Param == Int64 \cup {Absent}

\* The ways to ask for each listing: over HTTP, and a search by the MCP tool as
\* well.  "search" is answered by PostgreSQL, "elastic" by Elasticsearch.
Ways == [list |-> {"http"}, konten |-> {"http"},
         search |-> {"http", "mcp"}, elastic |-> {"http", "mcp"}]

Modes == UNION {Ways[s] : s \in DOMAIN Ways}

Unread == -1      \* a result that has not been read yet
NoRows == {-1}

\* The read of a page.  "since" is history: it began after the base was taken.
Read == [page : Int64, limit : 1..MaxLimit,
         items : {NoRows} \cup SUBSET Rows, total : Nat \cup {Unread}, since : BOOLEAN]

ASSUME ConstantsAssumption ==
  /\ Rows \subseteq Nat /\ IsFiniteSet(Rows)
  /\ Sources \subseteq DOMAIN Ways
  /\ Ties \subseteq BOOLEAN
  /\ MaxOrphans \in Nat /\ Window \in Nat /\ MaxEdits \in Nat
  /\ MaxLimit \in Nat \ {0} /\ DefaultLimit \in 1..MaxLimit
  /\ Word \in Nat /\ MaxLimit < Word
  /\ Cardinality(Rows) + MaxOrphans + MaxLimit <= Word
  /\ Absent \notin Int
  /\ RawPages \subseteq Param /\ RawLimits \subseteq Param
  /\ Shared \subseteq Int64 \X (1..MaxLimit)
  /\ NoRead \notin Read

Wrap(n) == ((n + Word) % (2 * Word)) - Word

ParseIntDefault(s, default) == IF s = Absent THEN default ELSE s

ClampInt(n, min, max) == IF n < min THEN min ELSE IF n > max THEN max ELSE n

\* Mutant of TotalPages: the incomplete page is not counted.
TotalPagesFloor(total, limit) == IF limit <= 0 THEN 0 ELSE total \div limit

TotalPages(total, limit) ==
  IF limit <= 0 THEN 0
  ELSE total \div limit + (IF total % limit > 0 THEN 1 ELSE 0)

\* Mutant of McpPages: one page too many for full pages.
McpPagesExtra(total, limit) == Wrap(total + limit) \div limit

\* The formula of the MCP tool.
McpPages(total, limit) == Wrap(total + limit - 1) \div limit

PagesFor(mode, total, limit) ==
  IF mode = "mcp" THEN McpPages(total, limit) ELSE TotalPages(total, limit)

Offset(page, limit) == Wrap(Wrap(page - 1) * limit)

PageOf(mode, rawPage) ==
  LET page == ParseIntDefault(rawPage, 1)
  IN  IF mode = "mcp" /\ page < 1 THEN 1 ELSE page

\* Mutant of LimitOf: only the handlers check the limit.
LimitUnchecked(mode, rawLimit) ==
  LET limit == ParseIntDefault(rawLimit, DefaultLimit)
  IN  IF mode # "mcp" THEN ClampInt(limit, 1, MaxLimit) ELSE limit

LimitOf(mode, rawLimit) ==
  LET limit == ParseIntDefault(rawLimit, DefaultLimit)
  IN  IF mode # "mcp" THEN ClampInt(limit, 1, MaxLimit)
      ELSE IF limit < 1 \/ limit > MaxLimit THEN DefaultLimit ELSE limit

VARIABLES
  source,     \* the listing, and who answers for it
  ties,       \* whether its order leaves rows with the same rank
  table,      \* the rows that the query lists
  orphans,    \* the sections that match a search without having a kitab
  edits,      \* how often other sessions have changed them
  reads,      \* the reads and copies of pages
  state,      \* what the client does: idle, asking, answered or refused
  walking,    \* whether it walks
  mode, page, limit,
  items, total, status,   \* the last response
  given,      \* history: the pairs <<page, row>> the walk was given
  base,       \* history: the rows at some moment, since when only rows behind
              \* them came
  older       \* history: the client had an answer read before that moment

listing == <<source, ties>>
content == <<table, orphans, edits>>
req     == <<walking, mode, limit>>
resp    == <<items, total, status>>
hist    == <<given, base, older>>
vars    == <<listing, content, reads, state, req, page, resp, hist>>

\* Rows of one rank; every row has its own where the order is total.
Rank(r) == IF ties THEN r \div 2 ELSE r

\* ORDER BY ... LIMIT limit OFFSET offset, in one of the orders.
Slice(some, offset, size) ==
  {r \in some : Cardinality({s \in some : s < r}) \in offset .. offset + size - 1}

\* In every order the page has the same number of rows of each rank.
Slices(some, offset, size) ==
  LET OfRank(part, r) == Cardinality({s \in part : Rank(s) = Rank(r)})
      first == Slice(some, offset, size)
  IN  {part \in SUBSET some : \A r \in some : OfRank(part, r) = OfRank(first, r)}

\* What one set of rows has more than another comes behind it.
Behind(some, more) ==
  some \subseteq more /\ \A r \in some, s \in more \ some : Rank(r) < Rank(s)

Init ==
  /\ source \in Sources
  /\ ties \in IF source = "list" THEN {FALSE} ELSE Ties
  /\ table \in SUBSET Rows
  /\ orphans \in IF source = "search" THEN 0..MaxOrphans ELSE {0}
  /\ edits = 0
  /\ reads = [s \in Slots |-> NoRead]
  /\ state = "idle" /\ walking = FALSE /\ mode = "http"
  /\ page = 1 /\ limit = DefaultLimit
  /\ items = NoRows /\ total = Unread /\ status = 200
  /\ given = {} /\ base = table /\ older = FALSE

-------------------------------------------------------------------------------
(* The client.                                                               *)

Receive(m, rawPage, rawLimit) ==
  /\ state = "idle"
  /\ m \in Ways[source]
  /\ mode' = m
  /\ limit' = LimitOf(m, rawLimit)
  /\ page' = PageOf(m, rawPage)
  /\ state' = "asking"
  /\ UNCHANGED <<listing, content, reads, resp, hist>>

\* One request for any page.
Ask(m, rawPage, rawLimit) ==
  /\ Receive(m, rawPage, rawLimit)
  /\ walking' = FALSE

\* A walk from the first page on.
Walk(m, rawLimit) ==
  /\ Receive(m, 1, rawLimit)
  /\ walking' = TRUE

\* The response is an error, and the client stops.
Refuse(code) ==
  /\ status' = code
  /\ state' = "refused"
  /\ UNCHANGED <<listing, content, reads, req, page, items, total, hist>>

\* A page in the path, {hal}, that is no number or below 1.
RefuseHal(rawPage) ==
  /\ state = "idle" /\ source = "konten"
  /\ rawPage \notin 1..Word - 1
  /\ Refuse(400)

Texts == {"arabic", "forms", "latin", "missing"}

\* NFKC turns presentation forms into core Arabic letters.
NFKC(text) == IF text = "forms" THEN "arabic" ELSE text

ContainsArabic(text) == text = "arabic"

\* A search without a text is refused, and by the tool one whose text holds no
\* Arabic letter after it has been normalised.
RefuseText(m, text) ==
  /\ state = "idle" /\ source \in {"search", "elastic"}
  /\ m \in Ways[source]
  /\ text = "missing" \/ (m = "mcp" /\ ~ContainsArabic(NFKC(text)))
  /\ Refuse(400)

\* PostgreSQL refuses a negative OFFSET, Elasticsearch also what ends beyond
\* its window.
Refused(p, size) ==
  \/ Offset(p, size) < 0
  \/ source = "elastic" /\ Offset(p, size) + size > Window

Fail ==
  /\ state = "asking"
  /\ Refused(page, limit)
  /\ Refuse(500)

\* Mutant of Answer: the key of the entry leaves out the page.
AnswerAnyPage(s) ==
  /\ state = "asking"
  /\ reads[s] # NoRead
  /\ reads[s].limit = limit
  /\ reads[s].items # NoRows /\ reads[s].total # Unread
  /\ items' = reads[s].items /\ total' = reads[s].total
  /\ status' = 200
  /\ state' = "answered"
  /\ given' = given \cup (IF walking THEN {page} \X items' ELSE {})
  /\ older' = (older \/ ~reads[s].since)
  /\ UNCHANGED <<listing, content, reads, req, page, base>>

\* The client's own call, one that it shares, or an entry of Redis.
Answer(s) ==
  /\ state = "asking"
  /\ reads[s] # NoRead
  /\ reads[s].page = page /\ reads[s].limit = limit
  /\ reads[s].items # NoRows /\ reads[s].total # Unread
  /\ items' = reads[s].items /\ total' = reads[s].total
  /\ status' = 200
  /\ state' = "answered"
  /\ given' = given \cup (IF walking THEN {page} \X items' ELSE {})
  /\ older' = (older \/ ~reads[s].since)
  /\ UNCHANGED <<listing, content, reads, req, page, base>>

More == walking /\ page < PagesFor(mode, total, limit)

NextPage ==
  /\ state = "answered" /\ More
  /\ page' = page + 1
  /\ state' = "asking"
  /\ UNCHANGED <<listing, content, reads, req, resp, hist>>

\* Every request for sections first asks GetKitab for their kitab.
KitabMissing ==
  /\ source = "konten"
  /\ state = "idle" \/ (state = "answered" /\ More)
  /\ Refuse(404)

\* The client has its last response.
Over == state = "refused" \/ (state = "answered" /\ ~More)

-------------------------------------------------------------------------------
(* Reads of pages.  A refused one leaves nothing that could be given to      *)
(* anybody else.                                                             *)

\* A miss, of the client or of others that ask for the same pages; an entry of
\* another limit could not be given to the client.
StartRead(s, p, size) ==
  /\ ~Over /\ reads[s] = NoRead
  /\ \/ <<p, size>> \in Shared /\ (state = "idle" \/ size = limit) /\ ~older
     \/ state = "asking" /\ p = page /\ size = limit
  /\ ~Refused(p, size)
  /\ reads' = [reads EXCEPT ![s] =
       [page |-> p, limit |-> size, items |-> NoRows, total |-> Unread, since |-> TRUE]]
  /\ UNCHANGED <<listing, content, state, req, page, resp, hist>>

\* The two queries of a page, in any order.
ReadRows(s) ==
  /\ source # "elastic" /\ ~Over
  /\ reads[s] # NoRead /\ reads[s].items = NoRows
  /\ \E some \in Slices(table, Offset(reads[s].page, reads[s].limit), reads[s].limit) :
       reads' = [reads EXCEPT ![s].items = some]
  /\ UNCHANGED <<listing, content, state, req, page, resp, hist>>

\* The count of a search does not join the kitab, as its rows do.
ReadCount(s) ==
  /\ source # "elastic" /\ ~Over
  /\ reads[s] # NoRead /\ reads[s].total = Unread
  /\ reads' = [reads EXCEPT ![s].total = Cardinality(table) + orphans]
  /\ UNCHANGED <<listing, content, state, req, page, resp, hist>>

\* Elasticsearch answers both at once; it counts up to its window.
Search(s) ==
  /\ source = "elastic" /\ ~Over
  /\ reads[s] # NoRead /\ reads[s].items = NoRows
  /\ \E some \in Slices(table, Offset(reads[s].page, reads[s].limit), reads[s].limit) :
       reads' = [reads EXCEPT
         ![s].items = some,
         ![s].total = IF Cardinality(table) > Window THEN Window ELSE Cardinality(table)]
  /\ UNCHANGED <<listing, content, state, req, page, resp, hist>>

\* The entry expires, or the read has failed or was not stored.
Drop(s) ==
  /\ ~Over /\ reads[s] # NoRead
  /\ reads' = [reads EXCEPT ![s] = NoRead]
  /\ UNCHANGED <<listing, content, state, req, page, resp, hist>>

-------------------------------------------------------------------------------
(* Other sessions.                                                           *)

\* The client has a response of this walk or request.
Answered == state = "answered" \/ (walking /\ page > 1)

\* From here on nothing that was read before counts.
TakeBase ==
  /\ base' = table'
  /\ reads' = [s \in Slots |-> IF reads[s] = NoRead THEN NoRead
                                ELSE [reads[s] EXCEPT !.since = FALSE]]
  /\ older' = (older \/ Answered)

\* A transaction changes any rows.  One that only appends may leave the base
\* where it is; one that deletes, inserts before others or changes the
\* orphans moves it.  No property says anything once an answer is older.
Edit(some, n) ==
  /\ ~Over /\ ~older /\ edits < MaxEdits
  /\ table' = some /\ orphans' = n /\ edits' = edits + 1
  /\ \/ Behind(table, some) /\ n = orphans /\ UNCHANGED <<base, reads, older>>
     \/ TakeBase
  /\ UNCHANGED <<listing, state, req, page, resp, given>>

Client ==
  \/ \E m \in Modes, p \in RawPages, l \in RawLimits : Ask(m, p, l)
  \/ \E m \in Modes, l \in RawLimits : Walk(m, l)
  \/ \E p \in RawPages : RefuseHal(p)
  \/ \E m \in Modes, text \in Texts : RefuseText(m, text)
  \/ \E s \in Slots : Answer(s)
  \/ Fail \/ NextPage \/ KitabMissing

Service ==
  \E s \in Slots :
    \/ \E p \in Int64, size \in 1..MaxLimit : StartRead(s, p, size)
    \/ ReadRows(s) \/ ReadCount(s) \/ Search(s) \/ Drop(s)

Others ==
  \E some \in SUBSET Rows, n \in IF source = "search" THEN 0..MaxOrphans ELSE {0} : Edit(some, n)

Next == Client \/ Service \/ Others

Spec == Init /\ [][Next]_vars

-------------------------------------------------------------------------------

\* Every variable keeps its type, and a limit is always one that is allowed.
TypeOK ==
  /\ source \in Sources /\ ties \in BOOLEAN
  /\ table \subseteq Rows /\ base \subseteq Rows
  /\ orphans \in 0..MaxOrphans /\ edits \in 0..MaxEdits
  /\ reads \in [Slots -> Read \cup {NoRead}]
  /\ state \in {"idle", "asking", "answered", "refused"}
  /\ {walking, older} \subseteq BOOLEAN
  /\ mode \in Modes
  /\ page \in Int64 /\ limit \in 1..MaxLimit
  /\ items = NoRows \/ items \subseteq Rows
  /\ total \in Nat \cup {Unread}
  /\ status \in {200, 400, 404, 500}
  /\ given \subseteq Nat \X Rows

\* If other sessions have only appended since some moment, and all answers of a
\* finished walk were read after it, from the cache or not, the walk was given
\* every row that was there at that moment, and once only.  Where ranks tie it may
\* lose a row, but only to another one of the same rank that it is given twice: of
\* each rank it gets as many as there were.
WalkIsComplete ==
  state = "answered" /\ walking /\ ~More /\ ~older =>
    \A r \in base :
      Cardinality({g \in given : Rank(g[2]) = Rank(r)})
        = Cardinality({s \in base : Rank(s) = Rank(r)})

\* A walk meets no empty page after the first, if nothing was changed since all its
\* answers were read and every section that the search counts has a kitab.
NoEmptyPage ==
  state = "answered" /\ walking /\ page > 1 /\ ~older /\ table = base /\ orphans = 0 =>
    items # {}

\* A page that exists holds only rows that stand on it, in one of the orders, if
\* since it was read others have only appended: overflow of the offset can only
\* bring rows to a page beyond the last.
ExistingPagesAreExact ==
  state = "answered" /\ ~older /\ page >= 1 /\ page <= PagesFor(mode, total, limit) =>
    \A r \in items :
      LET before == Cardinality({s \in table : Rank(s) < Rank(r)})
          upTo   == Cardinality({s \in table : Rank(s) <= Rank(r)})
      IN  page - 1 \in before \div limit .. (upTo - 1) \div limit

\* api/v1/openapi.yaml:477-479: total_pages is the "Total number of pages", so
\* each of them can be fetched.  Violated by Elasticsearch's last page.
AnnouncedPagesWork == walking => status # 500
===============================================================================
