----------------------------- MODULE KeysetStream -----------------------------
(***************************************************************************)
(* StreamKontenChunked of internal/repository/postgres.go: the sections of *)
(* one kitab are read in chunks, each chunk by a query of its own that     *)
(* starts after the last id seen (WHERE id > lastID ORDER BY id LIMIT      *)
(* chunkSize), while other sessions insert and delete rows.                *)
(*                                                                         *)
(* A row is its id.  An id can become visible after a greater one: it is   *)
(* taken when the row is inserted, not when that transaction commits.      *)
(***************************************************************************)
EXTENDS Naturals, FiniteSets, Sequences

CONSTANTS
  MaxId,        \* bound: the ids are 1..MaxId
  ChunkSize,    \* cfg.SyncChunkSize
  MaxEdits      \* bound: how often other sessions change the table

ASSUME StreamAssumption ==
  /\ MaxId \in Nat
  /\ ChunkSize \in Nat
  /\ MaxEdits \in Nat

Id == 1..MaxId

VARIABLES
  table,    \* the ids of the kitab's rows
  stable,   \* history: the rows that are there since the stream began
  seen,     \* history: the rows that were there at some time since then
  edits,    \* history: how often the table has changed
  pc,       \* "query", "rows", "end", or "failed"
  lastID, count,
  batch,    \* the rows of the current result that are still to come
  out       \* the rows fn was called with, in order

vars == <<table, stable, seen, edits, pc, lastID, count, batch, out>>

Init ==
  /\ table \in SUBSET Id
  /\ stable = table /\ seen = table
  /\ edits = 0
  /\ pc = "query"
  /\ lastID = 0 /\ count = 0
  /\ batch = {}
  /\ out = <<>>

After(S, id) == {i \in S : i > id}

\* Mutant of Limit: the query has lost its ORDER BY.
LimitUnordered(S, n) ==
  {B \in SUBSET S : Cardinality(B) = n \/ (B = S /\ Cardinality(B) < n)}

\* What ORDER BY id LIMIT n leaves of the set S: its n least elements, or all.
Limit(S, n) ==
  {B \in SUBSET S : /\ \A i \in B, j \in S \ B : i < j
                    /\ \/ Cardinality(B) = n
                       \/ B = S /\ Cardinality(B) < n}

\* Mutant of Query: the rows are counted over all chunks.
QueryKeepsCount ==
  /\ pc = "query"
  /\ batch' \in Limit(After(table, lastID), ChunkSize)
  /\ pc' = "rows"
  /\ UNCHANGED <<table, stable, seen, edits, lastID, count, out>>

\* One chunk's query sees the table as it is now.
Query ==
  /\ pc = "query"
  /\ batch' \in Limit(After(table, lastID), ChunkSize)
  /\ count' = 0
  /\ pc' = "rows"
  /\ UNCHANGED <<table, stable, seen, edits, lastID, out>>

Row ==
  /\ pc = "rows"
  /\ \E i \in batch :
       /\ \A j \in batch : i <= j
       /\ batch' = batch \ {i}
       /\ lastID' = i
       /\ out' = Append(out, i)
  /\ count' = count + 1
  /\ UNCHANGED <<table, stable, seen, edits, pc>>

\* The rows are used up: a chunk that was not full was the last one.
ChunkEnd ==
  /\ pc = "rows"
  /\ batch = {}
  /\ pc' = IF count < ChunkSize THEN "end" ELSE "query"
  /\ UNCHANGED <<table, stable, seen, edits, lastID, count, batch, out>>

\* The query, a row or the callback fails: the stream is given up.
Fail ==
  /\ pc \in {"query", "rows"}
  /\ pc' = "failed"
  /\ UNCHANGED <<table, stable, seen, edits, lastID, count, batch, out>>

\* Other sessions.
Insert(i) ==
  /\ i \notin table
  /\ edits < MaxEdits
  /\ table' = table \cup {i}
  /\ seen' = seen \cup {i}
  /\ edits' = edits + 1
  /\ UNCHANGED <<stable, pc, lastID, count, batch, out>>

Delete(i) ==
  /\ i \in table
  /\ edits < MaxEdits
  /\ table' = table \ {i}
  /\ stable' = stable \ {i}
  /\ edits' = edits + 1
  /\ UNCHANGED <<seen, pc, lastID, count, batch, out>>

Stream == Query \/ Row \/ ChunkEnd

Next == Stream \/ Fail \/ \E i \in Id : Insert(i) \/ Delete(i)

Spec == Init /\ [][Next]_vars

\* The streaming goroutine is scheduled and PostgreSQL answers it.
FairSpec == Spec /\ WF_vars(Stream)
-------------------------------------------------------------------------------
(* Properties.                                                               *)

\* Type correctness of the variables.
TypeOK ==
  /\ table \subseteq seen /\ seen \subseteq Id /\ stable \subseteq table
  /\ edits \in Nat
  /\ pc \in {"query", "rows", "end", "failed"}
  /\ lastID \in 0..MaxId /\ count \in 0..ChunkSize
  /\ batch \subseteq Id
  /\ out \in Seq(Id)

Promise == INSTANCE OrderedStream
             WITH state <- IF pc \in {"query", "rows"} THEN "open" ELSE pc

\* Callers cannot tell the chunks: the stream hands over a row only when every
\* smaller row that was always there has been handed over, also if it fails
\* later, and never one that was not in the table while it ran.
ImplementsOrderedStream == Promise!Spec

\* Two consequences of it.  No row is handed to the callback twice, and rows
\* come in the order of their ids, although every chunk is a query of its own
\* and the table changes between two of them.
Ascending == \A i, j \in 1..Len(out) : i < j => out[i] < out[j]

\* A stream that ends without an error has handed over every row that was
\* there from its beginning to its end.
NoStableRowSkipped ==
  pc = "end" => \A r \in stable : \E i \in 1..Len(out) : out[i] = r

\* A stream with a positive chunk size ends, whatever other sessions do to the
\* table.
StreamEnds == <>(pc \in {"end", "failed"})
===============================================================================
