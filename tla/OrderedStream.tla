---------------------------- MODULE OrderedStream ----------------------------
(***************************************************************************)
(* What callers of StreamKontenChunked rely on, with no word about chunks: *)
(* the rows of a kitab come one at a time, in the order of their ids, and  *)
(* meanwhile other sessions change the table.  The stream is at its end    *)
(* only when it has missed no row that was there all the time.             *)
(***************************************************************************)
EXTENDS Naturals, Sequences

CONSTANT Id   \* the ids, a set of numbers

VARIABLES
  table,    \* the ids of the kitab's rows
  seen,     \* those that were in it at some time since the stream began
  stable,   \* those that were in it all the time
  out,      \* the rows that have been handed over, in order
  state     \* "open", "end", or "failed"

vars == <<table, seen, stable, out, state>>

Handed == {out[n] : n \in 1..Len(out)}

Init ==
  /\ table \in SUBSET Id
  /\ seen = table /\ stable = table
  /\ out = <<>>
  /\ state = "open"

\* A row that is not the next one may be skipped only if it came or went.
Hand(i) ==
  /\ state = "open"
  /\ i \in seen
  /\ \A j \in Handed : j < i
  /\ \A s \in stable : s < i => s \in Handed
  /\ out' = Append(out, i)
  /\ UNCHANGED <<table, seen, stable, state>>

End ==
  /\ state = "open"
  /\ stable \subseteq Handed
  /\ state' = "end"
  /\ UNCHANGED <<table, seen, stable, out>>

Fail ==
  /\ state = "open"
  /\ state' = "failed"
  /\ UNCHANGED <<table, seen, stable, out>>

Insert(i) ==
  /\ table' = table \cup {i}
  /\ seen' = seen \cup {i}
  /\ UNCHANGED <<stable, out, state>>

Delete(i) ==
  /\ table' = table \ {i}
  /\ stable' = stable \ {i}
  /\ UNCHANGED <<seen, out, state>>

Next == End \/ Fail \/ \E i \in Id : Hand(i) \/ Insert(i) \/ Delete(i)

Spec == Init /\ [][Next]_vars
===============================================================================
