----------------------------- MODULE ReadThrough -----------------------------
(***************************************************************************)
(* What KitabService promises its callers, without Redis and singleflight. *)
(*                                                                         *)
(* The service holds copies of answers.  A copy is made from the rows as   *)
(* they are at that moment, and only for a query that somebody has asked.  *)
(* It may be handed to any number of callers who asked that query, and it  *)
(* may be dropped at any time.  A caller gets a copy that is held while he *)
(* waits, or an error.  So an answer may be old, but it was never invented *)
(* or meant for another query, and a version whose copies are all gone and *)
(* that the rows have left behind never comes back.                        *)
(***************************************************************************)
EXTENDS Naturals

CONSTANTS Clients, Query, MaxVersion, None, Failed

VARIABLES
  db,       \* the current version of the rows behind each query
  copies,   \* the answers the service holds
  asked,    \* the query each caller waits for, None if it does not wait
  given     \* the answer each caller was given, None if it was given none

vars == <<db, copies, asked, given>>

Init ==
  /\ db = [q \in Query |-> 0]
  /\ copies = {}
  /\ asked = [c \in Clients |-> None]
  /\ given = [c \in Clients |-> None]

Ask(c, q) ==
  /\ asked[c] = None /\ given[c] = None
  /\ asked' = [asked EXCEPT ![c] = q]
  /\ UNCHANGED <<db, copies, given>>

Fetch(q) ==
  /\ \E c \in Clients : asked[c] = q
  /\ copies' = copies \cup {[query |-> q, version |-> db[q]]}
  /\ UNCHANGED <<db, asked, given>>

\* A set of callers is answered at once, each with its own query's copy or
\* with an error; copies may be dropped in the same step.
Answer(S, a) ==
  /\ \A c \in S : asked[c] # None
  /\ a # Failed => a \in copies /\ \A c \in S : asked[c] = a.query
  /\ copies' \subseteq copies
  /\ asked' = [c \in Clients |-> IF c \in S THEN None ELSE asked[c]]
  /\ given' = [c \in Clients |-> IF c \in S THEN a ELSE given[c]]
  /\ UNCHANGED db

\* Callers leave: they take what they were given, or their process dies.
Leave(S) ==
  /\ copies' \subseteq copies
  /\ asked' = [c \in Clients |-> IF c \in S THEN None ELSE asked[c]]
  /\ given' = [c \in Clients |-> IF c \in S THEN None ELSE given[c]]
  /\ UNCHANGED db

Update(q) ==
  /\ db[q] < MaxVersion
  /\ db' = [db EXCEPT ![q] = @ + 1]
  /\ UNCHANGED <<copies, asked, given>>

Next ==
  \/ \E c \in Clients, q \in Query : Ask(c, q)
  \/ \E q \in Query : Fetch(q)
  \/ \E S \in SUBSET Clients, a \in copies \cup {Failed} : Answer(S, a)
  \/ \E S \in SUBSET Clients : Leave(S)
  \/ \E q \in Query : Update(q)

Spec == Init /\ [][Next]_vars
===============================================================================
