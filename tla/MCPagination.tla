---------------------------- MODULE MCPagination ----------------------------
(* The bounds of the runs of Pagination.                                     *)
EXTENDS Pagination, TLC

\* Other clients ask for the first two pages of two rows.
SharedDef == {<<1, 2>>, <<2, 2>>}

\* A limit that is not allowed, and one that the rows fill more than once.
LimitsDef == {0, 2}

\* The client leaves the parameter out.
LeftOut == {Absent}

Sym == Permutations(Slots)
=============================================================================
