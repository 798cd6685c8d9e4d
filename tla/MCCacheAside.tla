----------------------------- MODULE MCCacheAside -----------------------------
(* Model-checking instances of CacheAside.                                    *)
EXTENDS CacheAside, TLC

CONSTANTS q1, k1, api, mcp

OneKey == [q \in Query |-> k1]

Symmetry == Permutations(Clients) \cup Permutations(Procs)
===============================================================================
