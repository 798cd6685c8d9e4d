------------------------------ MODULE MCCacheKeys ------------------------------
(* CacheAside with the keys the code builds: Query is a set of requests and   *)
(* KeyOf the key builders the service applies to them.                        *)
EXTENDS CacheAside, Sequences, TLC

CONSTANTS api, Requests

Keys == INSTANCE CacheKeys WITH Fnv64a <- LAMBDA text : text

\* A page of konten in two sizes.
PageSizes == Keys!KontenFilter({7}, {1}, {20, 50})

\* Searches that differ in nothing but the two switches of the filter.
SwitchedSearches == Keys!SearchFilter({<<"salat">>}, {<<"">>}, {1}, {20})

\* Requests of the five read methods whose texts hold no colon.  Searches have
\* both switches on, which the key leaves out; the page sizes of konten are left
\* to the run.
PlainRequests ==
  LET Text == {<<"">>, <<"fiqh">>, <<"salat">>}
  IN  Keys!KitabFilter(Text, 1..3, {1, 3, 20})
      \cup Keys!KontenFilter(1..3, 1..3, {20})
      \cup [op : {"get"}, id : 1..3] \cup [op : {"kategori"}]
      \cup {r \in Keys!SearchFilter(Text, Text, 1..3, {1, 3, 20}) :
               r.fuzzy /\ r.highlight}

\* The key builders (internal/cache/cache.go) keep them apart.
ASSUME PlainKeysDiffer ==
  \A r, s \in PlainRequests :
    Keys!KeyOfRequest(r) = Keys!KeyOfRequest(s) => r = s

MCKeyOf == [r \in Requests |-> Keys!KeyOfRequest(r)]
MCKey   == {MCKeyOf[r] : r \in Requests}

ClientSymmetry == Permutations(Clients)
===============================================================================
