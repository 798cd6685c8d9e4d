---------------------------- MODULE MCRequestPath ----------------------------
\* Environments for RequestPath: one that starts, and one for each setting that
\* keeps run() from starting, or takes the other search backend.
EXTENDS RequestPath

Empty ==
  [databaseURL |-> Unset, redisURL |-> Unset, elasticURL |-> Unset,
   searchBackend |-> Unset, maxOpenConns |-> Unset]

Good == [Empty EXCEPT !.databaseURL = "postgres://localhost/kutub"]

\* With Int32Half = 32, 40 connections are what 2^31 + 8 are for the program.
SomeEnvironments ==
  {Empty, Good,
   [Good EXCEPT !.databaseURL = Garbage],
   [Good EXCEPT !.redisURL = Garbage],
   [Good EXCEPT !.elasticURL = Garbage],
   [Good EXCEPT !.elasticURL = Garbage, !.searchBackend = "postgres"],
   [Good EXCEPT !.maxOpenConns = Garbage],
   [Good EXCEPT !.maxOpenConns = 40]}
===============================================================================
