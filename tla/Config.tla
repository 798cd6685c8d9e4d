-------------------------------- MODULE Config --------------------------------
(***************************************************************************)
(* internal/config: the settings a command reads from its environment, as  *)
(* far as they decide how it starts.  The value of a variable is Unset     *)
(* (missing or empty), Garbage (a text that its reader cannot parse), or   *)
(* what it says.                                                           *)
(***************************************************************************)
EXTENDS Integers

CONSTANTS
  Unset,
  Garbage,
  Int32Half     \* 2^31 in the code: pgxpool counts connections with an int32

ASSUME ConfigAssumption == Unset # Garbage /\ Int32Half \in Nat \ {0}

GetEnv(value, fallback) == IF value = Unset THEN fallback ELSE value

\* A number that does not parse is 0, never an error.
ParseInt(value) == IF value = Garbage THEN 0 ELSE value

\* config.New fails if and only if the one required variable is missing.
MustEnv(env) == env.databaseURL # Unset

New(env) ==
  [databaseURL   |-> env.databaseURL,
   redisURL      |-> GetEnv(env.redisURL, "redis://localhost:6379/0"),
   elasticURL    |-> GetEnv(env.elasticURL, "http://localhost:9200"),
   searchBackend |-> GetEnv(env.searchBackend, "elastic"),
   maxOpenConns  |-> ParseInt(GetEnv(env.maxOpenConns, 25))]

\* int32(cfg.MaxOpenConns).
MaxConns(cfg) == ((cfg.maxOpenConns + Int32Half) % (2 * Int32Half)) - Int32Half
===============================================================================
