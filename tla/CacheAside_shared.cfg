\* Three clients of two processes, one key, everything may go wrong but the
\* database's reads.
SPECIFICATION Spec
CONSTANTS
  Clients = {c1, c2, c3}
  Procs = {api, mcp}
  Query = {q1}
  Key = {k1}
  KeyOf <- OneKey
  MaxVersion = 1
  Faults = {"get", "set", "disconnect", "crash"}
  None = None
  Failed = Failed
  q1 = q1  k1 = k1  api = api  mcp = mcp
SYMMETRY Symmetry
INVARIANTS TypeOK OneFlight NoOrphanWaiter
PROPERTIES ImplementsReadThrough OnlyLeaderCancelFails
