\* One paged and two single reads share one connection.
SPECIFICATION FairSpec
CONSTANTS
  Requests = {r1, r2, r3}
  Paged = {r1}
  MaxConns = 1
  MaxVersion = 1
  None = None
INVARIANTS TypeOK PageIsWhole CauseIsReported
PROPERTY CallsReturn
