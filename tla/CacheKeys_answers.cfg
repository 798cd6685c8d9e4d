\* Two pages of one kitab that differ in their size, in one process whose
\* stores succeed and whose clients stay.
SPECIFICATION FairSpec
CONSTANTS
  Clients = {c1, c2}
  Procs = {api}
  Requests <- PageSizes
  Query <- PageSizes
  Key <- MCKey
  KeyOf <- MCKeyOf
  MaxVersion = 1
  Faults = {"get", "db", "crash"}
  None = None
  Failed = Failed
  api = api
INVARIANTS AnswersOwnQuery MonotonicReads
PROPERTIES EveryRequestReturns EventuallyCurrent
