\* Two runs over three kitabs of at most one section, with every fault;
\* one of the kitabs may have no row in daftar_kitab.
SPECIFICATION FairSpec
CONSTANTS
  Kitab = {k1, k2, k3}
  MaxSection = 1
  Workers = 2
  QueueCap = 1
  MaxRuns = 2
  Titles <- OneMayLack
  Faults = {"net", "http", "bulk", "pg", "kill"}
INVARIANTS TypeOK StreamsBounded NoAddAfterClose ErrChanNeverFull AllCounted
INVARIANTS SuccessIsComplete LoadIsHidden
PROPERTIES SyncTerminates SuccessBecomesSearchable
