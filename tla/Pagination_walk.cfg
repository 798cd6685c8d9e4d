\* Walks and single requests over up to three rows, 4-bit integers, two reads or
\* entries at a time and one transaction of any kind; one page whose offset is
\* negative, one whose offset wraps to that of a row.
SPECIFICATION Spec
CONSTANTS
  Rows = {1, 2, 3}
  Sources = {"list", "konten", "search", "elastic"}
  Ties = {TRUE}
  MaxOrphans = 1
  Window = 6
  MaxLimit = 3
  DefaultLimit = 3
  Word = 8
  Absent = Absent
  RawPages = {0, 7}
  RawLimits <- LimitsDef
  Shared <- SharedDef
  Slots = {s1, s2}
  NoRead = NoRead
  MaxEdits = 1
CHECK_DEADLOCK FALSE
INVARIANTS TypeOK WalkIsComplete NoEmptyPage ExistingPagesAreExact
SYMMETRY Sym
