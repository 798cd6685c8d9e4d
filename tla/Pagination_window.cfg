\* Elasticsearch with a window that the limit does not divide.
SPECIFICATION Spec
CONSTANTS
  Rows = {1, 2, 3}
  Sources = {"elastic"}
  Ties = {FALSE}
  MaxOrphans = 0
  Window = 3
  MaxLimit = 3
  DefaultLimit = 2
  Word = 8
  Absent = Absent
  RawPages = {1}
  RawLimits <- LeftOut
  Shared = {}
  Slots = {s1, s2}
  NoRead = NoRead
  MaxEdits = 1
CHECK_DEADLOCK FALSE
INVARIANT AnnouncedPagesWork
