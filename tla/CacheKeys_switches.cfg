\* Searches that differ in fuzzy and highlight only.
SPECIFICATION Spec
CONSTANTS
  Clients = {c1, c2}
  Procs = {api}
  Requests <- SwitchedSearches
  Query <- SwitchedSearches
  Key <- MCKey
  KeyOf <- MCKeyOf
  MaxVersion = 0
  Faults = {}
  None = None
  Failed = Failed
  api = api
SYMMETRY ClientSymmetry
INVARIANT AnswersOwnQuery
