\* A stream fails and the run reports success.
SPECIFICATION Spec
CONSTANTS
  Kitab = {k1, k2}
  MaxSection = 1
  Workers = 1
  QueueCap = 1
  MaxRuns = 1
  Titles <- AllTitled
  Faults = {"pg"}
SYMMETRY Symmetry
INVARIANT SuccessMeansIndexed
