\* Up to five rows in chunks of two, three edits; the model ends with the
\* stream.
SPECIFICATION FairSpec
CONSTANTS
  MaxId = 5
  ChunkSize = 2
  MaxEdits = 3
CHECK_DEADLOCK FALSE
INVARIANT TypeOK
PROPERTIES StreamEnds ImplementsOrderedStream
