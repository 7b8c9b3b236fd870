CONSTANTS
  Bytes <- MCBytes
  Streams <- MCStreams
  Skips <- MCSkips
  PRIMARY_HEADER_BYTES = 2
  MAX_USIZE = 22
  Limits <- MCLimits
SPECIFICATION CommandSpec
INVARIANTS
  ItemsTileStream
  NoSilentTail
  OffsetsDoNotOverflow
  OkMeansAllSeen
PROPERTY RunEnds
\* The command ends.
CHECK_DEADLOCK FALSE
