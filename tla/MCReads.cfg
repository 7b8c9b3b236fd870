CONSTANTS
  ByteBits = 2
  WordBytes = 4
  LengthBytes = 1
  Buffers <- MCBuffers
  Positions <- MCPositions
  Widths <- MCWidths
  Codings <- MCCodings
  SplineSet <- MCSplines
  Queries <- MCQueries
  TextBuffers <- MCTextBuffers
  Delimiters <- MCDelimiters
  Charsets <- MCCharsets
SPECIFICATION Spec
INVARIANTS
  ReadsAreNaive
  ValuesAreExact
  SplineInterpolates
  TextsAreFaithful
