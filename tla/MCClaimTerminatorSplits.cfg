CONSTANTS
  ByteBits = 2
  WordBytes = 4
  LengthBytes = 1
  Buffers <- ClaimBuffers
  Positions <- MCPositions
  Widths <- MCWidths
  Codings <- MCCodings
  SplineSet <- ClaimSplines
  Queries <- MCQueries
  TextBuffers <- ClaimTexts
  Delimiters <- ClaimDelimiters
  Charsets <- ClaimCharsets
SPECIFICATION Spec
INVARIANT TerminatorSplitsNothing
