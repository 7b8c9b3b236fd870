CONSTANTS
  Params <- MCParams
  Containers <- MCContainers
  Databases <- TwinDatabases
  Packets <- MCPackets
  MAX_CONTAINER_DEPTH = 2
SPECIFICATION TwinSpec
INVARIANTS
  ReuseIsInvisible
  InheritorOrderIrrelevant
  TruncationIsReported
