CONSTANTS
  Params <- MCParams
  Containers <- MCContainers
  Databases <- MCDatabases
  Packets <- MCPackets
  MAX_CONTAINER_DEPTH = 2
  MAX_DEPTH = 2
  FieldIdent <- MCFieldIdent
SPECIFICATION Spec
INVARIANTS
  ReadsAsMap
  ValuesOfThisPacket
  PathStillSelected
  GeneratedAgrees
  FieldNamesAreUnique
PROPERTIES
  EveryCallReturns
  AnswersContract
