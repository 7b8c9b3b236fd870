CONSTANTS
  Elements <- MCElements
  Vocabulary <- MCVocabulary
  Sections <- MCSections
  MaxElements = 4
  MaxTexts = 2
SPECIFICATION Spec
CHECK_DEADLOCK FALSE
INVARIANTS
  ArenaIsDocument
  LinksGoForward
  TextIsOwn
  NavigationReadsBack
