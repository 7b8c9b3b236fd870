SPECIFICATION MCSpec
CONSTANTS
    Names <- AllNames
    NoName = noName
    Here = here
    Up = up
    Blank = blank
    Bodies <- DocumentBodies
    MaxElements = 12
    NoRef = noRef
    NoAttribute = noAttribute
    RootNames <- FirstRoots
    MaxExpandedFields = 5
INVARIANTS
    LoadedIsClosed
    ArgumentsAreInherited
    CircularDefinitionsAreRefused
PROPERTIES
    LoadingEnds
\* A load ends.
CHECK_DEADLOCK FALSE
