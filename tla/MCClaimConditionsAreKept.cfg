SPECIFICATION ClaimSpec
CONSTANTS
    Names <- AllNames
    NoName = noName
    Here = here
    Up = up
    Blank = blank
    Bodies <- DocumentBodies
    MaxElements = 12
    NoRef = noRef
    NoAttribute = noAttribute
    RootNames <- FirstRoots
    MaxExpandedFields = 5
INVARIANT
    ConditionsAreKept
\* A load ends.
CHECK_DEADLOCK FALSE
