SPECIFICATION NamespaceSpec
CONSTANTS
    Names = {a, b}
    NoName = noName
    Here = here
    Up = up
    Blank = blank
    Bodies <- NoBodies
    MaxElements = 5
SYMMETRY TwoNames
INVARIANTS
    DefinitionsAreFound
    PlainNamesAreScoped
    DetoursDoNotMatter
\* The document ends.
CHECK_DEADLOCK FALSE
