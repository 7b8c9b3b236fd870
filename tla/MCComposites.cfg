SPECIFICATION CompositeSpec
CONSTANTS
    p = p
    q = q
    TypeIds = {1, 2, 3}
    MemberNames = {p, q}
    Declarations <- SomeDeclarations
    Subsets <- SomeSubsets
    MaxExpandedFields = 10
    MaxUsize = 8
INVARIANTS
    FieldsAreInPlace
    RefusalIsJustified
    ExpansionIsBounded
\* The walk ends.
CHECK_DEADLOCK FALSE
