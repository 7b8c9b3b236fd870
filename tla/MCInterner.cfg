SPECIFICATION Spec
CONSTANTS
    n1 = n1
    n2 = n2
    n3 = n3
    n4 = n4
    n5 = n5
    Names <- MCNames
    Hash <- MCHash
    Capacities <- MCCapacities
    MinBuckets = 4
    NoName = NoName
    NoCall = NoCall
INVARIANTS
    NamesAreReachable
    LoopsEnd
PROPERTIES
    AnswersAsTable
