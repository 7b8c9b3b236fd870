SPECIFICATION Spec
CONSTANT N = 5
INVARIANTS
    VerdictIsRight
    ReportIsCycle
    DescentEnds
PROPERTY CheckReturns
\* The check stops once it has come to a verdict.
CHECK_DEADLOCK FALSE
