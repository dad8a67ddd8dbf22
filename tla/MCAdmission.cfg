CONSTANTS
    Graphs <- MCGraphs
    Lex <- MCLex
    Norm <- MCNorm
    MaxSteps = 7
    MaxGateRetries = 2
SPECIFICATION Spec
INVARIANTS
    CyclesAgree
    RoutesWereFlagged
    FailuresWereFlagged
PROPERTY DeadBudgetsStayDead
CHECK_DEADLOCK FALSE
