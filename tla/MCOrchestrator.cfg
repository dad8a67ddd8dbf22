SPECIFICATION Spec
CONSTANTS
    Lines <- MCLines
    Threads <- MCThreads
    Scenarios <- MCScenarios
    MaxAnswers = 1
CHECK_DEADLOCK FALSE
INVARIANTS
    ServedAsDeclared
    ThreadsToldTrue
    AnswerHeardOnce
    GateNeedsVerdict
    
