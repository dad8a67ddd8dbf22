SPECIFICATION Spec
CONSTANTS
    Lex <- MCLex
    Norm <- MCNorm
    Text <- Strings
    CtxKeys <- Keys
    Graphs <- Files
    Roots <- UserFiles
    MaxRetries = 2
INVARIANTS
    ContextsStayApart
    NoInventedVerdict
PROPERTIES
    CancelReachesDown
    ChildrenEnd
CHECK_DEADLOCK FALSE
