CONSTANTS
    Lex <- LoopLex
    Norm <- LoopNorm
    Text <- Strings
    Nodes <- LoopNodes
    Start = "start"
    NodeAttrs <- LoopAttrs
    Edges <- LoopEdges
    GraphRetryTarget = ""
    Keys = {}
    CtxKeys <- LoopCtx
    HasFuse = FALSE
    MaxRetries = 2
    MaxInterruptions = 2
SPECIFICATION FairSpec
INVARIANTS TypeOK CrashCost GatesHeldAtSuccess
PROPERTIES BudgetsKept Terminates
CHECK_DEADLOCK FALSE
