CONSTANTS
    Lex <- WideLex
    Norm <- SkipNorm
    Text <- Strings
    Nodes <- WideNodes
    Start = "start"
    NodeAttrs <- WideAttrs
    Edges <- WideEdges
    GraphRetryTarget = ""
    Keys = {"out"}
    CtxKeys <- SkipCtx
    HasFuse = TRUE
    MaxRetries = 1
    MaxInterruptions = 2
SPECIFICATION Spec
INVARIANT NoFailedInput
PROPERTIES ReportedSuccessStands CheckpointIsAWalk
