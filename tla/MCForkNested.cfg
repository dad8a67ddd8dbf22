CONSTANTS
    Lex <- NestLex
    Norm <- ForkNorm
    Text <- Strings
    Nodes <- NestNodes
    Start = "split"
    NodeAttrs <- NestAttrs
    Edges <- NestEdges
    GraphRetryTarget = ""
    Keys = {}
    CtxKeys <- Ctx
    HasFuse = FALSE
    MaxRetries = 1
    FanOut = "split"
    Policies <- PlainPolicies
    Bounded = FALSE
SPECIFICATION Spec
INVARIANTS BranchesRunOnce
