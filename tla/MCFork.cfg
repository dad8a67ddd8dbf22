CONSTANTS
    Lex <- ForkLex
    Norm <- ForkNorm
    Text <- Strings
    Nodes <- ForkNodes
    Start = "split"
    NodeAttrs <- ForkAttrs
    Edges <- ForkEdges
    GraphRetryTarget = ""
    Keys = {}
    CtxKeys <- Ctx
    HasFuse = FALSE
    MaxRetries = 1
    FanOut = "split"
    Policies <- ForkPolicies
    Bounded = TRUE
SPECIFICATION FairSpec
INVARIANTS SlotsConserved  NothingHidden
PROPERTIES FanOutEnds
