CONSTANTS
    Agents = {a1}
    MaxRuns = 2
    Configs <- SomeConfigs
    Window = 4
    MaxCalls = 3
    MaxInputs = 2
    MaxMessages = 1
SPECIFICATION Spec
INVARIANTS RequestPairsCalls SuccessIsAnswered
PROPERTIES  ResultsKept
CHECK_DEADLOCK FALSE
