CONSTANTS
    MaxAttempts = 2
    MaxVisits = 2
    MaxTime = 3
    NodeKinds <- Kinds
    Returned = {"success", "retry", "skipped"}
    Reported = {"success", "retry"}
SPECIFICATION FairSpec
INVARIANTS AttemptsTypeOK OneHandlerAtATime VerdictIsThisAttempts ExplicitMeansAsserted
    ArtifactBehindCompletion
PROPERTIES VisitsEnd
