CONSTANTS
    Callers = {c1, c2}
    Ids = {"streamed", "other"}
    StreamedId = "streamed"
    MaxTries = 2
    MaxDeletes = 1
    HasTimeout = TRUE
SPECIFICATION FairSpec
INVARIANTS TypeOK AnswersAreTrue RunsOnce ErrorsAreExplained
PROPERTY EveryCallEnds
CHECK_DEADLOCK FALSE
