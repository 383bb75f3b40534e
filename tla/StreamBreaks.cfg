CONSTANTS
    e1 = e1
    e2 = e2
    p1 = p1
    Execs = {e1, e2}
    NoExec = NoExec
    Programs = {p1}
    ProgramOf <- SharedProgram
    FailingJobs = {e1}
    Faults = {"INTERNAL"}
    QueueCap = 8
    MaxBreaks = 1
    BreakKinds = {"retryable", "fatal"}
    MaxStops = 0
    MaxUnsolicited = 0
    MaxCancels = 0
SPECIFICATION FairSpec
INVARIANTS NoRequestStranded OnlyForeignErrorsRaised
PROPERTY EverySubmissionEnds
