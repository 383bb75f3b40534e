CONSTANTS
    e1 = e1
    e2 = e2
    p1 = p1
    Execs = {e1, e2}
    NoExec = NoExec
    Programs = {p1}
    ProgramOf <- SharedProgram
    FailingJobs = {e1}
    Faults = {}
    QueueCap = 1
    MaxBreaks = 1
    BreakKinds = {"retryable"}
    MaxStops = 0
    MaxUnsolicited = 0
    MaxCancels = 0
SPECIFICATION FairSpec
PROPERTY BrokenStreamIsReopened
CHECK_DEADLOCK FALSE
