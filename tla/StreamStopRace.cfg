CONSTANTS
    e1 = e1
    e2 = e2
    p1 = p1
    Execs = {e1}
    NoExec = NoExec
    Programs = {p1}
    ProgramOf <- SharedProgram
    FailingJobs = {e1}
    Faults = {}
    QueueCap = 4
    MaxBreaks = 0
    BreakKinds = {"retryable"}
    MaxStops = 1
    MaxUnsolicited = 0
    MaxCancels = 0
SPECIFICATION Spec
INVARIANT StopCancelsInFlight
