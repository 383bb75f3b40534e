CONSTANTS
    e1 = e1
    e2 = e2
    p1 = p1
    Execs = {e1, e2}
    NoExec = NoExec
    Programs = {p1}
    ProgramOf <- SharedProgram
    FailingJobs = {}
    Faults = {}
    QueueCap = 1
    MaxBreaks = 0
    BreakKinds = {"retryable"}
    MaxStops = 1
    MaxUnsolicited = 1
    MaxCancels = 1
SYMMETRY Symmetry
SPECIFICATION Spec
INVARIANTS TypeOK ResponseIsOwn OneOpenStream
PROPERTY ImplementsService
CHECK_DEADLOCK FALSE
