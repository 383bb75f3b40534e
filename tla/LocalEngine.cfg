CONSTANTS
    Jobs = {1, 2, 3, 4, 5}
    FlakyJobs = {2, 3}
    Interrupters = 1
    Reps <- MCReps
    Limit = 2
    Concurrency = 3
    MaxTotalSamples = 5
    MaxBatch = 2
    MaxTime = 5
    MaxReservations = 3
    MaxUpdates = 1
    InitialSchedules <- MCInitialSchedules
    Requests <- MCRequests
    CircuitsPerJob = {2, 3}
SPECIFICATION FairSpec
INVARIANTS TypeOK DeliveredBeforeError LimitsAreKept ScheduleIsCalendar BatchIsPerProgram
PROPERTY CollectionIsDone
CHECK_DEADLOCK FALSE
