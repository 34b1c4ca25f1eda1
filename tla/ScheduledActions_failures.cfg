SPECIFICATION FairSpec
CONSTANTS
    Actions = {a1}
    NoRow = NoRow
    Requests = {r1}
    Runs = {x1}
    NoRun = NoRun
    MaxFaults = 2
    MaxCrashes = 2
    MaxJobs = 1
    MaxWorkers = 1
    Calm = FALSE
INVARIANTS
    SuccessMeansScheduled
    DeletionUnschedules
PROPERTIES
    ScheduleGetsWorker
