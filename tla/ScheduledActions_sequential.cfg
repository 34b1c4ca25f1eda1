SPECIFICATION Spec
CONSTANTS
    Actions = {a1, a2}
    NoRow = NoRow
    Requests = {r1}
    Runs = {x1, x2}
    NoRun = NoRun
    MaxFaults = 0
    MaxCrashes = 1
    MaxJobs = 1
    MaxWorkers = 2
    Calm = TRUE
INVARIANTS
    TypeOK
    ScheduleMatchesRow
    OneWorkerPerSchedule
