SPECIFICATION Spec
CONSTANTS
    Actions = {a1}
    NoRow = NoRow
    Requests = {r1, r2}
    Runs = {x1}
    NoRun = NoRun
    MaxFaults = 1
    MaxCrashes = 0
    MaxJobs = 0
    MaxWorkers = 1
    Calm = TRUE
SYMMETRY Symmetry
INVARIANTS
    QueueExists
    OneDeletionSucceeds
PROPERTIES
    DeletedStaysDeleted
