-------------------------- MODULE ScheduledActions --------------------------
(***************************************************************************)
(* Scheduled actions: controllers/action/action.controller.ts on top of    *)
(* services/scheduler/job-scheduler.service.ts, pg-boss and the database.  *)
(*                                                                         *)
(* An action is a row of the database.  While an enabled action has the    *)
(* trigger scheduled_job, pg-boss holds a schedule for it, which puts a    *)
(* job in the action's queue at every tick of its cron expression; a       *)
(* worker of the process polls the queue and runs the action.  Rows,       *)
(* schedules, queues and jobs are in Postgres and outlive the process;     *)
(* workers do not, and are registered again at every start.                *)
(*                                                                         *)
(* A request handler is a sequence of awaited calls; each call is one      *)
(* action here, so that handlers, workers, the start of the process and    *)
(* crashes interleave between the calls.  A call to Postgres may fail      *)
(* (`faults`), before or after it took effect.  The audit log the handlers *)
(* write last is abstracted to whether that write fails.                   *)
(*                                                                         *)
(* Bounds: MaxFaults, MaxCrashes, MaxJobs queued jobs and MaxWorkers idle  *)
(* workers per action (a further worker adds no behaviour beyond the pool  *)
(* Runs of concurrent executions), and the pool Requests of handlers.      *)
(***************************************************************************)
EXTENDS Naturals, FiniteSets

CONSTANTS
    Actions,     \* ids; a new action gets an id never used before
    NoRow,       \* findOne returns null
    Requests,    \* handlers that may run at the same time
    Runs,        \* executions of handleScheduledAction at the same time
    NoRun,
    MaxFaults, MaxCrashes, MaxJobs, MaxWorkers,
    Calm         \* requests come only when the process has initialized, and
                 \* the process stops only between requests

Row == [trigger : {"scheduled_job", "other"}, enabled : BOOLEAN,
        jobId : BOOLEAN]    \* whether config carries a jobId

Run == [id : Actions, attached : BOOLEAN, pc : {"read", "execute"}]

ASSUME BoundsAssumption ==
    /\ MaxFaults \in Nat /\ MaxCrashes \in Nat /\ MaxJobs \in Nat
    /\ MaxWorkers \in Nat \ {0}
    /\ Calm \in BOOLEAN

ASSUME NoneAssumption == NoRow \notin Row /\ NoRun \notin Run

ASSUME PoolAssumption == Actions # {} /\ IsFiniteSet(Runs)

VARIABLES
    row,        \* the action table
    used,       \* the ids given out
    schedule,   \* pg-boss schedules
    queue,      \* pg-boss queues
    jobs,       \* jobs waiting in each queue
    polling,    \* idle workers of each queue
    run,        \* workers that are processing a job
    server,     \* the process and its JobSchedulerService
    unregistered, \* schedules read at start whose worker is not registered yet
    req,        \* the request handlers
    faults, crashes

database == <<row, used>>
boss == <<schedule, queue, jobs>>
process == <<polling, run, server, unregistered>>
vars == <<database, boss, process, req, faults, crashes>>

\* Where a handler is: the call it makes next.
Steps == {"idle", "insert", "read", "write",                   \* rows
          "checkCancel", "unschedule", "offWork",              \* cancelJob
          "checkSchedule", "createQueue", "work", "schedule",  \* scheduleJob
          "saveJobId", "cleanup", "remove", "audit", "answer"}

\* A handler: `old` is the existingAction it read, `new` the row it writes.
Request == [op : {"none", "create", "import", "update", "delete"}, pc : Steps,
            id : Actions, old : Row \cup {NoRow}, new : Row,
            result : {"none", "ok", "error", "not_found"}]

NoPayload == [trigger |-> "other", enabled |-> FALSE, jobId |-> FALSE]

IdleRequest == [op |-> "none", pc |-> "idle", id |-> CHOOSE a \in Actions : TRUE,
                old |-> NoRow, new |-> NoPayload, result |-> "none"]

IsScheduled(r) == r # NoRow /\ r.trigger = "scheduled_job"
Active(r) == IsScheduled(r) /\ r.enabled

AttachedRuns(a) == {x \in Runs : run[x] # NoRun /\ run[x].id = a /\ run[x].attached}
Workers(a) == polling[a] + Cardinality(AttachedRuns(a))

AddWorker(a) == [polling EXCEPT ![a] = IF @ < MaxWorkers THEN @ + 1 ELSE @]

Initialized == server = "ready"

\* boss.isInstalled(): not before boss.start().
Installed == server \in {"started", "registering", "ready"}

----------------------------------------------------------------------------
\* Handlers: control.

At(r, pc) == req[r].pc = pc
Goto(r, pc) == req' = [req EXCEPT ![r].pc = pc]

\* One more call to Postgres fails.
Fault == faults < MaxFaults /\ faults' = faults + 1
NoFault == UNCHANGED faults

\* The process serves requests.
Serving == server # "down" /\ (Calm => Initialized)

Start(r, op, a, pc, new) ==
    /\ Serving
    /\ req[r].op = "none"
    /\ req' = [req EXCEPT ![r] =
           [op |-> op, pc |-> pc, id |-> a, old |-> NoRow, new |-> new,
            result |-> "none"]]

\* The outer catch block: an import notes the failure in its report and goes on,
\* the others answer 500.
Fail(r) ==
    req' = [req EXCEPT ![r].pc = IF req[r].op = "import" THEN "audit" ELSE "answer",
                       ![r].result = "error"]

\* Workers and handlers end with the process.  Jobs in progress expire and are
\* queued again while they have retries left.
ProcessEnds ==
    /\ server' = "down"
    /\ polling' = [a \in Actions |-> 0]
    /\ run' = [x \in Runs |-> NoRun]
    /\ unregistered' = {}
    /\ req' = [r \in Requests |-> IdleRequest]
    /\ \E back \in SUBSET {x \in Runs : run[x] # NoRun} :
         jobs' = [a \in Actions |->
             LET n == jobs[a] + Cardinality({x \in back : run[x].id = a})
             IN  IF n < MaxJobs THEN n ELSE MaxJobs]

\* The definitions named Mutant... are faults of the code that the properties
\* below must detect; no specification uses them.

MutantScheduleFailed(r) == Goto(r, "audit")

\* The catch blocks around scheduleJob: create and import delete the new row.
ScheduleFailed(r) ==
    IF req[r].op \in {"create", "import"} THEN Goto(r, "cleanup") ELSE Fail(r)

\* What follows cancelJob: the end of an update that disables, scheduleJob in
\* any other update, the deletion of the row.
AfterCancel(r) ==
    Goto(r, IF req[r].op = "delete" THEN "remove"
            ELSE IF req[r].new.enabled THEN "checkSchedule" ELSE "audit")

MutantCancelFailed(r) == AfterCancel(r)

\* The catch blocks around cancelJob: an update that disables the action only
\* logs the error.
CancelFailed(r) ==
    IF req[r].op = "update" /\ ~req[r].new.enabled
      THEN Goto(r, "audit") ELSE Fail(r)

----------------------------------------------------------------------------
\* create and import: insert the row, schedule it when it is active.  An import
\* does so for each action of its file, one after the other; here a file holds
\* one action, and "audit" is the end of an import that skips it because there
\* is an action with its name.

StartCreate(r) ==
    /\ \E a \in Actions \ used, op \in {"create", "import"},
          trigger \in {"scheduled_job", "other"}, enabled \in BOOLEAN :
         /\ Start(r, op, a, "insert",
                  [trigger |-> trigger, enabled |-> enabled, jobId |-> FALSE])
         /\ used' = used \cup {a}
    /\ UNCHANGED <<row, boss, process, faults, crashes>>

StartSkippedImport(r) ==
    /\ \E a \in used : row[a] # NoRow /\ Start(r, "import", a, "audit", NoPayload)
    /\ UNCHANGED <<database, boss, process, faults, crashes>>

Insert(r) ==
    LET a == req[r].id IN
    /\ At(r, "insert")
    /\ \/ /\ row' = [row EXCEPT ![a] = req[r].new]
          /\ Goto(r, IF Active(req[r].new) THEN "checkSchedule" ELSE "audit")
          /\ NoFault
       \/ /\ Fault
          /\ row' \in {row, [row EXCEPT ![a] = req[r].new]}
          /\ Fail(r)
    /\ UNCHANGED <<used, boss, process, crashes>>

\* "If scheduling fails, delete the action we just created."
Cleanup(r) ==
    LET a == req[r].id IN
    /\ At(r, "cleanup")
    /\ \/ row' = [row EXCEPT ![a] = NoRow] /\ NoFault
       \/ Fault /\ UNCHANGED row
    /\ Fail(r)
    /\ UNCHANGED <<used, boss, process, crashes>>

----------------------------------------------------------------------------
\* update and delete: read the row first.

\* An update replaces every field; the client either sends back the config it
\* once got (`echo`), jobId included, or a config of its own.
StartUpdate(r) ==
    /\ \E a \in used, trigger \in {"scheduled_job", "other"},
          enabled \in BOOLEAN, echo \in BOOLEAN :
         Start(r, "update", a, "read",
               [trigger |-> trigger, enabled |-> enabled, jobId |-> echo])
    /\ UNCHANGED <<database, boss, process, faults, crashes>>

StartDelete(r) ==
    /\ \E a \in used : Start(r, "delete", a, "read", NoPayload)
    /\ UNCHANGED <<database, boss, process, faults, crashes>>

Read(r) ==
    LET x == req[r]
        old == row[x.id]
    IN
    /\ At(r, "read")
    /\ \/ /\ old = NoRow
          /\ req' = [req EXCEPT ![r].pc = "answer", ![r].result = "not_found"]
          /\ NoFault
       \/ /\ old # NoRow
          /\ req' = [req EXCEPT
                 ![r].old = old,
                 ![r].pc = IF x.op = "update" THEN "write"
                           ELSE IF IsScheduled(old) /\ old.jobId THEN "checkCancel"
                           ELSE "remove"]
          /\ NoFault
       \/ Fault /\ Fail(r)
    /\ UNCHANGED <<database, boss, process, crashes>>

MutantUpdateCase(old, new) ==
    IF IsScheduled(old) /\ new.enabled
      THEN IF old.jobId THEN "checkCancel" ELSE "checkSchedule"
    ELSE IF ~IsScheduled(old) /\ Active(new) THEN "checkSchedule"
    ELSE "audit"

\* What update does after its write, by the row it read and the row it wrote.
UpdateCase(old, new) ==
    IF IsScheduled(old) /\ ~new.enabled /\ old.jobId THEN "checkCancel"   \* 1
    ELSE IF IsScheduled(old) /\ new.enabled                               \* 2
           THEN IF old.jobId THEN "checkCancel" ELSE "checkSchedule"
    ELSE IF ~IsScheduled(old) /\ Active(new) THEN "checkSchedule"         \* 3
    ELSE "audit"

MutantWrite(r) ==
    LET x == req[r] IN
    /\ At(r, "write")
    /\ row' = [row EXCEPT ![x.id] = x.new]
    /\ Goto(r, UpdateCase(x.old, x.new))
    /\ UNCHANGED <<used, boss, process, faults, crashes>>

\* prisma.update throws when the row is gone.
Write(r) ==
    LET x == req[r] IN
    /\ At(r, "write")
    /\ \/ /\ row[x.id] # NoRow
          /\ row' = [row EXCEPT ![x.id] = x.new]
          /\ Goto(r, UpdateCase(x.old, x.new))
          /\ NoFault
       \/ /\ row[x.id] = NoRow
          /\ Fail(r)
          /\ UNCHANGED row /\ NoFault
       \/ /\ Fault
          /\ row' \in {row, [row EXCEPT ![x.id] = IF @ = NoRow THEN @ ELSE x.new]}
          /\ Fail(r)
    /\ UNCHANGED <<used, boss, process, crashes>>

MutantRemove(r) ==
    /\ At(r, "remove")
    /\ row' = [row EXCEPT ![req[r].id] = NoRow]
    /\ Goto(r, "audit")
    /\ UNCHANGED <<used, boss, process, faults, crashes>>

\* prisma.delete throws when the row is gone.
Remove(r) ==
    LET a == req[r].id IN
    /\ At(r, "remove")
    /\ \/ /\ row[a] # NoRow
          /\ row' = [row EXCEPT ![a] = NoRow]
          /\ Goto(r, "audit")
          /\ NoFault
       \/ /\ row[a] = NoRow
          /\ Fail(r)
          /\ UNCHANGED row /\ NoFault
       \/ /\ Fault
          /\ row' \in {row, [row EXCEPT ![a] = NoRow]}
          /\ Fail(r)
    /\ UNCHANGED <<used, boss, process, crashes>>

\* The audit log is written last: its failure turns the answer into a 500.  An
\* import has answered already: to answer again throws out of the handler, and
\* the unhandled rejection ends the process.
Audit(r) ==
    /\ At(r, "audit")
    /\ \/ /\ req' = [req EXCEPT ![r].pc = "answer",
                              ![r].result = IF @ = "none" THEN "ok" ELSE @]
          /\ NoFault
          /\ UNCHANGED <<jobs, process>>
       \/ req[r].op # "import" /\ Fault /\ Fail(r) /\ UNCHANGED <<jobs, process>>
       \/ req[r].op = "import" /\ Fault /\ ProcessEnds
    /\ UNCHANGED <<database, schedule, queue, crashes>>

Answer(r) ==
    /\ At(r, "answer")
    /\ req' = [req EXCEPT ![r] = IdleRequest]
    /\ UNCHANGED <<database, boss, process, faults, crashes>>

----------------------------------------------------------------------------
\* cancelJob.

CheckCancel(r) ==
    /\ At(r, "checkCancel")
    /\ \/ Installed /\ Goto(r, "unschedule") /\ NoFault
       \/ ~Installed /\ CancelFailed(r) /\ NoFault
       \/ Fault /\ CancelFailed(r)
    /\ UNCHANGED <<database, boss, process, crashes>>

Unschedule(r) ==
    LET a == req[r].id IN
    /\ At(r, "unschedule")
    /\ \/ /\ schedule' = schedule \ {a}
          /\ Goto(r, "offWork")
          /\ NoFault
       \/ /\ Fault
          /\ schedule' \in {schedule, schedule \ {a}}
          /\ CancelFailed(r)
    /\ UNCHANGED <<database, queue, jobs, process, crashes>>

MutantStopsOneWorker(r) ==
    /\ At(r, "offWork")
    /\ polling' = [polling EXCEPT ![req[r].id] = @ - 1]
    /\ AfterCancel(r)
    /\ UNCHANGED <<database, boss, run, server, unregistered, faults, crashes>>

MutantStopsNoWorker(r) ==
    /\ At(r, "offWork")
    /\ AfterCancel(r)
    /\ UNCHANGED <<database, boss, process, faults, crashes>>

\* Every worker of the queue stops; one that is processing a job ends it first.
OffWork(r) ==
    LET a == req[r].id IN
    /\ At(r, "offWork")
    /\ polling' = [polling EXCEPT ![a] = 0]
    /\ run' = [x \in Runs |-> IF x \in AttachedRuns(a)
                                THEN [run[x] EXCEPT !.attached = FALSE]
                                ELSE run[x]]
    /\ AfterCancel(r)
    /\ UNCHANGED <<database, boss, server, unregistered, faults, crashes>>

----------------------------------------------------------------------------
\* scheduleJob.

MutantCheckSchedule(r) ==
    /\ At(r, "checkSchedule")
    /\ IF Installed /\ IsScheduled(req[r].new)
         THEN Goto(r, "work") ELSE ScheduleFailed(r)
    /\ UNCHANGED <<database, boss, process, faults, crashes>>

CheckSchedule(r) ==
    /\ At(r, "checkSchedule")
    /\ \/ Installed /\ IsScheduled(req[r].new) /\ Goto(r, "createQueue") /\ NoFault
       \/ ~(Installed /\ IsScheduled(req[r].new)) /\ ScheduleFailed(r) /\ NoFault
       \/ Fault /\ ScheduleFailed(r)
    /\ UNCHANGED <<database, boss, process, crashes>>

CreateQueue(r) ==
    LET a == req[r].id IN
    /\ At(r, "createQueue")
    /\ \/ /\ queue' = queue \cup {a}
          /\ Goto(r, "work")
          /\ NoFault
       \/ /\ Fault
          /\ queue' \in {queue, queue \cup {a}}
          /\ ScheduleFailed(r)
    /\ UNCHANGED <<database, schedule, jobs, process, crashes>>

\* Each call adds a worker; the offWork before it is commented out.
Work(r) ==
    /\ At(r, "work")
    /\ polling' = AddWorker(req[r].id)
    /\ Goto(r, "schedule")
    /\ UNCHANGED <<database, boss, run, server, unregistered, faults, crashes>>

Schedule(r) ==
    LET x == req[r] IN
    /\ At(r, "schedule")
    /\ \/ /\ schedule' = schedule \cup {x.id}
          /\ Goto(r, IF x.op = "create" \/ ~IsScheduled(x.old) \/ ~x.new.jobId
                       THEN "saveJobId" ELSE "audit")
          /\ NoFault
       \/ /\ Fault
          /\ schedule' \in {schedule, schedule \cup {x.id}}
          /\ ScheduleFailed(r)
    /\ UNCHANGED <<database, queue, jobs, process, crashes>>

\* The config of the row gets the jobId; prisma.update throws when the row is
\* gone.
SaveJobId(r) ==
    LET a == req[r].id IN
    /\ At(r, "saveJobId")
    /\ \/ /\ row[a] # NoRow
          /\ row' = [row EXCEPT ![a].jobId = TRUE]
          /\ Goto(r, "audit")
          /\ NoFault
       \/ /\ row[a] = NoRow
          /\ ScheduleFailed(r)
          /\ UNCHANGED row /\ NoFault
       \/ /\ Fault
          /\ row' \in {row, [row EXCEPT ![a] =
                               IF @ = NoRow THEN @ ELSE [@ EXCEPT !.jobId = TRUE]]}
          /\ ScheduleFailed(r)
    /\ UNCHANGED <<used, boss, process, crashes>>

----------------------------------------------------------------------------
\* Jobs and workers.

\* pg-boss, running in the process, adds a job at a tick of the cron expression.
CronTick(a) ==
    /\ Installed
    /\ a \in schedule
    /\ jobs[a] < MaxJobs
    /\ jobs' = [jobs EXCEPT ![a] = @ + 1]
    /\ UNCHANGED <<database, schedule, queue, process, req, faults, crashes>>

\* An idle worker takes a job: handleScheduledAction starts.
TakeJob(a, x) ==
    /\ jobs[a] > 0
    /\ polling[a] > 0
    /\ run[x] = NoRun
    /\ jobs' = [jobs EXCEPT ![a] = @ - 1]
    /\ polling' = [polling EXCEPT ![a] = @ - 1]
    /\ run' = [run EXCEPT ![x] = [id |-> a, attached |-> TRUE, pc |-> "read"]]
    /\ UNCHANGED <<database, schedule, queue, server, unregistered, req,
                   faults, crashes>>

\* The handler ends; its worker polls again unless offWork stopped it.  A job
\* that failed is queued again while it has retries left.
EndRun(x, retried) ==
    LET a == run[x].id IN
    /\ run' = [run EXCEPT ![x] = NoRun]
    /\ polling' = IF run[x].attached THEN AddWorker(a) ELSE polling
    /\ jobs' = IF retried /\ jobs[a] < MaxJobs
                 THEN [jobs EXCEPT ![a] = @ + 1] ELSE jobs

\* findOne; an action that is missing or disabled fails the job.
ReadAction(x) ==
    LET r == row[run[x].id] IN
    /\ run[x] # NoRun
    /\ run[x].pc = "read"
    /\ IF r # NoRow /\ r.enabled
         THEN /\ run' = [run EXCEPT ![x].pc = "execute"]
              /\ UNCHANGED <<jobs, polling>>
         ELSE \E retried \in BOOLEAN : EndRun(x, retried)
    /\ UNCHANGED <<database, schedule, queue, server, unregistered, req,
                   faults, crashes>>

\* ActionHelper.execute with the action read before; it may fail.
Execute(x) ==
    /\ run[x] # NoRun
    /\ run[x].pc = "execute"
    /\ \E retried \in BOOLEAN : EndRun(x, retried)
    /\ UNCHANGED <<database, schedule, queue, server, unregistered, req,
                   faults, crashes>>

----------------------------------------------------------------------------
\* The process.

\* The process stops, by a crash or SIGTERM.
Crash ==
    /\ server # "down"
    /\ crashes < MaxCrashes
    /\ Calm => \A r \in Requests : At(r, "idle")
    /\ crashes' = crashes + 1
    /\ ProcessEnds
    /\ UNCHANGED <<database, schedule, queue, faults>>

\* httpServer.listen, before the scheduler is initialized.
Listen ==
    /\ server = "down"
    /\ server' = "listening"
    /\ UNCHANGED <<database, boss, polling, run, unregistered, req, faults, crashes>>

\* boss.start(); initialize() throws its error again, nothing catches it, and
\* the process ends.
StartBoss ==
    /\ server = "listening"
    /\ \/ /\ server' = "started"
          /\ NoFault
          /\ UNCHANGED <<jobs, polling, run, unregistered, req>>
       \/ Fault /\ ProcessEnds
    /\ UNCHANGED <<database, schedule, queue, crashes>>

MutantFetchSchedules ==
    /\ server = "started"
    /\ server' = "ready"
    /\ UNCHANGED <<database, boss, polling, run, unregistered, req, faults, crashes>>

\* boss.getSchedules(); an error is logged and initialize() succeeds.
FetchSchedules ==
    /\ server = "started"
    /\ unregistered' = schedule
    /\ \/ server' = "registering" /\ NoFault
       \/ server' = "ready" /\ Fault
    /\ UNCHANGED <<database, boss, polling, run, req, crashes>>

\* One more worker of the schedules read; an error is logged and ends the loop.
Register ==
    /\ server = "registering"
    /\ \/ \E a \in unregistered :
            /\ queue' = queue \cup {a}
            /\ polling' = AddWorker(a)
            /\ unregistered' = unregistered \ {a}
            /\ UNCHANGED server /\ NoFault
       \/ /\ unregistered # {}
          /\ server' = "ready"
          /\ Fault
          /\ UNCHANGED <<queue, polling, unregistered>>
       \/ /\ unregistered = {}
          /\ server' = "ready"
          /\ UNCHANGED <<queue, polling, unregistered>> /\ NoFault
    /\ UNCHANGED <<database, schedule, jobs, run, req, crashes>>

----------------------------------------------------------------------------

Init ==
    /\ row = [a \in Actions |-> NoRow]
    /\ used = {}
    /\ schedule = {}
    /\ queue = {}
    /\ jobs = [a \in Actions |-> 0]
    /\ polling = [a \in Actions |-> 0]
    /\ run = [x \in Runs |-> NoRun]
    /\ server = "down"
    /\ unregistered = {}
    /\ req = [r \in Requests |-> IdleRequest]
    /\ faults = 0
    /\ crashes = 0

NewRequest(r) ==
    StartCreate(r) \/ StartSkippedImport(r) \/ StartUpdate(r) \/ StartDelete(r)

HandlerStep(r) ==
    \/ Insert(r) \/ Cleanup(r) \/ Read(r) \/ Write(r) \/ Remove(r)
    \/ CheckCancel(r) \/ Unschedule(r) \/ OffWork(r)
    \/ CheckSchedule(r) \/ CreateQueue(r) \/ Work(r) \/ Schedule(r)
    \/ SaveJobId(r) \/ Audit(r) \/ Answer(r)

WorkerStep(x) ==
    \/ \E a \in Actions : TakeJob(a, x)
    \/ ReadAction(x)
    \/ Execute(x)

ProcessStart == Listen \/ StartBoss \/ FetchSchedules \/ Register

Next ==
    \/ \E r \in Requests : NewRequest(r) \/ HandlerStep(r)
    \/ \E a \in Actions : CronTick(a)
    \/ \E x \in Runs : WorkerStep(x)
    \/ ProcessStart
    \/ Crash

Spec == Init /\ [][Next]_vars

\* Handlers, workers and the start of the process go on by themselves; users,
\* cron ticks and crashes promise nothing.
FairSpec ==
    /\ Spec
    /\ \A r \in Requests : WF_vars(HandlerStep(r))
    /\ \A x \in Runs : WF_vars(WorkerStep(x))
    /\ WF_vars(ProcessStart)

----------------------------------------------------------------------------
\* Properties.

\* Every variable has its type.
TypeOK ==
    /\ row \in [Actions -> Row \cup {NoRow}]
    /\ used \subseteq Actions
    /\ schedule \subseteq Actions
    /\ queue \subseteq Actions
    /\ jobs \in [Actions -> 0 .. MaxJobs]
    /\ polling \in [Actions -> 0 .. MaxWorkers]
    /\ run \in [Runs -> Run \cup {NoRun}]
    /\ server \in {"down", "listening", "started", "registering", "ready"}
    /\ unregistered \subseteq Actions
    /\ req \in [Requests -> Request]
    /\ faults \in 0 .. MaxFaults
    /\ crashes \in 0 .. MaxCrashes

\* No handler is in progress and the process has initialized.
Quiet == Initialized /\ \A r \in Requests : At(r, "idle")

\* pg-boss never polls or schedules into a queue that does not exist, whatever
\* fails or crashes: no worker, schedule or job without its queue.
QueueExists ==
    \A a \in Actions :
        (\/ a \in schedule \/ polling[a] > 0 \/ AttachedRuns(a) # {}
         \/ jobs[a] > 0) => a \in queue

\* Between requests pg-boss schedules exactly the enabled actions with the
\* trigger scheduled_job, and each of their rows knows its jobId, so that the
\* next update or deletion can cancel it.
ScheduleMatchesRow ==
    Quiet => \A a \in Actions :
        /\ a \in schedule <=> Active(row[a])
        /\ a \in schedule => row[a].jobId

\* Between requests exactly the scheduled queues have a worker, and one only: a
\* job never waits for a restart and never has two workers to run it.
OneWorkerPerSchedule ==
    Quiet => \A a \in Actions : Workers(a) = (IF a \in schedule THEN 1 ELSE 0)

\* A request that is answered with success and makes the action active has
\* scheduled it, with a worker, and has stored the jobId.
SuccessMeansScheduled ==
    \A r \in Requests :
        LET x == req[r] IN
        x.pc = "answer" /\ x.result = "ok" /\ Active(x.new)
            => x.id \in schedule /\ Workers(x.id) > 0 /\ row[x.id].jobId

\* A deletion that is answered with success has stopped the schedule, if the
\* row it read was scheduled and knew its jobId.
DeletionUnschedules ==
    \A r \in Requests :
        LET x == req[r] IN
        /\ x.pc = "answer" /\ x.result = "ok" /\ x.op = "delete"
        /\ IsScheduled(x.old) /\ x.old.jobId
        => x.id \notin schedule

\* A deleted action stays deleted: no handler that read the row before the
\* deletion brings it back, only the insertion of a creation makes a row.
DeletedStaysDeleted ==
    [][\A a \in Actions :
        row[a] = NoRow /\ row'[a] # NoRow =>
            \E r \in Requests : At(r, "insert") /\ req[r].id = a]_vars

\* Of the deletions of one action that run at the same time one succeeds, at
\* most: the audit log has one deletion.
OneDeletionSucceeds ==
    \A r, t \in Requests :
        LET Deleted(x) == req[x].op = "delete" /\ At(x, "answer") /\ req[x].result = "ok"
        IN  Deleted(r) /\ Deleted(t) /\ req[r].id = req[t].id => r = t

\* Whatever stops the process, and wherever, a schedule gets a worker again:
\* its jobs do not pile up in a queue that nobody reads.  The process may have
\* crashed, or have been ended by the audit log of an import that failed: the
\* start after it repairs what the failure left.  (Unless a call fails during
\* or after it: registerWorkersForExistingSchedules only logs that.)
ScheduleGetsWorker ==
    \A a \in Actions, n \in 0 .. MaxFaults :
        a \in schedule /\ faults = n /\ (n = 0 \/ server = "down")
            ~> Workers(a) > 0 \/ a \notin schedule \/ faults # n

----------------------------------------------------------------------------
\* What the comments of action.controller.ts say.

\* "If it's a scheduled job, cancel the scheduled job first": once the handlers
\* have ended, no schedule goes on for an action that was deleted.
DeletedActionHasNoSchedule ==
    Quiet => \A a \in schedule : row[a] # NoRow
=============================================================================
