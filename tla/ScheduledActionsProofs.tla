----------------------- MODULE ScheduledActionsProofs -----------------------
(***************************************************************************)
(* Theorems about ScheduledActions, for any number of actions, handlers,   *)
(* executions, faults and crashes: type correctness, that pg-boss never    *)
(* works on a queue that does not exist, and that a deleted action stays   *)
(* deleted.                                                                *)
(***************************************************************************)
EXTENDS ScheduledActions, FiniteSetTheorems, TLAPS

\* The part of TypeOK that the steps of a handler change.
RowsOK == row \in [Actions -> Row \cup {NoRow}]
ReqOK == req \in [Requests -> Request]
JobsOK == jobs \in [Actions -> 0 .. MaxJobs]
PollingOK == polling \in [Actions -> 0 .. MaxWorkers]
RunOK == run \in [Runs -> Run \cup {NoRun}]

----------------------------------------------------------------------------
\* Handlers.

\* A handler that moves on stays a handler, of the same action.
LEMMA GotoLemma ==
    ASSUME ReqOK, NEW r \in Requests, NEW pc \in Steps, Goto(r, pc)
    PROVE  ReqOK'
BY DEF ReqOK, Goto, Request

\* The same for a handler that fails.
LEMMA FailLemma ==
    ASSUME ReqOK, NEW r \in Requests, Fail(r)
    PROVE  ReqOK'
<1> DEFINE pc == IF req[r].op = "import" THEN "audit" ELSE "answer"
<1>1. pc \in Steps
  BY DEF Steps
<1>2. req' = [req EXCEPT ![r].pc = pc, ![r].result = "error"]
  BY DEF Fail
<1> HIDE DEF pc
<1> QED  BY <1>1, <1>2 DEF ReqOK, Request

\* The same for the catch blocks around scheduleJob.
LEMMA ScheduleFailedLemma ==
    ASSUME ReqOK, NEW r \in Requests, ScheduleFailed(r)
    PROVE  ReqOK'
<1>1. "cleanup" \in Steps
  BY DEF Steps
<1> QED  BY <1>1, GotoLemma, FailLemma DEF ScheduleFailed

\* The same for the end of cancelJob.
LEMMA AfterCancelLemma ==
    ASSUME ReqOK, NEW r \in Requests, AfterCancel(r)
    PROVE  ReqOK'
<1> DEFINE pc == IF req[r].op = "delete" THEN "remove"
                 ELSE IF req[r].new.enabled THEN "checkSchedule" ELSE "audit"
<1>1. pc \in Steps
  BY DEF Steps
<1>2. Goto(r, pc)
  BY DEF AfterCancel
<1> QED  BY <1>1, <1>2, GotoLemma

\* The same for the catch blocks around cancelJob.
LEMMA CancelFailedLemma ==
    ASSUME ReqOK, NEW r \in Requests, CancelFailed(r)
    PROVE  ReqOK'
<1>1. "audit" \in Steps
  BY DEF Steps
<1> QED  BY <1>1, GotoLemma, FailLemma DEF CancelFailed

\* A handler that starts is a handler.
LEMMA StartLemma ==
    ASSUME ReqOK, NEW r \in Requests, NEW op \in {"create", "import", "update", "delete"},
           NEW a \in Actions, NEW pc \in Steps, NEW new \in Row, Start(r, op, a, pc, new)
    PROVE  ReqOK'
BY DEF ReqOK, Start, Request

\* The values handlers start from.
LEMMA IdleLemma == NoPayload \in Row /\ IdleRequest \in Request
<1>1. NoPayload \in Row
  BY DEF NoPayload, Row
<1>2. (CHOOSE a \in Actions : TRUE) \in Actions
  BY PoolAssumption
<1> QED  BY <1>1, <1>2 DEF IdleRequest, Request, Steps

\* What is written to a row is a row.
LEMMA RowLemma ==
    ASSUME ReqOK, NEW r \in Requests
    PROVE  req[r].id \in Actions /\ req[r].new \in Row
BY DEF ReqOK, Request

\* The bookkeeping of faults.
LEMMA FaultLemma ==
    ASSUME faults \in 0 .. MaxFaults, Fault \/ NoFault
    PROVE  faults' \in 0 .. MaxFaults
BY BoundsAssumption DEF Fault, NoFault

\* A worker more keeps the type.
LEMMA WorkerLemma ==
    ASSUME PollingOK, NEW a \in Actions
    PROVE  AddWorker(a) \in [Actions -> 0 .. MaxWorkers]
BY BoundsAssumption DEF PollingOK, AddWorker

\* The end of the process keeps the types.
LEMMA ProcessEndsLemma ==
    ASSUME TypeOK, ProcessEnds
    PROVE  /\ server' = "down" /\ PollingOK' /\ RunOK' /\ unregistered' = {}
           /\ ReqOK' /\ JobsOK'
<1>1. PollingOK' /\ RunOK' /\ server' = "down" /\ unregistered' = {}
  BY BoundsAssumption DEF ProcessEnds, PollingOK, RunOK
<1>2. ReqOK'
  BY IdleLemma DEF ProcessEnds, ReqOK
<1>3. JobsOK'
  <2>1. PICK back \in SUBSET {x \in Runs : run[x] # NoRun} :
           jobs' = [a \in Actions |->
             LET n == jobs[a] + Cardinality({x \in back : run[x].id = a})
             IN  IF n < MaxJobs THEN n ELSE MaxJobs]
    BY DEF ProcessEnds
  <2>2. \A a \in Actions : Cardinality({x \in back : run[x].id = a}) \in Nat
    <3>1. SUFFICES ASSUME NEW a \in Actions
                   PROVE  Cardinality({x \in back : run[x].id = a}) \in Nat
      OBVIOUS
    <3>2. IsFiniteSet({x \in back : run[x].id = a})
      <4>1. {x \in back : run[x].id = a} \subseteq Runs
        OBVIOUS
      <4> QED  BY <4>1, PoolAssumption, FS_Subset
    <3> QED  BY <3>2, FS_CardinalityType
  <2>3. \A a \in Actions : jobs[a] \in Nat
    BY BoundsAssumption DEF TypeOK
  <2> DEFINE n(a) == jobs[a] + Cardinality({x \in back : run[x].id = a})
  <2>4. \A a \in Actions : n(a) \in Nat
    BY <2>2, <2>3
  <2>5. jobs' = [a \in Actions |-> IF n(a) < MaxJobs THEN n(a) ELSE MaxJobs]
    BY <2>1
  <2> HIDE DEF n
  <2> QED  BY <2>4, <2>5, BoundsAssumption DEF JobsOK
<1> QED  BY <1>1, <1>2, <1>3

\* The end of an execution keeps the types.
LEMMA EndRunLemma ==
    ASSUME TypeOK, NEW x \in Runs, run[x] # NoRun, NEW retried \in BOOLEAN,
           EndRun(x, retried)
    PROVE  RunOK' /\ PollingOK' /\ JobsOK'
<1>1. run[x] \in Run /\ run[x].id \in Actions
  BY DEF TypeOK, Run
<1>2. RunOK'
  BY DEF EndRun, RunOK, TypeOK
<1>3. PollingOK'
  BY <1>1, WorkerLemma DEF EndRun, PollingOK, TypeOK
<1>4. JobsOK'
  BY <1>1, BoundsAssumption DEF EndRun, JobsOK, TypeOK
<1> QED  BY <1>2, <1>3, <1>4

----------------------------------------------------------------------------
\* Type correctness, one lemma for each action.

\* TypeOK by its parts.
LEMMA TypeParts ==
    TypeOK <=> /\ RowsOK /\ ReqOK /\ JobsOK /\ PollingOK /\ RunOK
               /\ used \subseteq Actions /\ schedule \subseteq Actions
               /\ queue \subseteq Actions /\ unregistered \subseteq Actions
               /\ server \in {"down", "listening", "started", "registering", "ready"}
               /\ faults \in 0 .. MaxFaults /\ crashes \in 0 .. MaxCrashes
BY DEF TypeOK, RowsOK, ReqOK, JobsOK, PollingOK, RunOK

\* TypeOK of the next state by its parts.
LEMMA NextTypeParts ==
    ASSUME RowsOK', ReqOK', JobsOK', PollingOK', RunOK',
           used' \subseteq Actions, schedule' \subseteq Actions,
           queue' \subseteq Actions, unregistered' \subseteq Actions,
           server' \in {"down", "listening", "started", "registering", "ready"},
           faults' \in 0 .. MaxFaults, crashes' \in 0 .. MaxCrashes
    PROVE  TypeOK'
BY DEF TypeOK, RowsOK, ReqOK, JobsOK, PollingOK, RunOK

\* A step that changes only the rows, the handlers and the faults.
LEMMA RowStepType ==
    ASSUME TypeOK, RowsOK', ReqOK', faults' \in 0 .. MaxFaults,
           UNCHANGED <<used, boss, process, crashes>>
    PROVE  TypeOK'
<1>1. JobsOK' /\ PollingOK' /\ RunOK'
  BY TypeParts DEF boss, process, JobsOK, PollingOK, RunOK
<1>2. /\ used' \subseteq Actions /\ schedule' \subseteq Actions
      /\ queue' \subseteq Actions /\ unregistered' \subseteq Actions
      /\ server' \in {"down", "listening", "started", "registering", "ready"}
      /\ crashes' \in 0 .. MaxCrashes
  BY TypeParts DEF boss, process
<1> QED  BY <1>1, <1>2, NextTypeParts

\* A step that changes only the schedules, the queues, the workers, the handlers
\* and the faults.
LEMMA BossStepType ==
    ASSUME TypeOK, ReqOK', faults' \in 0 .. MaxFaults, schedule' \subseteq Actions,
           queue' \subseteq Actions, PollingOK', RunOK',
           UNCHANGED <<database, jobs, server, unregistered, crashes>>
    PROVE  TypeOK'
<1>1. JobsOK' /\ RowsOK'
  BY TypeParts DEF database, JobsOK, RowsOK
<1>2. /\ used' \subseteq Actions /\ unregistered' \subseteq Actions
      /\ server' \in {"down", "listening", "started", "registering", "ready"}
      /\ crashes' \in 0 .. MaxCrashes
  BY TypeParts DEF database
<1> QED  BY <1>1, <1>2, NextTypeParts

\* A step that changes only the workers and the jobs.
LEMMA WorkerStepType ==
    ASSUME TypeOK, JobsOK', PollingOK', RunOK',
           UNCHANGED <<database, schedule, queue, server, unregistered, req,
                       faults, crashes>>
    PROVE  TypeOK'
<1>1. RowsOK' /\ ReqOK'
  BY TypeParts DEF database, RowsOK, ReqOK
<1>2. /\ used' \subseteq Actions /\ schedule' \subseteq Actions
      /\ queue' \subseteq Actions /\ unregistered' \subseteq Actions
      /\ server' \in {"down", "listening", "started", "registering", "ready"}
      /\ faults' \in 0 .. MaxFaults /\ crashes' \in 0 .. MaxCrashes
  BY TypeParts DEF database
<1> QED  BY <1>1, <1>2, NextTypeParts

\* A step that changes only the process and ends or starts it.
LEMMA ProcessStepType ==
    ASSUME TypeOK, JobsOK', PollingOK', RunOK', ReqOK', queue' \subseteq Actions,
           unregistered' \subseteq Actions,
           server' \in {"down", "listening", "started", "registering", "ready"},
           faults' \in 0 .. MaxFaults, crashes' \in 0 .. MaxCrashes,
           UNCHANGED <<database, schedule>>
    PROVE  TypeOK'
<1>1. RowsOK'
  BY TypeParts DEF database, RowsOK
<1>2. used' \subseteq Actions /\ schedule' \subseteq Actions
  BY TypeParts DEF database
<1> QED  BY <1>1, <1>2, NextTypeParts

\* A new request.
LEMMA NewRequestType ==
    ASSUME TypeOK, NEW r \in Requests, NewRequest(r)
    PROVE  TypeOK'
<1> USE TypeParts
<1>0. {"insert", "read", "audit"} \subseteq Steps
  BY DEF Steps
<1>1. CASE StartCreate(r)
  <2>1. PICK a \in Actions \ used, op \in {"create", "import"},
             trigger \in {"scheduled_job", "other"}, enabled \in BOOLEAN :
           /\ Start(r, op, a, "insert",
                    [trigger |-> trigger, enabled |-> enabled, jobId |-> FALSE])
           /\ used' = used \cup {a}
    BY <1>1 DEF StartCreate
  <2>2. [trigger |-> trigger, enabled |-> enabled, jobId |-> FALSE] \in Row
    BY DEF Row
  <2>3. ReqOK'
    BY <1>0, <2>1, <2>2, StartLemma
  <2>4. used' \subseteq Actions
    BY <2>1
  <2>5. UNCHANGED <<row, boss, process, faults, crashes>>
    BY <1>1 DEF StartCreate
  <2>6. RowsOK' /\ JobsOK' /\ PollingOK' /\ RunOK'
    BY <2>5 DEF boss, process, RowsOK, JobsOK, PollingOK, RunOK
  <2>7. /\ schedule' \subseteq Actions
        /\ queue' \subseteq Actions /\ unregistered' \subseteq Actions
        /\ server' \in {"down", "listening", "started", "registering", "ready"}
        /\ faults' \in 0 .. MaxFaults /\ crashes' \in 0 .. MaxCrashes
    BY <2>5 DEF boss, process
  <2> QED  BY <2>3, <2>4, <2>6, <2>7, NextTypeParts
<1>2. ASSUME UNCHANGED <<database, boss, process, faults, crashes>>, ReqOK'
      PROVE  TypeOK'
  <2>1. RowsOK' /\ faults' \in 0 .. MaxFaults
    BY <1>2 DEF database, RowsOK
  <2> QED  BY <1>2, <2>1, RowStepType DEF database
<1>3. CASE StartSkippedImport(r)
  <2>1. ReqOK'
    BY <1>0, <1>3, StartLemma, IdleLemma DEF StartSkippedImport
  <2> QED  BY <1>2, <1>3, <2>1 DEF StartSkippedImport
<1>4. CASE StartUpdate(r)
  <2>1. PICK a \in used, trigger \in {"scheduled_job", "other"},
             enabled \in BOOLEAN, echo \in BOOLEAN :
           Start(r, "update", a, "read",
                 [trigger |-> trigger, enabled |-> enabled, jobId |-> echo])
    BY <1>4 DEF StartUpdate
  <2>2. [trigger |-> trigger, enabled |-> enabled, jobId |-> echo] \in Row
    BY DEF Row
  <2>3. ReqOK'
    BY <1>0, <2>1, <2>2, StartLemma
  <2> QED  BY <1>2, <1>4, <2>3 DEF StartUpdate
<1>5. CASE StartDelete(r)
  <2>1. ReqOK'
    BY <1>0, <1>5, StartLemma, IdleLemma DEF StartDelete
  <2> QED  BY <1>2, <1>5, <2>1 DEF StartDelete
<1> QED  BY <1>1, <1>3, <1>4, <1>5 DEF NewRequest

\* The steps of a handler that may write a row.
LEMMA RowStepsType ==
    ASSUME TypeOK, NEW r \in Requests,
           \/ Insert(r) \/ Cleanup(r) \/ Write(r) \/ Remove(r) \/ SaveJobId(r)
    PROVE  TypeOK'
<1> USE TypeParts
<1>0. req[r].id \in Actions /\ req[r].new \in Row
  BY RowLemma
<1>s. {"checkSchedule", "audit", "checkCancel"} \subseteq Steps
  BY DEF Steps
<1>1. CASE Insert(r)
  <2>1. RowsOK'
    BY <1>0, <1>1 DEF Insert, RowsOK
  <2>2. ReqOK'
    BY <1>1, <1>s, GotoLemma, FailLemma DEF Insert
  <2>3. faults' \in 0 .. MaxFaults
    BY <1>1, FaultLemma DEF Insert
  <2> QED  BY <1>1, <2>1, <2>2, <2>3, RowStepType DEF Insert
<1>2. CASE Cleanup(r)
  <2>1. RowsOK'
    BY <1>0, <1>2 DEF Cleanup, RowsOK
  <2>2. ReqOK'
    BY <1>2, FailLemma DEF Cleanup
  <2>3. faults' \in 0 .. MaxFaults
    BY <1>2, FaultLemma DEF Cleanup
  <2> QED  BY <1>2, <2>1, <2>2, <2>3, RowStepType DEF Cleanup
<1>3. CASE Write(r)
  <2>1. RowsOK'
    BY <1>0, <1>3 DEF Write, RowsOK
  <2>2. UpdateCase(req[r].old, req[r].new) \in Steps
    BY <1>s DEF UpdateCase
  <2>3. ReqOK'
    BY <1>3, <2>2, GotoLemma, FailLemma DEF Write
  <2>4. faults' \in 0 .. MaxFaults
    BY <1>3, FaultLemma DEF Write
  <2> QED  BY <1>3, <2>1, <2>3, <2>4, RowStepType DEF Write
<1>4. CASE Remove(r)
  <2>1. RowsOK'
    BY <1>0, <1>4 DEF Remove, RowsOK
  <2>2. ReqOK'
    BY <1>4, <1>s, GotoLemma, FailLemma DEF Remove
  <2>3. faults' \in 0 .. MaxFaults
    BY <1>4, FaultLemma DEF Remove
  <2> QED  BY <1>4, <2>1, <2>2, <2>3, RowStepType DEF Remove
<1>5. CASE SaveJobId(r)
  <2>1. RowsOK'
    <3> DEFINE a == req[r].id
    <3> DEFINE named == [row[a] EXCEPT !.jobId = TRUE]
    <3>1. row[a] # NoRow => named \in Row
      BY <1>0 DEF RowsOK, Row
    <3>2. \/ row' = row
          \/ row[a] # NoRow /\ row' = [row EXCEPT ![a] = named]
          \/ row' = [row EXCEPT ![a] = IF row[a] = NoRow THEN row[a] ELSE named]
      BY <1>5 DEF SaveJobId
    <3> HIDE DEF named
    <3> QED  BY <1>0, <3>1, <3>2 DEF RowsOK
  <2>2. ReqOK'
    BY <1>5, <1>s, GotoLemma, ScheduleFailedLemma DEF SaveJobId
  <2>3. faults' \in 0 .. MaxFaults
    BY <1>5, FaultLemma DEF SaveJobId
  <2> QED  BY <1>5, <2>1, <2>2, <2>3, RowStepType DEF SaveJobId
<1> QED  BY <1>1, <1>2, <1>3, <1>4, <1>5

\* The steps of a handler that change nothing but the handler.
LEMMA ReadStepsType ==
    ASSUME TypeOK, NEW r \in Requests,
           \/ Read(r) \/ CheckCancel(r) \/ CheckSchedule(r) \/ Answer(r)
    PROVE  TypeOK'
<1> USE TypeParts
<1>1. RowsOK' /\ UNCHANGED <<used, boss, process, crashes>>
  BY DEF Read, CheckCancel, CheckSchedule, Answer, database, RowsOK
<1>2. faults' \in 0 .. MaxFaults
  <2>1. CASE Answer(r)
    BY <2>1 DEF Answer
  <2> QED  BY <2>1, FaultLemma DEF Read, CheckCancel, CheckSchedule
<1>3. ReqOK'
  <2>1. CASE Read(r)
    <3> DEFINE old == row[req[r].id]
    <3> DEFINE next == IF req[r].op = "update" THEN "write"
                       ELSE IF IsScheduled(old) /\ old.jobId THEN "checkCancel"
                       ELSE "remove"
    <3>1. \/ req' = [req EXCEPT ![r].pc = "answer", ![r].result = "not_found"]
          \/ req' = [req EXCEPT ![r].old = old, ![r].pc = next]
          \/ Fail(r)
      BY <2>1 DEF Read
    <3>2. next \in Steps /\ "answer" \in Steps
      BY DEF Steps
    <3>3. old \in Row \cup {NoRow}
      BY RowLemma DEF RowsOK
    <3>4. CASE req' = [req EXCEPT ![r].pc = "answer", ![r].result = "not_found"]
      BY <3>2, <3>4 DEF ReqOK, Request
    <3> HIDE DEF next, old
    <3>5. CASE req' = [req EXCEPT ![r].old = old, ![r].pc = next]
      BY <3>2, <3>3, <3>5 DEF ReqOK, Request
    <3> QED  BY <3>1, <3>4, <3>5, FailLemma
  <2>2. CASE CheckCancel(r)
    <3>1. "unschedule" \in Steps
      BY DEF Steps
    <3> QED  BY <2>2, <3>1, GotoLemma, CancelFailedLemma DEF CheckCancel
  <2>3. CASE CheckSchedule(r)
    <3>1. "createQueue" \in Steps
      BY DEF Steps
    <3> QED  BY <2>3, <3>1, GotoLemma, ScheduleFailedLemma DEF CheckSchedule
  <2>4. CASE Answer(r)
    BY <2>4, IdleLemma DEF Answer, ReqOK
  <2> QED  BY <2>1, <2>2, <2>3, <2>4
<1> QED  BY <1>1, <1>2, <1>3, RowStepType

\* The steps of a handler that call pg-boss.
LEMMA BossStepsType ==
    ASSUME TypeOK, NEW r \in Requests,
           \/ Unschedule(r) \/ OffWork(r) \/ CreateQueue(r) \/ Work(r) \/ Schedule(r)
    PROVE  TypeOK'
<1> USE TypeParts
<1>0. req[r].id \in Actions
  BY RowLemma
<1>s. {"offWork", "work", "schedule", "saveJobId", "audit"} \subseteq Steps
  BY DEF Steps
<1>1. CASE Unschedule(r)
  <2>1. ReqOK'
    BY <1>1, <1>s, GotoLemma, CancelFailedLemma DEF Unschedule
  <2>2. faults' \in 0 .. MaxFaults
    BY <1>1, FaultLemma DEF Unschedule
  <2>3. schedule' \subseteq Actions /\ queue' \subseteq Actions /\ PollingOK' /\ RunOK'
    BY <1>1 DEF Unschedule, process, PollingOK, RunOK
  <2> QED  BY <1>1, <2>1, <2>2, <2>3, BossStepType DEF Unschedule, process
<1>2. CASE OffWork(r)
  <2>1. ReqOK'
    BY <1>2, AfterCancelLemma DEF OffWork
  <2>2. PollingOK'
    BY <1>0, <1>2, BoundsAssumption DEF OffWork, PollingOK
  <2>3. RunOK'
    <3>1. \A x \in Runs : x \in AttachedRuns(req[r].id) =>
             [run[x] EXCEPT !.attached = FALSE] \in Run
      BY DEF AttachedRuns, RunOK, Run
    <3>2. run' = [x \in Runs |-> IF x \in AttachedRuns(req[r].id)
                                   THEN [run[x] EXCEPT !.attached = FALSE]
                                   ELSE run[x]]
      BY <1>2 DEF OffWork
    <3> QED  BY <3>1, <3>2 DEF RunOK
  <2>4. schedule' \subseteq Actions /\ queue' \subseteq Actions
        /\ faults' \in 0 .. MaxFaults
    BY <1>2 DEF OffWork, boss
  <2> QED  BY <1>2, <2>1, <2>2, <2>3, <2>4, BossStepType DEF OffWork, boss
<1>3. CASE CreateQueue(r)
  <2>1. ReqOK'
    BY <1>3, <1>s, GotoLemma, ScheduleFailedLemma DEF CreateQueue
  <2>2. faults' \in 0 .. MaxFaults
    BY <1>3, FaultLemma DEF CreateQueue
  <2>3. schedule' \subseteq Actions /\ queue' \subseteq Actions /\ PollingOK' /\ RunOK'
    BY <1>0, <1>3 DEF CreateQueue, process, PollingOK, RunOK
  <2> QED  BY <1>3, <2>1, <2>2, <2>3, BossStepType DEF CreateQueue, process
<1>4. CASE Work(r)
  <2>1. ReqOK'
    BY <1>4, <1>s, GotoLemma DEF Work
  <2>2. PollingOK'
    BY <1>0, <1>4, WorkerLemma DEF Work, PollingOK
  <2>3. schedule' \subseteq Actions /\ queue' \subseteq Actions /\ RunOK'
        /\ faults' \in 0 .. MaxFaults
    BY <1>4 DEF Work, boss, RunOK
  <2> QED  BY <1>4, <2>1, <2>2, <2>3, BossStepType DEF Work, boss
<1>5. CASE Schedule(r)
  <2>1. ReqOK'
    BY <1>5, <1>s, GotoLemma, ScheduleFailedLemma DEF Schedule
  <2>2. faults' \in 0 .. MaxFaults
    BY <1>5, FaultLemma DEF Schedule
  <2>3. schedule' \subseteq Actions /\ queue' \subseteq Actions /\ PollingOK' /\ RunOK'
    BY <1>0, <1>5 DEF Schedule, process, PollingOK, RunOK
  <2> QED  BY <1>5, <2>1, <2>2, <2>3, BossStepType DEF Schedule, process
<1> QED  BY <1>1, <1>2, <1>3, <1>4, <1>5

\* The end of a handler's work.
LEMMA AuditType ==
    ASSUME TypeOK, NEW r \in Requests, Audit(r)
    PROVE  TypeOK'
<1> USE TypeParts
<1>1. faults' \in 0 .. MaxFaults
  BY FaultLemma DEF Audit
<1>2. queue' \subseteq Actions /\ crashes' \in 0 .. MaxCrashes
      /\ UNCHANGED <<database, schedule>>
  BY DEF Audit
<1>3. CASE ProcessEnds
  BY <1>1, <1>2, <1>3, ProcessEndsLemma, ProcessStepType
<1>4. CASE UNCHANGED <<jobs, process>> /\ ReqOK'
  <2>1. JobsOK' /\ PollingOK' /\ RunOK'
    BY <1>4 DEF process, JobsOK, PollingOK, RunOK
  <2>2. unregistered' \subseteq Actions
        /\ server' \in {"down", "listening", "started", "registering", "ready"}
    BY <1>4 DEF process
  <2> QED  BY <1>1, <1>2, <1>4, <2>1, <2>2, ProcessStepType
<1>5. CASE /\ req' = [req EXCEPT ![r].pc = "answer",
                              ![r].result = IF @ = "none" THEN "ok" ELSE @]
           /\ UNCHANGED <<jobs, process>>
  <2> DEFINE result == IF req[r].result = "none" THEN "ok" ELSE req[r].result
  <2>1. result \in {"none", "ok", "error", "not_found"}
    BY DEF ReqOK, Request
  <2>2. "answer" \in Steps
    BY DEF Steps
  <2>3. req' = [req EXCEPT ![r].pc = "answer", ![r].result = result]
    BY <1>5
  <2> HIDE DEF result
  <2>4. ReqOK'
    BY <2>1, <2>2, <2>3 DEF ReqOK, Request
  <2> QED  BY <1>4, <1>5, <2>4
<1>6. CASE Fail(r) /\ UNCHANGED <<jobs, process>>
  BY <1>4, <1>6, FailLemma
<1> QED  BY <1>3, <1>5, <1>6 DEF Audit

\* The steps of pg-boss and its workers.
LEMMA WorkerStepsType ==
    ASSUME TypeOK, \/ \E a \in Actions : CronTick(a)
                   \/ \E x \in Runs : WorkerStep(x)
    PROVE  TypeOK'
<1> USE TypeParts
<1>1. ASSUME NEW a \in Actions, CronTick(a)
      PROVE  TypeOK'
  <2>1. JobsOK'
    BY <1>1, BoundsAssumption DEF CronTick, JobsOK
  <2>2. PollingOK' /\ RunOK'
    BY <1>1 DEF CronTick, process, PollingOK, RunOK
  <2> QED  BY <1>1, <2>1, <2>2, WorkerStepType DEF CronTick, process
<1>2. ASSUME NEW a \in Actions, NEW x \in Runs, TakeJob(a, x)
      PROVE  TypeOK'
  <2>1. JobsOK'
    BY <1>2, BoundsAssumption DEF TakeJob, JobsOK
  <2>2. PollingOK'
    BY <1>2, BoundsAssumption DEF TakeJob, PollingOK
  <2>3. RunOK'
    <3>1. [id |-> a, attached |-> TRUE, pc |-> "read"] \in Run
      BY DEF Run
    <3> QED  BY <1>2, <3>1 DEF TakeJob, RunOK
  <2> QED  BY <1>2, <2>1, <2>2, <2>3, WorkerStepType DEF TakeJob
<1>3. ASSUME NEW x \in Runs, ReadAction(x)
      PROVE  TypeOK'
  <2>1. CASE \E retried \in BOOLEAN : EndRun(x, retried)
    BY <1>3, <2>1, EndRunLemma, WorkerStepType DEF ReadAction
  <2>2. CASE /\ run' = [run EXCEPT ![x].pc = "execute"]
             /\ UNCHANGED <<jobs, polling>>
    <3>1. RunOK'
      <4>1. [run[x] EXCEPT !.pc = "execute"] \in Run
        BY <1>3 DEF ReadAction, RunOK, Run
      <4>2. run' = [run EXCEPT ![x] = [run[x] EXCEPT !.pc = "execute"]]
        BY <2>2
      <4> QED  BY <4>1, <4>2 DEF RunOK
    <3>2. JobsOK' /\ PollingOK'
      BY <2>2 DEF JobsOK, PollingOK
    <3> QED  BY <1>3, <3>1, <3>2, WorkerStepType DEF ReadAction
  <2> QED  BY <1>3, <2>1, <2>2 DEF ReadAction
<1>4. ASSUME NEW x \in Runs, Execute(x)
      PROVE  TypeOK'
  BY <1>4, EndRunLemma, WorkerStepType DEF Execute
<1> QED  BY <1>1, <1>2, <1>3, <1>4 DEF WorkerStep

\* The steps of the process.
LEMMA ProcessStepsType ==
    ASSUME TypeOK, ProcessStart \/ Crash
    PROVE  TypeOK'
<1> USE TypeParts
<1>0. /\ UNCHANGED polling => PollingOK'
      /\ UNCHANGED run => RunOK'
      /\ UNCHANGED req => ReqOK'
      /\ UNCHANGED jobs => JobsOK'
  BY DEF PollingOK, RunOK, ReqOK, JobsOK
<1>1. CASE Listen
  BY <1>0, <1>1, ProcessStepType DEF Listen, boss
<1>2. CASE StartBoss
  <2>1. faults' \in 0 .. MaxFaults
    BY <1>2, FaultLemma DEF StartBoss
  <2>2. queue' \subseteq Actions /\ crashes' \in 0 .. MaxCrashes
        /\ UNCHANGED <<database, schedule>>
    BY <1>2 DEF StartBoss
  <2>3. CASE ProcessEnds
    BY <2>1, <2>2, <2>3, ProcessEndsLemma, ProcessStepType
  <2>4. CASE server' = "started" /\ UNCHANGED <<jobs, polling, run, unregistered, req>>
    BY <1>0, <2>1, <2>2, <2>4, ProcessStepType
  <2> QED  BY <1>2, <2>3, <2>4 DEF StartBoss
<1>3. CASE FetchSchedules
  <2>1. faults' \in 0 .. MaxFaults
    BY <1>3, FaultLemma DEF FetchSchedules
  <2> QED  BY <1>0, <1>3, <2>1, ProcessStepType DEF FetchSchedules, boss
<1>4. CASE Register
  <2>1. faults' \in 0 .. MaxFaults
    BY <1>4, FaultLemma DEF Register
  <2>2. PollingOK' /\ queue' \subseteq Actions /\ unregistered' \subseteq Actions
        /\ server' \in {"down", "listening", "started", "registering", "ready"}
    BY <1>0, <1>4, WorkerLemma DEF Register, PollingOK
  <2> QED  BY <1>0, <1>4, <2>1, <2>2, ProcessStepType DEF Register
<1>5. CASE Crash
  <2>1. crashes' \in 0 .. MaxCrashes
    BY <1>5, BoundsAssumption DEF Crash
  <2> QED  BY <1>5, <2>1, ProcessEndsLemma, ProcessStepType DEF Crash
<1> QED  BY <1>1, <1>2, <1>3, <1>4, <1>5 DEF ProcessStart

\* TypeOK holds in the initial states.
LEMMA InitType == Init => TypeOK
<1>1. SUFFICES ASSUME Init PROVE TypeOK
  OBVIOUS
<1>2. \A a \in Actions : 0 \in 0 .. MaxJobs /\ 0 \in 0 .. MaxWorkers
  BY BoundsAssumption
<1>3. 0 \in 0 .. MaxFaults /\ 0 \in 0 .. MaxCrashes
  BY BoundsAssumption
<1> QED  BY <1>1, <1>2, <1>3, IdleLemma DEF Init, TypeOK

\* Every step keeps TypeOK.
LEMMA StepType == TypeOK /\ [Next]_vars => TypeOK'
<1>1. SUFFICES ASSUME TypeOK, [Next]_vars PROVE TypeOK'
  OBVIOUS
<1>2. ASSUME NEW r \in Requests, HandlerStep(r)
      PROVE  TypeOK'
  BY <1>1, <1>2, RowStepsType, ReadStepsType, BossStepsType, AuditType
     DEF HandlerStep
<1>3. ASSUME UNCHANGED vars
      PROVE  TypeOK'
  BY <1>1, <1>3 DEF vars, database, boss, process, TypeOK
<1> QED
  BY <1>1, <1>2, <1>3, NewRequestType, WorkerStepsType, ProcessStepsType DEF Next

\* Every variable keeps its type, whatever fails or crashes.
THEOREM TypeCorrect == Spec => []TypeOK
BY InitType, StepType, PTL DEF Spec

----------------------------------------------------------------------------
\* QueueExists.  It is not inductive: a worker that a request is about to add,
\* or that is busy with a job, needs the queue too.

SchedulesHaveQueue == schedule \subseteq queue
PollersHaveQueue == \A a \in Actions : polling[a] > 0 => a \in queue
JobsHaveQueue == \A a \in Actions : jobs[a] > 0 => a \in queue
RunsHaveQueue == \A x \in Runs : run[x] # NoRun => run[x].id \in queue
HandlersHaveQueue ==
    \A r \in Requests : req[r].pc \in {"work", "schedule"} => req[r].id \in queue

QueueInv ==
    /\ SchedulesHaveQueue /\ PollersHaveQueue /\ JobsHaveQueue
    /\ RunsHaveQueue /\ HandlersHaveQueue

\* A handler that goes to a call that needs no queue.
LEMMA GotoQueue ==
    ASSUME ReqOK, HandlersHaveQueue, queue \subseteq queue', NEW r \in Requests,
           NEW pc \in Steps \ {"work", "schedule"}, Goto(r, pc)
    PROVE  HandlersHaveQueue'
<1>1. \A t \in Requests : req'[t].id = req[t].id
                           /\ req'[t].pc = (IF t = r THEN pc ELSE req[t].pc)
  BY DEF Goto, ReqOK, Request
<1> QED  BY <1>1 DEF HandlersHaveQueue

\* The same for a handler that fails.
LEMMA FailQueue ==
    ASSUME ReqOK, HandlersHaveQueue, queue \subseteq queue', NEW r \in Requests, Fail(r)
    PROVE  HandlersHaveQueue'
<1>1. \A t \in Requests : t # r => req'[t] = req[t]
  BY DEF Fail, ReqOK
<1>2. req'[r].pc \in {"audit", "answer"}
  BY DEF Fail, ReqOK, Request
<1> QED  BY <1>1, <1>2 DEF HandlersHaveQueue

\* The same for the catch blocks.
LEMMA FailuresQueue ==
    ASSUME ReqOK, HandlersHaveQueue, queue \subseteq queue', NEW r \in Requests,
           ScheduleFailed(r) \/ CancelFailed(r) \/ AfterCancel(r)
    PROVE  HandlersHaveQueue'
<1>1. {"cleanup", "audit", "remove", "checkSchedule"}
          \subseteq Steps \ {"work", "schedule"}
  BY DEF Steps
<1>2. CASE AfterCancel(r)
  <2> DEFINE pc == IF req[r].op = "delete" THEN "remove"
                   ELSE IF req[r].new.enabled THEN "checkSchedule" ELSE "audit"
  <2>1. pc \in Steps \ {"work", "schedule"}
    BY <1>1
  <2>2. Goto(r, pc)
    BY <1>2 DEF AfterCancel
  <2> QED  BY <2>1, <2>2, GotoQueue
<1> QED  BY <1>1, <1>2, GotoQueue, FailQueue DEF ScheduleFailed, CancelFailed

\* A handler that starts or ends needs no queue.
LEMMA OneHandlerQueue ==
    ASSUME ReqOK, HandlersHaveQueue, queue \subseteq queue', NEW r \in Requests,
           \A t \in Requests : t # r => req'[t] = req[t],
           req'[r].pc \notin {"work", "schedule"}
    PROVE  HandlersHaveQueue'
BY DEF HandlersHaveQueue

\* The parts that a step leaves alone when queues only grow.
LEMMA QueueFrame ==
    ASSUME QueueInv, queue \subseteq queue'
    PROVE  /\ UNCHANGED schedule => SchedulesHaveQueue'
           /\ UNCHANGED polling => PollersHaveQueue'
           /\ UNCHANGED jobs => JobsHaveQueue'
           /\ UNCHANGED run => RunsHaveQueue'
           /\ UNCHANGED req => HandlersHaveQueue'
BY DEF QueueInv, SchedulesHaveQueue, PollersHaveQueue, JobsHaveQueue,
       RunsHaveQueue, HandlersHaveQueue

\* A worker more, in a queue that exists.
LEMMA AddWorkerQueue ==
    ASSUME TypeOK, PollersHaveQueue, queue \subseteq queue', NEW a \in queue',
           polling' = AddWorker(a)
    PROVE  PollersHaveQueue'
BY DEF PollersHaveQueue, AddWorker, TypeOK

\* Nothing needs a queue when the process ends.
LEMMA ProcessEndsQueue ==
    ASSUME TypeOK, QueueInv, ProcessEnds, UNCHANGED <<schedule, queue>>
    PROVE  QueueInv'
<1>1. SchedulesHaveQueue'
  BY DEF QueueInv, SchedulesHaveQueue
<1>2. PollersHaveQueue' /\ RunsHaveQueue'
  BY DEF ProcessEnds, PollersHaveQueue, RunsHaveQueue
<1>3. HandlersHaveQueue'
  <2>1. IdleRequest.pc = "idle"
    BY DEF IdleRequest
  <2> QED  BY <2>1 DEF ProcessEnds, HandlersHaveQueue
<1>4. JobsHaveQueue'
  <2>1. PICK back \in SUBSET {x \in Runs : run[x] # NoRun} :
           jobs' = [a \in Actions |->
             LET n == jobs[a] + Cardinality({x \in back : run[x].id = a})
             IN  IF n < MaxJobs THEN n ELSE MaxJobs]
    BY DEF ProcessEnds
  <2>2. SUFFICES ASSUME NEW a \in Actions, jobs'[a] > 0
                 PROVE  a \in queue
    BY DEF JobsHaveQueue
  <2> DEFINE ended == {x \in back : run[x].id = a}
  <2>3. CASE ended = {}
    <3>1. Cardinality(ended) = 0
      BY <2>3, FS_EmptySet
    <3>2. jobs'[a] = IF jobs[a] + Cardinality(ended) < MaxJobs
                       THEN jobs[a] + Cardinality(ended) ELSE MaxJobs
      BY <2>1
    <3>3. jobs[a] \in 0 .. MaxJobs
      BY DEF TypeOK
    <3> HIDE DEF ended
    <3>4. jobs[a] > 0
      BY <2>2, <3>1, <3>2, <3>3, BoundsAssumption
    <3> QED  BY <3>4 DEF QueueInv, JobsHaveQueue
  <2>4. CASE ended # {}
    BY <2>4 DEF QueueInv, RunsHaveQueue
  <2> QED  BY <2>3, <2>4
<1> QED  BY <1>1, <1>2, <1>3, <1>4 DEF QueueInv

\* The end of an execution puts its job back in its own queue only.
LEMMA EndRunQueue ==
    ASSUME TypeOK, QueueInv, UNCHANGED queue, NEW x \in Runs, run[x] # NoRun,
           NEW retried \in BOOLEAN, EndRun(x, retried)
    PROVE  PollersHaveQueue' /\ JobsHaveQueue' /\ RunsHaveQueue'
<1>1. run[x].id \in queue /\ run[x].id \in Actions
  BY DEF QueueInv, RunsHaveQueue, TypeOK
<1>2. PollersHaveQueue'
  BY <1>1, AddWorkerQueue DEF EndRun, QueueInv, PollersHaveQueue
<1>3. JobsHaveQueue'
  BY <1>1 DEF EndRun, QueueInv, JobsHaveQueue, TypeOK
<1>4. RunsHaveQueue'
  BY DEF EndRun, QueueInv, RunsHaveQueue, TypeOK
<1> QED  BY <1>2, <1>3, <1>4

\* Every step of a handler keeps the queues that are needed.
LEMMA HandlerQueue ==
    ASSUME TypeOK, QueueInv, NEW r \in Requests, NewRequest(r) \/ HandlerStep(r)
    PROVE  QueueInv'
<1> USE TypeParts
<1>0. req[r].id \in Actions
  BY RowLemma
<1>s. (Steps \ {"work", "schedule"}) =
          {"idle", "insert", "read", "write", "checkCancel", "unschedule", "offWork",
           "checkSchedule", "createQueue", "saveJobId", "cleanup", "remove", "audit",
           "answer"}
  BY DEF Steps
<1>1. ASSUME UNCHANGED <<boss, process>>, HandlersHaveQueue' PROVE QueueInv'
  BY <1>1, QueueFrame DEF QueueInv, boss, process
<1>2. CASE NewRequest(r)
  <2>1. ASSUME NEW op, NEW a, NEW pc \in {"insert", "audit", "read"}, NEW new,
               Start(r, op, a, pc, new), UNCHANGED queue
        PROVE  HandlersHaveQueue'
    <3>1. \A t \in Requests : t # r => req'[t] = req[t]
      BY <2>1 DEF Start, ReqOK
    <3>2. req'[r].pc = pc
      BY <2>1 DEF Start, ReqOK
    <3> QED  BY <2>1, <3>1, <3>2, OneHandlerQueue DEF QueueInv
  <2>2. UNCHANGED <<boss, process>>
    BY <1>2 DEF NewRequest, StartCreate, StartSkippedImport, StartUpdate, StartDelete
  <2>3. HandlersHaveQueue'
    BY <1>2, <2>1, <2>2
       DEF NewRequest, StartCreate, StartSkippedImport, StartUpdate, StartDelete, boss
  <2> QED  BY <1>1, <2>2, <2>3
<1>3. CASE Insert(r) \/ Cleanup(r) \/ Remove(r) \/ SaveJobId(r)
           \/ CheckCancel(r) \/ CheckSchedule(r)
  <2>1. UNCHANGED <<boss, process>>
    BY <1>3 DEF Insert, Cleanup, Remove, SaveJobId, CheckCancel, CheckSchedule
  <2>2. HandlersHaveQueue'
    BY <1>s, <1>3, <2>1, GotoQueue, FailQueue, FailuresQueue
       DEF Insert, Cleanup, Remove, SaveJobId, CheckCancel, CheckSchedule, QueueInv, boss
  <2> QED  BY <1>1, <2>1, <2>2
<1>4. CASE Write(r)
  <2>1. UNCHANGED <<boss, process>>
    BY <1>4 DEF Write
  <2>2. UpdateCase(req[r].old, req[r].new) \in Steps \ {"work", "schedule"}
    BY <1>s DEF UpdateCase
  <2>3. HandlersHaveQueue'
    BY <1>4, <2>1, <2>2, GotoQueue, FailQueue DEF Write, QueueInv, boss
  <2> QED  BY <1>1, <2>1, <2>3
<1>5. CASE Read(r) \/ Answer(r)
  <2>1. UNCHANGED <<boss, process>>
    BY <1>5 DEF Read, Answer
  <2>2. \A t \in Requests : t # r => req'[t] = req[t]
    BY <1>5 DEF Read, Answer, Fail, ReqOK
  <2>3. req'[r].pc \notin {"work", "schedule"}
    BY <1>5 DEF Read, Answer, Fail, ReqOK, Request, IdleRequest
  <2> QED  BY <1>1, <2>1, <2>2, <2>3, OneHandlerQueue DEF QueueInv, boss
<1>6. CASE Audit(r)
  <2>1. CASE ProcessEnds
    BY <1>6, <2>1, ProcessEndsQueue DEF Audit
  <2>2. CASE UNCHANGED <<jobs, process>> /\ ~ProcessEnds
    <3>1. \A t \in Requests : t # r => req'[t] = req[t]
      BY <1>6, <2>2 DEF Audit, Fail, ReqOK
    <3>2. req'[r].pc \notin {"work", "schedule"}
      BY <1>6, <2>2 DEF Audit, Fail, ReqOK, Request
    <3>3. UNCHANGED <<boss, process>>
      BY <1>6, <2>2 DEF Audit, boss
    <3> QED  BY <1>1, <3>1, <3>2, <3>3, OneHandlerQueue DEF QueueInv, boss
  <2> QED  BY <1>6, <2>1, <2>2 DEF Audit
<1>7. CASE Unschedule(r)
  <2>1. UNCHANGED <<queue, jobs, process>> /\ schedule' \subseteq schedule
    BY <1>7 DEF Unschedule
  <2>2. HandlersHaveQueue'
    BY <1>s, <1>7, <2>1, GotoQueue, FailuresQueue DEF Unschedule, QueueInv
  <2> QED  BY <2>1, <2>2, QueueFrame DEF QueueInv, process, SchedulesHaveQueue
<1>8. CASE OffWork(r)
  <2>1. UNCHANGED boss
    BY <1>8 DEF OffWork
  <2>2. HandlersHaveQueue'
    BY <1>8, <2>1, FailuresQueue DEF OffWork, QueueInv, boss
  <2>3. PollersHaveQueue'
    BY <1>8, <2>1 DEF OffWork, boss, QueueInv, PollersHaveQueue, PollingOK
  <2>4. RunsHaveQueue'
    <3>1. \A x \in Runs : run'[x] # NoRun => run[x] # NoRun /\ run'[x].id = run[x].id
      BY <1>8 DEF OffWork, AttachedRuns, RunOK, Run
    <3> QED  BY <2>1, <3>1 DEF QueueInv, RunsHaveQueue, boss
  <2> QED  BY <2>1, <2>2, <2>3, <2>4, QueueFrame DEF QueueInv, boss
<1>9. CASE CreateQueue(r)
  <2>1. queue \subseteq queue' /\ UNCHANGED <<schedule, jobs, process>>
    BY <1>9 DEF CreateQueue
  <2>2. CASE Goto(r, "work") /\ queue' = queue \cup {req[r].id}
    <3>1. \A t \in Requests : req'[t].id = req[t].id
                               /\ (t # r => req'[t].pc = req[t].pc)
      BY <2>2 DEF Goto, ReqOK, Request
    <3>2. HandlersHaveQueue'
      BY <2>2, <3>1 DEF HandlersHaveQueue, QueueInv
    <3> QED  BY <2>1, <3>2, QueueFrame DEF QueueInv, process
  <2>3. CASE ScheduleFailed(r)
    <3>1. HandlersHaveQueue'
      BY <2>1, <2>3, FailuresQueue DEF QueueInv
    <3> QED  BY <2>1, <3>1, QueueFrame DEF QueueInv, process
  <2> QED  BY <1>9, <2>2, <2>3 DEF CreateQueue
<1>10. CASE Work(r)
  <2>1. req[r].id \in queue
    BY <1>10 DEF Work, At, QueueInv, HandlersHaveQueue
  <2>2. \A t \in Requests : req'[t].id = req[t].id
                             /\ (t # r => req'[t].pc = req[t].pc)
    BY <1>10 DEF Work, Goto, ReqOK, Request
  <2>3. UNCHANGED <<boss, run>> /\ polling' = AddWorker(req[r].id)
    BY <1>10 DEF Work
  <2>4. HandlersHaveQueue'
    BY <2>1, <2>2, <2>3 DEF HandlersHaveQueue, QueueInv, boss
  <2>5. PollersHaveQueue'
    BY <2>1, <2>3, AddWorkerQueue DEF QueueInv, boss
  <2> QED  BY <2>3, <2>4, <2>5, QueueFrame DEF QueueInv, boss
<1>11. CASE Schedule(r)
  <2>1. req[r].id \in queue
    BY <1>11 DEF Schedule, At, QueueInv, HandlersHaveQueue
  <2>2. UNCHANGED <<queue, jobs, process>> /\ schedule' \subseteq schedule \cup {req[r].id}
    BY <1>11 DEF Schedule
  <2>3. HandlersHaveQueue'
    BY <1>s, <1>11, <2>2, GotoQueue, FailuresQueue DEF Schedule, QueueInv
  <2> QED  BY <2>1, <2>2, <2>3, QueueFrame DEF QueueInv, process, SchedulesHaveQueue
<1> QED  BY <1>2, <1>3, <1>4, <1>5, <1>6, <1>7, <1>8, <1>9, <1>10, <1>11 DEF HandlerStep

\* Every step of pg-boss, of its workers and of the process keeps them.
LEMMA SystemQueue ==
    ASSUME TypeOK, QueueInv, \/ \E a \in Actions : CronTick(a)
                             \/ \E x \in Runs : WorkerStep(x)
                             \/ ProcessStart
                             \/ Crash
    PROVE  QueueInv'
<1> USE TypeParts
<1>1. ASSUME NEW a \in Actions, CronTick(a)
      PROVE  QueueInv'
  <2>1. JobsHaveQueue'
    BY <1>1 DEF CronTick, QueueInv, JobsHaveQueue, SchedulesHaveQueue, JobsOK
  <2> QED  BY <1>1, <2>1, QueueFrame DEF CronTick, process, QueueInv
<1>2. ASSUME NEW a \in Actions, NEW x \in Runs, TakeJob(a, x)
      PROVE  QueueInv'
  <2>1. a \in queue
    BY <1>2 DEF TakeJob, QueueInv, JobsHaveQueue
  <2>2. JobsHaveQueue' /\ PollersHaveQueue'
    BY <1>2, <2>1 DEF TakeJob, QueueInv, JobsHaveQueue, PollersHaveQueue, JobsOK, PollingOK
  <2>3. RunsHaveQueue'
    BY <1>2, <2>1 DEF TakeJob, QueueInv, RunsHaveQueue, RunOK
  <2> QED  BY <1>2, <2>2, <2>3, QueueFrame DEF TakeJob, QueueInv
<1>3. ASSUME NEW x \in Runs, ReadAction(x)
      PROVE  QueueInv'
  <2>1. CASE \E retried \in BOOLEAN : EndRun(x, retried)
    BY <1>3, <2>1, EndRunQueue, QueueFrame DEF ReadAction, QueueInv
  <2>2. CASE /\ run' = [run EXCEPT ![x].pc = "execute"]
             /\ UNCHANGED <<jobs, polling>>
    <3>1. run[x] \in Run
      BY <1>3 DEF ReadAction, RunOK
    <3>2. run'[x].id = run[x].id /\ \A y \in Runs : y # x => run'[y] = run[y]
      BY <2>2, <3>1 DEF Run, RunOK
    <3>3. RunsHaveQueue'
      BY <1>3, <3>2 DEF ReadAction, QueueInv, RunsHaveQueue
    <3> QED  BY <1>3, <2>2, <3>3, QueueFrame DEF ReadAction, QueueInv
  <2> QED  BY <1>3, <2>1, <2>2 DEF ReadAction
<1>4. ASSUME NEW x \in Runs, Execute(x)
      PROVE  QueueInv'
  BY <1>4, EndRunQueue, QueueFrame DEF Execute, QueueInv
<1>5. CASE Listen \/ FetchSchedules
  BY <1>5, QueueFrame DEF Listen, FetchSchedules, boss, QueueInv
<1>6. CASE StartBoss
  BY <1>6, QueueFrame, ProcessEndsQueue DEF StartBoss, QueueInv
<1>7. CASE Register
  <2>1. queue \subseteq queue' /\ UNCHANGED <<schedule, jobs, run, req>>
    BY <1>7 DEF Register
  <2>2. PollersHaveQueue'
    <3>1. CASE \E a \in unregistered : queue' = queue \cup {a} /\ polling' = AddWorker(a)
      BY <2>1, <3>1, AddWorkerQueue DEF QueueInv
    <3>2. CASE UNCHANGED polling
      BY <2>1, <3>2, QueueFrame
    <3> QED  BY <1>7, <3>1, <3>2 DEF Register
  <2> QED  BY <2>1, <2>2, QueueFrame DEF QueueInv
<1>8. CASE Crash
  BY <1>8, ProcessEndsQueue DEF Crash
<1> QED
  BY <1>1, <1>2, <1>3, <1>4, <1>5, <1>6, <1>7, <1>8 DEF WorkerStep, ProcessStart

\* pg-boss never works on a queue that does not exist: every schedule, job and
\* worker has its queue.
THEOREM QueuesExist == Spec => []QueueExists
<1>1. Init => QueueInv
  <2>1. IdleRequest.pc = "idle"
    BY DEF IdleRequest
  <2> QED  BY <2>1 DEF Init, QueueInv, SchedulesHaveQueue, PollersHaveQueue,
                       JobsHaveQueue, RunsHaveQueue, HandlersHaveQueue
<1>2. TypeOK /\ QueueInv /\ [Next]_vars => QueueInv'
  <2>1. SUFFICES ASSUME TypeOK, QueueInv, [Next]_vars PROVE QueueInv'
    OBVIOUS
  <2>2. CASE UNCHANGED vars
    BY <2>1, <2>2, QueueFrame DEF vars, boss, process, QueueInv
  <2> QED  BY <2>1, <2>2, HandlerQueue, SystemQueue DEF Next
<1>3. QueueInv => QueueExists
  BY DEF QueueInv, QueueExists, SchedulesHaveQueue, PollersHaveQueue, JobsHaveQueue,
         RunsHaveQueue, AttachedRuns
<1> QED  BY <1>1, <1>2, <1>3, TypeCorrect, PTL DEF Spec

----------------------------------------------------------------------------

\* A step that brings a row back is the insertion of a creation.
LEMMA RowStep ==
    ASSUME TypeOK, [Next]_vars, NEW a \in Actions, row[a] = NoRow, row'[a] # NoRow
    PROVE  \E r \in Requests : At(r, "insert") /\ req[r].id = a
<1> USE TypeParts
<1>1. row' # row
  OBVIOUS
<1>2. PICK r \in Requests : Insert(r) \/ Cleanup(r) \/ Write(r) \/ Remove(r) \/ SaveJobId(r)
  BY <1>1 DEF Next, NewRequest, HandlerStep, WorkerStep, ProcessStart, Crash, Listen,
     StartBoss, FetchSchedules, Register, CronTick, TakeJob, ReadAction, Execute,
     StartCreate, StartSkippedImport, StartUpdate, StartDelete, Read, CheckCancel,
     Unschedule, OffWork, CheckSchedule, CreateQueue, Work, Schedule, Audit, Answer,
     database, vars
<1>3. CASE Insert(r)
  BY <1>1, <1>3, RowLemma DEF Insert, RowsOK
<1>4. CASE Cleanup(r) \/ Remove(r)
  BY <1>4, RowLemma DEF Cleanup, Remove, RowsOK
<1>5. CASE Write(r)
  <2>1. \/ row' = row
        \/ row[req[r].id] # NoRow /\ row' = [row EXCEPT ![req[r].id] = req[r].new]
        \/ row' = [row EXCEPT ![req[r].id] = IF @ = NoRow THEN @ ELSE req[r].new]
    BY <1>5 DEF Write
  <2> QED  BY <1>1, <2>1, RowLemma DEF RowsOK
<1>6. CASE SaveJobId(r)
  <2> DEFINE named == [row[req[r].id] EXCEPT !.jobId = TRUE]
  <2>1. \/ row' = row
        \/ row[req[r].id] # NoRow /\ row' = [row EXCEPT ![req[r].id] = named]
        \/ row' = [row EXCEPT ![req[r].id] = IF row[req[r].id] = NoRow
                                               THEN row[req[r].id] ELSE named]
    BY <1>6 DEF SaveJobId
  <2> HIDE DEF named
  <2> QED  BY <1>1, <2>1, RowLemma DEF RowsOK
<1> QED  BY <1>2, <1>3, <1>4, <1>5, <1>6

\* A deleted action stays deleted, however the handlers interleave, fail and die.
THEOREM NoResurrection == Spec => DeletedStaysDeleted
<1> DEFINE Step == \A a \in Actions : row[a] = NoRow /\ row'[a] # NoRow =>
                       \E r \in Requests : At(r, "insert") /\ req[r].id = a
<1>1. TypeOK /\ [Next]_vars => [Step]_vars
  BY RowStep
<1>2. DeletedStaysDeleted <=> [][Step]_vars
  BY DEF DeletedStaysDeleted
<1> HIDE DEF Step
<1> QED  BY <1>1, <1>2, TypeCorrect, PTL DEF Spec
=============================================================================
