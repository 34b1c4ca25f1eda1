# Verification of the Moon backend

TLA+ specifications of the stateful parts of the Moon backend (an Express and
socket.io server in TypeScript over Prisma/Postgres, pg-boss and AWS ECS/EC2),
TLC configurations that check them on small instances, and TLAPS proofs of the
results that should hold for every instance. Paths below are relative to the
repository; `socket.config:233` stands for line 233 of that file.

How to run (in this directory):

    tlc -workers 2 -config AutoRefresh_one_user.cfg MC_AutoRefresh.tla
    tlapm AutoRefreshProofs.tla

`PROJECT.json` lists the runs, the source lines of every definition (`map`), the
known hazards and the properties that cover them, and for every checked property
a fault of the code (`Mutant...` in the modules) that makes it fail.

## 1. The system

Express handlers, socket handlers, timers and pg-boss workers all run on one Node
event loop: code between two `await`s is atomic, everything else interleaves. So
the granularity of every module is *one action per stretch of code between two
awaits*; where the stretch is a call to Postgres or AWS, the action is that call,
with its failure as another outcome.

| component | state it keeps | operations | talks to | hard behaviour | what makes it correct |
|---|---|---|---|---|---|
| Auto-refresh scheduler (`config/socket.config.ts`) | `connectedClients` (userId -> ClientInfo: sockets, interval, mode, timer handle), the shared automatic interval and its success window | connect, INTERVAL_SET, MANUAL_REFRESH, TOGGLE_PROGRESSIVE_LOADING, disconnect, timer callback, health check | loader, browsers | callbacks suspended in an await while the map, the socket array, the mode and the timer they refer to change; one client's result re-arms every client's timer | one timer per client; no timer in manual mode; all automatic clients at one interval; refresh never stalls; back-off bounded and reversible; map = open sockets |
| Cluster data loader (`services/socket.service.ts`) | one 3 s cache entry for all users, of the legacy loads only; promises of the loads in flight | legacy and progressive loads, inventory, services and tasks of one cluster | ECS and EC2 queries | many calls in flight whose answers come in any order and fail one by one; concurrent misses of the cache | a part is sent once it is whole, a failed part spoils no other, the end is announced last; the cache is never much older than its TTL |
| Scheduled actions API (`controllers/action/`) | rows `action` (trigger, enabled, config.jobId) | create, update, delete, import, export, list, refresh | job scheduler, audit log, database | three stores (row, schedule, worker) changed by separate calls that fail or interleave | schedule exists iff the row is active; no lost or resurrected action |
| Job scheduler (`services/scheduler/job-scheduler.service.ts`) | pg-boss schedules, queues, jobs (in Postgres); workers (in memory) | initialize, registerWorkersForExistingSchedules, scheduleJob, cancelJob, handleScheduledAction | pg-boss, actions, execution | process restarts, workers added without removing the old ones | queue before worker before schedule; each schedule has one worker, also after a restart |
| Action execution, security groups (`action.helper.ts`, `audit-log.helper.ts`, `ec2.service.ts`, `rules-helper.ts`) | the events being executed; inbound rules of a security group (in AWS) | execute the actions of a login, a page refresh, a job: add, remove, remove all | EC2 with retries | describe-then-revoke, a call sent again after it took effect, events that overlap, one action of several failing | the group ends as the actions say; what is reported as done was done; the caller gets in |
| ECS environment variables and versioning (`services/aws/environment-variable*.ts`) | task-definition revisions, the revision each service runs | add, edit, remove, replace, copy, move, roll back, history | ECS | read-modify-write of an immutable revision over several calls | an edit changes what it names and nothing else; a move loses nothing |
| ECS clusters, services (`services/aws/*.ts`) | none (queries), desired count and image of services | list, describe, restart, scale, update image | ECS | shares revisions with the component above | image update keeps the variables |
| Two-factor, WebAuthn, YubiKey (`controllers/user/two-factor.*`, `webauthn.controller.ts`, `helpers/two-factor.helper.ts`) | challenge map in memory; secret, method, verified flag and devices in the user row; rows of keys | setup, verify, disable, reset, register and remove keys, choose the method, authenticate | database, Yubico | four pieces of state kept in step by different handlers; check-then-use across awaits; a JSON value read, changed and written back | nobody is asked for a factor that cannot be given; a challenge serves once; the list of devices stays a list |
| Passwords, users, sessions (`password.controller.ts`, `user.controller.ts`, `auth/`) | user rows, reset tokens, temporary cookies | login, change and reset of passwords, create, invite, import, delete | database, mail | token looked up and cleared in different calls, several calls per user of which the mail may fail | a token serves once and has been mailed; no account without a way in |
| Database connection (`config/db.config.ts`) | none | bounded connect loop at start | Postgres | - | the process serves only when connected |
| Access control and middlewares | none (rate-limit counters in a library) | checks on each request | database | - | - |
| SAML login | none of its own | login, callback, configuration | a SAML library | - | - |
| Audit log | append-only rows | append, which executes the actions of a login; queries | database, execution | a failing append after the answer | see the other components |
| CRUD of organizations, services, deployments; GitHub | rows | one call per request | database, GitHub | - | - |

Interactions: the scheduler asks the loader (one await per socket); the handlers of
second factors, passwords and users share the rows of users; action handlers
call the job scheduler, which calls pg-boss, whose workers call the execution, which
calls EC2; `index.ts` starts the HTTP server before the job scheduler; audit-log
writes are the last await of most handlers, before or after the answer.

## 2. Modules

| module | models | status |
|---|---|---|
| `AutoRefresh` | the refresh scheduler | done |
| `MC_AutoRefresh` | its constants for TLC | done |
| `AutoRefreshProofs` | its theorems | done |
| `ScheduledActions` | actions API, job scheduler, pg-boss, process life cycle, composed | done |
| `MC_ScheduledActions` | its constants for TLC | done |
| `ScheduledActionsProofs` | its theorems: types, queues, no resurrection | done |
| `ActionRequestsProofs` | its theorems about answers: deletions, schedules and workers | done |
| `EnvRequests` | the data of the next two: variables, task definitions, what a request asks | done |
| `EnvStore` | what the environment-variable API promises: a store with atomic requests | done |
| `EnvVars` | what the API does: readings, base, new revision, update of the service | done |
| `MC_EnvVars` | its constants for TLC | done |
| `EnvVarsProofs` | its theorems, and that it implements EnvStore | done |
| `UserStore` | what all account handlers share: rows, keys, challenges, frames of handlers, failures | done |
| `TwoFactor` | the calls of `two-factor.helper.ts`, and the handlers of second factors as sequences of them | done |
| `Accounts` | the handlers of passwords, users and login; all of them composed | done |
| `MC_Accounts` | its workloads for TLC | done |
| `AccountsProofs` | its theorems: types, devices | done |
| `AccountFlowProofs` | its theorems about the order of calls: tokens, challenges, codes, methods | done |
| `DataLoader` | loads of clusters and services, their calls in flight, the cache | done |
| `DataLoaderProofs` | its theorems | done |
| `ActionExecution` | the actions of an event against a security group | done |
| `ActionExecutionProofs` | its theorems | done |
| `MC_Services` | the workloads of the last two, which share no state, for TLC | done |

### 2.1 AutoRefresh

A `ClientInfo` object is a member of `Clients` with its record in `client`;
`connectedClients` maps users to objects or `NoClient`. Objects are kept apart from
users on purpose: a callback closes over the *object*, and after a disconnection and
a reconnection the user has another one. `timeoutId` is `null`, names a timer still
pending, or one already fired or cleared; `timers` counts all pending timers that
close over the object, so that a timer no handle names any more is visible.
`exec` holds the executions suspended in `executeWithHealthCheck`: which object they
captured, the sockets their loop still visits, and whether the array they iterate is
still the object's own (`push` on connect changes it in place, `filter` on disconnect
replaces it).

| code | action |
|---|---|
| `io.on(CONNECT)` 287-309, 443-447 | `Connect` (creates or joins the object, starts the initial load) |
| INTERVAL_SET 347-407 | `IntervalSet` (the timer is cleared before the mode is validated) |
| TOGGLE_PROGRESSIVE_LOADING 311-324 | `ToggleProgressive` |
| MANUAL_REFRESH, CLUSTERS_UPDATE 409-423 | `RequestRefresh` |
| DISCONNECT 425-441 | `Disconnect` |
| timer callback 197-221 up to its first await | `TimerFires` |
| end of an await: `HealthCheck` 157-178, the next socket 212-221, `FinishExecution` 222-241; `socket.service` 94-183 | `Complete` |

Times are quarter-seconds, which makes 7.5 s and 3.75 s natural numbers. The
content of the data and the order of a user's sockets are abstracted.

### 2.2 ScheduledActions

Rows, schedules, queues and jobs survive a crash, workers (`polling`, `run`) and
handlers (`req`) do not. A handler is a program counter over the calls it makes:
`pc` is the *next* call, `old` the row it read (the code's `existingAction`), `new`
the row it writes. A failing call may or may not have taken effect (`row' \in {row,
...}`), and is followed by the catch block the code has at that place: `Fail`,
`ScheduleFailed` (create deletes the new row), `CancelFailed` (an update that disables
only logs). `Listen`, `StartBoss`, `FetchSchedules`, `Register` are the start of the
process; requests are accepted from `Listen` on, as in `index.ts:98`. pg-boss and the
database are external and modelled from their use: `schedule` and `unschedule` are
sets, `work` adds a worker, `offWork` stops all workers of a queue, a job is retried.

Assumptions. A client sends back only the jobId its own action once had (export
removes it, `action.controller:386-400`); `config` is always present (the schema
requires it), so the inner condition of update's case 2 is always true; an import
file holds one action; there is no `unhandledRejection` handler, so a rejection that
nobody catches ends the process; stopping gracefully is a crash at that point.

### 2.3 EnvVars

`revisions[s]` are the task definitions registered for service `s`, `current[s]` the
one it runs. They are in AWS and survive a stop; `req` holds the handlers. The
variables of a container are a function from names and kinds (plain, secret) to values,
so their order is abstracted.

| code | action |
|---|---|
| a handler of `environment-variable.controller` up to the call of the service | `Start` |
| `getServiceEnvironmentVariables`, `getServiceSecrets`, and the same of a version | `Read`, one per call; add, edit and remove make their two at the same time, copy and move one after the other; `Refused` are the checks that follow |
| `getServiceTaskDefinitionArn` in `updateServiceEnvironmentVariables(AndSecrets)` | `ReadBase` |
| `RegisterTaskDefinitionCommand` | `Register` |
| `UpdateServiceCommand` | `UpdateService`; a move goes on with its source |
| a call that throws without an effect | `CallFails`; `Register` and `UpdateService` may also take effect and fail, and `Register` may be sent twice |
| answer, audit log | `Answer`; `Stop` when the audit log throws after the answer, and for crashes |

`EnvStore` says what a client may expect: a request takes effect once, at one moment,
on the variables of that moment, and touches one container; a move has two effects,
target first. `EnvVars!Store` maps every container to what its service runs, and
`AtomicRequests == Store!Spec` is the refinement: reading early, reading again and
registering revisions are invisible, except that every state of a service is on
record before it runs. That AWS refuses some definitions (a name used twice) is one
more call that fails.

The constant `Exclusive` says that no two requests use one service at the same time.
The code has no such lock. With `Exclusive = FALSE` neither `AtomicRequests` nor
`MoveLosesNothing` holds: a request computes from one description and writes over
another, so the later of two writes undoes the earlier (section 6).

### 2.4 UserStore, TwoFactor, Accounts

Some thirty handlers work on one table of users. Each is a sequence of calls to the
database or the challenge map, and many call the same functions of
`two-factor.helper.ts`. So a handler is not a program counter of its own but a *frame*
(`req[r]`): the calls it still has to make (`todo`), the row as it last read it
(`snap`), and what it drew or was given (`key`, `grant`, `token`, `method`). A call is
one action, whichever handler makes it; `TwoFactor` and `Accounts` define each handler
as the record `[when, admits, calls]`: whether it goes on from the row it starts from,
whether it goes on once it has read the keys, and its calls. `verifySession2FA`, for
instance, is `readKeys, checkCode`, then `setVerified` unless the row it starts from was
verified, then `readRow, writeDevices` (`updateVerifiedDevices`).

| code | definitions |
|---|---|
| two-factor.controller, webauthn.controller | `setup2FA` .. `completeWebAuthnReAuthentication` in `TwoFactor` |
| password.controller, user.controller, auth.controller | `changePassword` .. `login` in `Accounts` |
| how a handler finds its user: cookie or id, e-mail, token, challenge | `BeginWithUser`, `BeginWithEmail`, `BeginWithToken`, `BeginWithChallenge`; `BeginCreate` for a row that is not there |
| two-factor.helper, user and yubikey repositories | `ReadRow`, `SaveSecret`, `SetVerified`, `WriteMethod`, `WriteDevices`, `RemoveDevice`, `ResetTwoFactor`, `CheckCode`, `CheckYubikey`, `CreateKey`, `DeleteKey(s)`, ... |
| challengeStore | `StoreChallenge`, `GetChallenge`, `RemoveChallenge`, `Expire` |
| catch blocks; a call that fails before or after its effect | `Caught`, `CallFails`, and the second disjunct of `Answered` |
| an audit log that fails after the answer; a crash | `Stop` (memory is lost, rows stay) |

`Update` is the heart: a call writes the fields it names into the row *as it is now*,
except `WriteDevices` and `RemoveDevice`, which write a list computed from `snap`. The
variables `mailed`, `troubled`, `confirmed` and `spent` are history, for properties.

Assumptions. A code or signature is right or wrong, and the client may always send a
wrong one. A token or challenge that is too old is refused, which changes nothing; a
challenge may disappear at any moment. An e-mail is used for one account only. An
import file holds one user. Accounts are local and of one organization. Requests that a
handler refuses before its first call are left out. MaxSecrets, MaxTokens and the
challenges bound what is drawn: a call that would draw one more fails.

### 2.5 DataLoader

A load is a record: the calls in flight (`jobs`), which services AWS listed, which were
gone when described, and which the answer will hold (`listed`, `gone`, `found`); the
*parts*, the services or the scheduled tasks of one cluster, that were sent (`ok`) or
have failed (`bad`); what its socket was told. An answer removes its job and adds the
ones that follow; a part without jobs is sent in the same step.

| code | action |
|---|---|
| `generateClusterDetails`, `generateClusterDetailsProgressive`, the three loads on demand, up to their first await | `StartLegacy` (with `CacheHit`), `StartProgressive`, `GetEC2InventoryOnly`, `RefreshClusterServices`, `RefreshClusterScheduledTasks` |
| `getInstances`; `getBasicClusterDetails` | `InstancesAnswer`; `ClustersAnswer` |
| `loadClusterServicesProgressive`, `loadScheduledTasksProgressive` | `LoadClusterServices`, `LoadScheduledTasks`, entered by `InstancesAnswer` and `NextStep` |
| `getClusterServices`, `processBatch`, `getMultipleTaskDefinitions`, `processService` | `ServicesListed` (with `Batches`), `BatchDescribed`, `DefinitionsAnswer`, `ServiceFound` |
| `getFailedTasks`, `isDeploymentStuck`, `getECSScheduledTasks` | `FailedTasksAnswer`, `DeploymentStuckAnswer`, `TasksAnswer` |
| a call that throws | `LoadCallFails`: the part, or the load, as the code's catch blocks have it |
| the cache (`node-cache`) and time | `cache`, `Tick` |

AWS is free to list other clusters and services at every call. Only legacy loads, whose
answers are kept, are timed, and take at most `Slow` ticks.

### 2.6 ActionExecution

An event is a login (through the audit log), a page refresh or a job of pg-boss.
`exec[r].todo` are the positions of the actions still to execute, `step` the call to EC2 in flight,
`rules` what it is about. `Lookup` is the query of the active actions, `Execute` the
dispatch of `ActionHelper.execute` up to its call; `Authorize`, `Revoke`, `Describe` and
`RevokeAll` are the answers of EC2; `NoAnswer` is a lost or throttled answer, after
which the call, which may have had its effect, is sent again or given up.
`NextAction` is the catch inside the loops: an action that fails does not stop the rest.
`DeliverAgain` is pg-boss's retry of a job whose handler threw or whose completion was
lost. Addresses have a form (`v4`, `v4cidr`, `v6`, ...) because `ensureCidrFormat` and
EC2 tell these apart; ports are numbers, too large ones and `NaN`.

Assumptions: all actions of a workload are about one group; EC2's limits are like an
outage; an event is not cut by a crash (what a crash leaves is a group between two of
its states, and pg-boss's retry is there).

## 3. Runs

| run | question | instance |
|---|---|---|
| `refresh_one_user` | are timers, interval bounds, map and progress right for one user with two sockets, whatever interleaves? | 1 user, 2 sockets, 2 objects, 2 executions, interval 12..40, window 2, modes 0, -1, 20 |
| `refresh_two_users` | do the users share one automatic interval, with invalid modes requested too? | 2 users, 1 socket each, 2 objects, 2 executions, 12..24, modes 0, -1, 20 and the rejected 28 |
| `refresh_fairness` | does refresh go on, does the back-off recover, do the timers of gone users end? | 1 user, 2 sockets, automatic mode, window 1, 12..24 |
| `refresh_orphan` | violation: the timer may be armed for an object that left the map | |
| `actions_sequential` | after any sequence of requests, and a restart, do schedules, rows and workers agree? | 2 actions, 1 handler, 2 runs, 1 crash, 2 workers, no faults, `Calm` |
| `actions_failures` | with failing calls, crashes and requests before the scheduler is ready: is an answer of success true, does each schedule get a worker again? | 1 action, 1 handler, 2 faults, 2 crashes |
| `actions_concurrent` | two handlers on one action: queues exist, one deletion succeeds, nothing is resurrected | 1 action, 2 handlers, 1 fault |
| `actions_orphan` | violation: an update and a deletion at the same time leave a schedule without an action | 2 handlers, no faults |
| `env_exclusive` | does the API implement the atomic store, and does a move lose nothing, when requests on one service follow each other, calls fail and the process stops? | 2 services, 3 containers (2 in one service), 2 requests out of 10 kinds, 3 and 2 revisions, `Exclusive` |
| `env_self_move` | violation: a move of a container to itself succeeds and deletes the variables | 1 request |
| `accounts` | do rows, keys, tokens and challenges stay in step over any sequence of handlers, with a failed call or with two handlers at a time? | 3 e-mails of which two differ in case, an OTP key and a WebAuthn key, 1 device, 2 secrets, 2 tokens, 2 challenges, eight workloads |
| `services` | do loads send whole parts, in any order of answers and with failures, and end? do events leave the group as configured, whatever EC2 loses and whoever else writes? | 2 clusters, 4 services, batches of 2, TTL 2, loads of 2 ticks, 5 workloads; 2 events, 2 tries, 1 redelivery, ports up to 2, 10 workloads |

Why the bounds are enough. *AutoRefresh*: two executions are what a race needs (one
suspended, one changing what it captured); two objects are the old and the new object
of a user who reconnects; with two users no user can reconnect onto a second object
while both are in, which is what `refresh_one_user` is for; 12..40 makes the sequence
12, 24, 40, 20, 12 in which both clamps bite between steps. The liveness run has a
window of 1 to stay short: one success undoes one doubling. With a window of 2 in the
same cfg, or of 3 with one socket and 12..48, where successes are counted and errors
start the count again, the properties hold as well (555,024 and 43,204 states). *ScheduledActions*: two
handlers are what a race needs; the worker count is capped at 2 because "more than
one" is what the property forbids; 2 faults are a failure and the failure of the
clean-up after it; 2 crashes are a crash in a handler and one during the restart.
*EnvVars*: a request that meets an older revision needs two, a move within a service
two more, so three revisions of one service and two of the other; two containers in one
service show that the other one is left alone, and that source and target may share a
definition; the requests cover every operation, names that are plain, secret or
missing, and a revision that may not exist yet.
*Accounts*: a workload names the operations that may be called, any number of times
and in any order, since no handler leaves a state that a bound on calls would cut off;
what is bounded is what they draw, and two secrets, tokens or challenges are the old
one and the new one. The workloads are cut so that operations which touch the same
fields of a row are together: all factors in sequence, codes with enforcement, WebAuthn
and passwords, users and tokens, and three of overlapping handlers (tokens; devices and
resets; deletion against import, reset and devices). *Services*: three services in one
cluster make two batches of different size; two clusters are what a part needs to fail
beside another; two legacy loads are an older and a newer answer for the cache; two
events of one caller add the same rule; two tries are a lost answer and the second
sending; ports 0, 2..1, 3 and NaN are wrong in each way, three numbers in a range are
accepted.
Stale timers and jobs are bounded by the pools, not by the guards of the code.

Which runs check which assumption. `ScheduleMatchesRow` and `OneWorkerPerSchedule`
hold for one handler at a time, without failed calls and without a crash inside a
handler (`Calm`). `ScheduleGetsWorker` says that a process which starts again, whatever
crash or failed call ended the one before, gives each schedule a worker, unless a
further call fails. The code does not have them otherwise, and section 6 says how it
fails; nothing in `Calm` hides the interleaving with workers, ticks and restarts.
`NotLockedOut` is stated between requests that neither overlap nor fail, and
`OneTimeGrants` and `VerifiedMeansConfirmed` for requests that do not overlap
(`parallel = 1`), crashes and failures included: the code takes no lock, and section 6 says what
overlapping requests do. `OneEntryPerDevice` and `TokenReachesItsUser` hold without such a
condition. `GroupAsConfigured` is about events that nothing overlaps with,
`SuccessMeansDone` about all, `OpensForCaller` about overlapping events that only add
rules.

Fairness. `AutoRefresh!FairSpec`: an AWS call ends, with an answer or an error (weak
fairness per execution); Node fires a pending timer (strong, only because the model
makes a callback wait for a free member of `Execs`, which the code does not). Users
promise nothing. `ScheduledActions!FairSpec`: a handler goes on after its call has
ended, a worker that polls takes a job, and a process that ended is started again by
its container runtime; users, cron ticks and crashes promise nothing, and crashes are
finitely many. `DataLoader!LoaderFairness`: a load in progress goes on, because each of
its calls is answered or fails (the SDK gives up at last); the start of a load promises nothing.
`ActionExecution!ExecFairness`: an event that has begun goes on, for the same reason.

## 4. Proofs

`AutoRefreshProofs`, for any number of users, sockets, objects and executions.
The invariant `IInv` is the conjunction of `TypeOK`, `OneTimer`, `TimerHasInterval`,
`SharedInterval`, `IntervalInBounds` and `MapMirrorsSockets`: none is inductive alone,
together they are. `MapMirrorsSockets` is what the others need about the map: an object
in it belongs to the user it is mapped from, so no two users share one and the update
of all automatic clients touches each object once. `OneTimer` is the point
of the argument: `UpdateAllAutomaticClients` and `ScheduleNextExecution` clear before
they arm, whatever execution is suspended, so the count and the handle never diverge.
`SharedInterval` needs that the mode and the interval change in the same step.
`RefreshNeverStalls` is proved for requested modes 0, -1 and the allowed intervals
only, because an interval that is refused leaves a client without its timer (section
6); under that assumption `NeverStalls` is inductive relative to `IInv`.

`ScheduledActionsProofs`: `TypeCorrect`; `QueuesExist`, with the inductive `QueueInv`
= schedules, polling workers, jobs, busy workers and handlers about to call `work`
or `schedule` all have their queue: queue, worker and schedule are made in this order
and queues are never deleted; and `NoResurrection`, an action property:
every write except the insertion of a creation leaves a missing row missing.
None of them depends on `Calm`, the number of faults or the number of crashes.

`ActionRequestsProofs`, about the same module, for the answers of its handlers.
`DeletionSucceedsOnce` has no hypothesis. Its invariant `DeleteInv` says of a deletion
that has removed its row that the row is still missing (`RemovedRowsGone`) and that
there is one such deletion per action at most; both need that an id which was in use is
not inserted again (`RowsAreUsed`, `InsertionsFresh`, `FoundWereUsed`), or a late
deletion could find a second row to remove. The other four are about handlers that do
not overlap, as the runs check them. `SuccessIsScheduled` and `DeletionStopsSchedule`
assume `OneAtATime` (`Requests` has one member) and nothing about faults and crashes;
their invariant `SuccessInv` says, call by call, what the handler has achieved when it
has come to a program counter without an error: after `work` the queue has a worker,
after `schedule` there is a schedule, after `saveJobId` the row knows it.
`SchedulesFollowRows` and `SchedulesHaveOneWorker` assume `Undisturbed`: `OneAtATime`,
no faults, and `Calm`, under which crashes come between requests only. The code has
neither property otherwise (section 6). `CalmInv` says of the actions nobody works on that schedule, row and workers
agree (`Settled`), of the action the handler works on how far it has come (`PlaceOK`),
and of a process that starts how many schedules still lack their worker (`StartOK`).

`EnvVarsProofs`, for any services, containers, variables and requests: `TypeCorrect`,
from an invariant which adds that the base a request holds is a definition of the
service it writes and the revision it will install is registered there; and
`MovesLoseNothing`, under `Exclusive = TRUE`. Its invariant `MoveInv` adds `Alone` (no
two active requests use one service, kept by the guard of `Start` only) and `Snapshot`:
what a move read from the source is still what the source runs while the target is
written, and what the target runs while the source is written; the base is the
definition in use and the revision registered is the base with one container computed.
A step of one request leaves the snapshots of the others alone, because their services
are disjoint (`OthersUndisturbed`); `UpdateService` is where the target takes over.

`RequestsAreAtomic`, under the same hypothesis, is the refinement
`Spec => AtomicRequests`. `AtomInv` adds to `MoveInv`, for every operation and not only
a move, that each reading already made is what EnvStore would find now, in the service
or in the older revision it is about (`Knows`), and that a request which writes was not
refused (`Fits`). From it `StoreValue` and `SourceValue` show that what is computed is
what the request asks for, `StoreEffect` that the revision registered is the `Version`
the abstract step puts on record. Then every action is mapped: readings and `ReadBase`
stutter (a refused reading is `Fail`), `Register` is `Record`, whether its answer
arrives, is lost or is an error, `UpdateService` is `TakeEffect`, and `Start`,
`CallFails`, `Answer`, `Stop` are the abstract steps of the same meaning. The delicate
case is a move of a container to itself: what its second half takes out is what its
first half has just written, so the reading of the source must survive the first effect
(`UpdateFits`). An overlap of CASE arms in `EnvStore` was found by this proof: TLC takes
the first arm that holds, the meaning of CASE leaves the choice open, so `Possible` and
`Value` are now written without overlap.

`AccountsProofs`, for any users, keys, devices, requests, challenges and workloads:
`TypeCorrect`, whose lemmas show that every handler is a non-empty sequence of calls
and that each of the few operators a call is built from (`Proceed`, `Answered`,
`Update`, ...) keeps the types; and `DevicesOnce`. What a handler writes back is
computed from the row it read, maybe long ago, so `OneEntryPerDevice` is inductive only
together with the same statement about the `snap` of every frame.

`AccountFlowProofs`, for the same instances, takes up the order of the calls. A frame
holds the calls still to come, so what is needed of it is said of that sequence:
`Has(s, A)`, `Leads(s, A, B)` (each call of A is followed by one of B) and
`Bars(s, A, B)` (none of B after one of A), with lemmas on what they say of a tail and of
a concatenation. `Courses`, proved for all of the some thirty handlers once, says that
no check comes after an effect, that a key made or deleted leads to `pickMethod` and
that to `writeMethod`, that a challenge spent leads to its removal (`Ordered`), and
what is left of the handlers that are short (`Fixed`). On it rest:

- `TokensReachUsers`, with any overlap of requests: a token in a row is mailed, or the
  handler that will mail it has just `sendMail` to do (`Reaching`); a row without
  password has a token or a handler with `saveToken, sendMail` to do (`Invited`).
- `GrantsOnce` (`GrantsInv`, requests that do not overlap): tokens are in one place only
  and do not come back (`TokensUnique`); a challenge spent is gone, or the
  one handler that spent it has only to record and remove it (`Spent`), which its catch
  block does as well (`Closing`).
- `VerifiedIsConfirmed` (`CodesInv`): a handler that may set `twoFactorVerified` has a
  check before it, or has the confirmed secret in its `snap`.
- `NobodyLockedOut` (`MethodsInv`, requests that neither overlap nor fail): the method
  in force fits secret and keys, or the handler that has changed them still writes one
  that does (`Repairs`).

The invariants keep the preconditions of the properties (`work.parallel = 1`,
`Sequential`), because the code takes no lock. Two assumptions name what the TypeScript
types give: a token is not a challenge (`GrantsAssumption`), and a challenge that was not
issued yet differs from one that is gone (`Unused # Gone`).

`DataLoaderProofs`, for any clusters, services, batch size and loads. `TypeInv` adds to
the types that a running legacy load is at most `Slow` old: an answer enters the cache
with that age, and ages there by at most `TTL` (`RecentAnswersHold`). `CompletionComesLast` and
`NoServiceIsLost` follow from `LoadInv`: a load is either before its first part, with
one call in flight and nothing sent (`Opening`), or its calls all belong to parts of
its step (`InStep`), every part of the step is sent, failed or has a call (`Covered`),
and every listed service is found, gone, in a failed part, or known to some call
(`Working`). What follows an answer belongs to the part of the answer, so pending
parts only shrink (`FollowPending`), and `LeftInv` shows once for all answers
that sending the parts without calls keeps the invariant.

`ActionExecutionProofs`, for any actions, events, editors and numbers of retries.
`SuccessIsReal`, the action property `SuccessMeansDone`: each answer that reports
success has put its rules into the group, or taken them out, in the same step, and no
other step reports one. `ExecTypeCorrect`: `TypeInv` adds that an event which calls EC2
has an action to do, without which `Doing` would be the least element of nothing
(`LeastIsThere`, from well-foundedness of the naturals). `CallersGetIn`, with
`OpenInv`: of the actions an event took up, each is still to do or its rule is in the
group, or the event has met an outage; where nobody edits the group and all actions add
rules the group only grows, so the other events cannot undo it.

Assumptions on constants made for the proofs. `NoRequestAssumption` (EnvVars): the
value for "no request" is neither a request nor the abstract view of one.
`OneRule` in `ActionExecution`: an action that adds or removes one rule has a protocol
and ports, as `action.schema.ts:9-24` requires.

Only model-checked: the liveness properties (`IntervalRecovers`, `RefreshGoesOn`,
`TimersOfGoneUsersEnd`, `ScheduleGetsWorker`, `LoadsEnd`, `EventsEnd`), since the prover
has no ENABLED; and `GroupAsConfigured` of `ActionExecution`, which folds over the
actions of an event (what a recursion or fold computes needs induction over data). Every safety
invariant that a run which passes checks, and the refinement, is stated by a theorem.
For that the actions an event has still to do became a set of positions in place of a
suffix selected by recursion, of which the prover knows nothing.

## 5. What is not modelled

- One database or HTTP call per request with nothing kept between requests (CRUD,
  GitHub, audit-log queries, cluster queries): there is nothing to interleave.
- `bulkUpdateWithVersioning`, `updateServiceSecrets`, `rescheduleJob` and
  `getClusterDetailsWithOptions`, which nothing calls; the list and comparison of
  versions, the desired count and the restart of a service.
- The update of a user's name, role and e-mail, the nickname of a key, lists and exports of users.
- Who may ask for what: roles, organizations, and the middlewares that check them.
- Libraries: SAML, rate limiting, signed cookies, WebAuthn signatures, pg-boss's own
  tables.
- Names and input validation of actions; cron texts and their conversion to another
  time zone (planned, `CronConversion`).
- Messages of a load that only show progress; the fields of what AWS describes.

## 6. Where code and comments disagree

Shown by a run: `refresh_orphan`, `actions_orphan`, `env_self_move`.

Read in the code while modelling, and modelled as it is:

- INTERVAL_SET clears the timer before it validates the mode
  (`socket.config:357`): a refused interval (`:403`) leaves the client with its old
  interval and no timer.
- `socket.config:443` says the initial load uses progressive loading by default; the
  object is created with `useProgressiveLoading: false` (`:299`).
- `concurrencyLimit` of `socket.service:222` limits nothing: every promise has been
  started by `map` before the batches are awaited.
- Update's case 2 ("remains scheduled and enabled", `action.controller:202`) does not
  test that the new trigger is scheduled: changing the trigger of an enabled scheduled
  action cancels the job and answers 500, with the row already written.
- create deletes its row when storing the jobId fails, but not the schedule made one
  call earlier (`action.controller:118`).
- Two updates at once: `offWork` of one stops the worker the other has just made.
- `registerWorkersForExistingSchedules` logs an error and reports success.
- Two requests on one service: the second to write computed its variables before the
  first wrote (`environment-variable.service:357`), or registers a revision made from
  the base before it (`:493`): one change is lost, and a move can lose a variable from
  both sides. Different containers of a service are affected too, and so is the update
  of an image (`service-management.service:92`).
- `listTaskDefinitionRevisions` stops after its second page: `hasMore` compares
  `nextToken` with `previousToken` just after assigning it (`task-definition.service:137`).
- A failure of the audit log after the answer makes the handlers of
  `environment-variable.controller` answer again, which throws.
- `rate-limit.middleware.ts:15` allows 10 requests, its comment says 5.

Loads and events:

- The progressive loader catches the errors of AWS itself (`socket.service:174`), so
  the back-off of the interval (`socket.config:157`) only sees errors of the legacy loader.
- LOADING_COMPLETE says "All data loaded successfully" although clusters have failed.
- ListServices and ListClusters are asked for one page, of 100 at most.
- `isExecuting` is one flag for all the executions of a client (only displayed).
- SCHEDULED_JOB_STARTED is mapped to a trigger, but no such log is ever written; scheduled
  rules are opened for `0.0.0.0/32`, the address `scheduleJob` gives them.
- `extractIpMiddleware` does not use the address of the socket it has computed:
  without a proxy's headers the address is undefined, and `execute` opens 127.0.0.1/32.
- A caller with an IPv6 address gets a /128 in `IpRanges`, which EC2 refuses.
- `removeAllInboundRules` fails as a whole when one rule it described has gone meanwhile.
- `boss.fail` gets the id of the job where it expects the queue
  (`job-scheduler:111`, `119`, `131`, `142`).
- The conversion of cron texts says UTC to local, but subtracts the offset; it does
  not shift the day, and reads lists and ranges as their first hour.
- `importActions` checks the name and creates the row in two calls: two imports at once
  create an action twice.

Accounts:

- create stores a hash (`user.controller:69`), update stores the password as it came
  (`user.controller:157`).
- create and invite insert the e-mail as given, lookups use lower case: an account
  with a capital letter is not found by e-mail.
- A second import skips the user whose mail failed in the first one.
- `removeYubikey` leaves `twoFactorVerified` true; a later set-up resets it.
- Adding a key sets `twoFactorVerified` whatever secret is stored, confirmed or not.
- When `autoUpdateTwoFactorMethod` fails after a key was added, the method stays TOTP
  and a user who has only this OTP key cannot verify.
- `disable2FA` or a reset that overlaps with `setupYubikey` may leave a key with method
  TOTP and no secret.
- Two overlapping uses of one token, or of one challenge, both succeed.
- The clearing of devices by a reset of the password (`password.controller:294`) is
  undone by an `updateVerifiedDevices` that read the row before.
- A verification and another one, or the removal of a device, at once: the list of the
  later write replaces that of the earlier (`two-factor.helper:138`, `:163`).
- `requireOrganizationAdminGuard` reads `req.params.userId`, which routes with `:id` do
  not have.

## 7. Plan

Done: the refresh scheduler, scheduled actions, environment variables, accounts, loads
and execution, the first of them because their state is changed by several calls that
interleave. What is left, in this order:

1. Proofs: what `GroupAsConfigured` needs except its fold; stronger statements about
   overlapping handlers where the code has them.
2. Abstract specifications: one rhythm per connected user, implemented by
   `AutoRefresh`; a registry of live schedules, implemented by `ScheduledActions`.
3. `ActionExecution` composed with `ScheduledActions`, so that a job's action may be changed
   or deleted while it is executed.
4. `CronConversion`: a pure function against a reference over all inputs.
