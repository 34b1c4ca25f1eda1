------------------------------ MODULE DataLoader ------------------------------
(***************************************************************************)
(* Loading clusters and their services for a socket: services/socket.      *)
(* service.ts over services/aws/cluster-management.service.ts,             *)
(* service-management.service.ts and deployment-monitor.service.ts.        *)
(*                                                                         *)
(* A load has many calls to AWS in flight, its `jobs`; each answer lets    *)
(* further ones begin, each may fail.  What belongs together is a part:    *)
(* the services, or the scheduled tasks, of one cluster.  A part is `ok`   *)
(* when its last job is answered and `bad` at the first failure; the       *)
(* calls of a bad part that are still in flight have no effect and are     *)
(* left out.  The kinds of loads:                                          *)
(*   legacy        everything in one message, through a cache              *)
(*   progressive   clusters, instances, services, tasks, one after the     *)
(*                 other, with a message for each part                     *)
(*   inventory, services, tasks    one message, on demand                  *)
(* AWS may list and describe other clusters and services at each call.     *)
(*                                                                         *)
(* Time passes in ticks.  Bound: a load takes at most Slow ticks (only     *)
(* legacy loads, whose answers are kept, are timed).                       *)
(***************************************************************************)
EXTENDS Naturals, FiniteSets

CONSTANTS
    Clusters,
    Services,      \* numbers, in the order in which AWS lists them
    ClusterOf,     \* [Services -> Clusters]
    BatchSize,     \* services described by one call
    Loads,         \* loads that are in progress, or the last ones
    NoLoad,
    NoData,        \* the cache is empty
    TTL, Slow,     \* ticks
    LoadPlans      \* the loads of a behaviour, and of which kinds they are

Kinds == {"legacy", "progressive", "inventory", "services", "tasks"}
LoadPlan == [kinds : SUBSET Kinds, loads : SUBSET Loads, services : SUBSET Services]

ASSUME LoaderAssumption ==
    /\ Services \subseteq Nat /\ ClusterOf \in [Services -> Clusters]
    /\ BatchSize \in Nat \ {0} /\ TTL \in Nat \ {0} /\ Slow \in Nat
    /\ LoadPlans \subseteq LoadPlan

VARIABLES
    cache,         \* SocketDetailsService.cache
    load,
    plan           \* the loads of this behaviour

loaderVars == <<cache, load, plan>>

Parts == {"services", "tasks"} \X Clusters

\* Calls in flight: for the load, for a cluster, for a set of services.
Jobs == {<<call, {}>> : call \in {"instances", "clusters"}}
        \cup {<<call, {c}>> : call \in {"listServices", "listTasks"}, c \in Clusters}
        \cup {<<call, ss>> : call \in {"describe", "definitions", "stopped", "stuck"},
                             ss \in (SUBSET Services) \ {{}}}

\* `listed`, `gone` and `found` services: what AWS listed, what of it was there no
\* more when it was described, and what the answer will hold.
Load == [kind : Kinds, step : {"first", "instances", "services", "tasks", "done"},
         jobs : SUBSET Jobs, clusters : SUBSET Clusters,
         listed : SUBSET Services, gone : SUBSET Services, found : SUBSET Services,
         ok : SUBSET Parts, bad : SUBSET Parts,
         told : SUBSET {"basic", "instances", "data", "complete", "error"},
         age : 0..(Slow + TTL)]

ASSUME NoLoadAssumption == NoLoad \notin Load

Cached == [age : 0..(Slow + TTL), left : 1..TTL]

Running(l) == load[l] # NoLoad /\ load[l].step # "done"

NewLoad(kind, jobs, clusters) ==
    [kind |-> kind, step |-> "first", jobs |-> jobs, clusters |-> clusters,
     listed |-> {}, gone |-> {}, found |-> {}, ok |-> {}, bad |-> {}, told |-> {},
     age |-> 0]

PartOf(job) ==
    CASE job[1] = "listServices" -> {<<"services", c>> : c \in job[2]}
      [] job[1] = "listTasks" -> {<<"tasks", c>> : c \in job[2]}
      [] job[1] \in {"instances", "clusters"} -> {}
      [] OTHER -> {<<"services", ClusterOf[s]>> : s \in job[2]}

\* The parts a load is working on.
Expected(x) ==
    {p \in Parts : /\ p[2] \in x.clusters
                   /\ \/ x.kind = "legacy"
                      \/ x.kind = p[1]
                      \/ x.kind = "progressive" /\ x.step = p[1]}

Pending(x) == UNION {PartOf(job) : job \in x.jobs}

\* The definitions named Mutant... are faults of the code that the properties
\* below must detect; no specification uses them.

MutantBatches(ss) == {{s \in ss : Cardinality({t \in ss : t < s}) < BatchSize}} \ {{}}

\* getClusterServices: the batches described at the same time.
Batches(ss) ==
    LET Index(s) == Cardinality({t \in ss : t < s}) \div BatchSize
    IN  {{t \in ss : Index(t) = Index(s)} : s \in ss}

----------------------------------------------------------------------------
\* What follows an answer.

\* The load is over, and its socket is told so.
Ended(x, message) ==
    [x EXCEPT !.step = "done", !.jobs = {}, !.told = @ \cup {message}]

\* An answer leaves the load as x.  Parts that have no more jobs are sent.  A
\* progressive load goes on by NextStep; the others end with their last job.
Answered(l, x) ==
    LET y == [x EXCEPT !.ok = @ \cup (Expected(x) \ (Pending(x) \cup x.bad))]
        over == y.jobs = {} /\ y.kind # "progressive"
    IN  /\ load' = [load EXCEPT ![l] = IF over THEN Ended(y, "data") ELSE y]
        /\ cache' = IF over /\ y.kind = "legacy" THEN [age |-> y.age, left |-> TTL]
                    ELSE cache
        /\ UNCHANGED plan

\* The frame without the job that was answered, and with those that follow it.
Follow(x, job, next) == (x.jobs \ {job}) \cup next

----------------------------------------------------------------------------
\* Loads.

\* A legacy load sends what is in the cache, if anything is.
MutantCacheHit(l) ==
    /\ cache # NoData
    /\ load' = [load EXCEPT ![l] =
                   [Ended(NewLoad("legacy", {}, {}), "data") EXCEPT !.age = cache.age]]
    /\ cache' = [cache EXCEPT !.left = TTL]

CacheHit(l) ==
    /\ cache # NoData
    /\ load' = [load EXCEPT ![l] =
                   [Ended(NewLoad("legacy", {}, {}), "data") EXCEPT !.age = cache.age]]
    /\ UNCHANGED cache

Starts(l, kind, jobs, clusters) ==
    /\ l \in plan.loads /\ ~Running(l) /\ kind \in plan.kinds
    /\ load' = [load EXCEPT ![l] = NewLoad(kind, jobs, clusters)]
    /\ UNCHANGED <<cache, plan>>

\* generateClusterDetails
StartLegacy(l) ==
    \/ /\ l \in plan.loads /\ ~Running(l) /\ "legacy" \in plan.kinds
       /\ CacheHit(l) /\ UNCHANGED plan
    \/ cache = NoData /\ Starts(l, "legacy", {<<"instances", {}>>}, {})

\* generateClusterDetailsProgressive
StartProgressive(l) == Starts(l, "progressive", {<<"clusters", {}>>}, {})

\* The events that a client sends for one message.
GetEC2InventoryOnly(l) == Starts(l, "inventory", {<<"instances", {}>>}, {})
RefreshClusterServices(l, c) == Starts(l, "services", {<<"listServices", {c}>>}, {c})
RefreshClusterScheduledTasks(l, c) == Starts(l, "tasks", {<<"listTasks", {c}>>}, {c})

StartLoad(l) ==
    \/ StartLegacy(l) \/ StartProgressive(l) \/ GetEC2InventoryOnly(l)
    \/ \E c \in Clusters : RefreshClusterServices(l, c) \/ RefreshClusterScheduledTasks(l, c)

\* loadClusterServicesProgressive, loadScheduledTasksProgressive: the promises of
\* all clusters begin at once; the batches of three only wait for them.
LoadClusterServices(x) ==
    [x EXCEPT !.step = "services", !.jobs = {<<"listServices", {c}>> : c \in x.clusters}]
LoadScheduledTasks(x) ==
    [x EXCEPT !.step = "tasks", !.jobs = {<<"listTasks", {c}>> : c \in x.clusters}]

\* getInstances
InstancesAnswer(l) ==
    LET x == load[l]
        job == <<"instances", {}>>
    IN
    /\ Running(l) /\ job \in x.jobs
    /\ CASE x.kind = "legacy" ->
              Answered(l, [x EXCEPT !.jobs = {<<"clusters", {}>>}])
         [] x.kind = "inventory" -> Answered(l, [x EXCEPT !.jobs = {}])
         [] OTHER ->
              Answered(l, LoadClusterServices([x EXCEPT !.told = @ \cup {"instances"}]))

\* getBasicClusterDetails, and the clusters that getClusterDetails starts with.
LoadClusters(x, cs) ==
    IF x.kind = "legacy"
    THEN [x EXCEPT !.clusters = cs,
            !.jobs = {<<call, {c}>> : call \in {"listServices", "listTasks"}, c \in cs}]
    ELSE [x EXCEPT !.clusters = cs, !.told = @ \cup {"basic"},
            !.step = "instances", !.jobs = {<<"instances", {}>>}]

ClustersAnswer(l) ==
    /\ Running(l) /\ <<"clusters", {}>> \in load[l].jobs
    /\ \E cs \in SUBSET Clusters : Answered(l, LoadClusters(load[l], cs))

MutantNextStep(l) ==
    LET x == load[l] IN
    /\ Running(l) /\ x.kind = "progressive" /\ x.jobs = {} /\ x.bad = {}
    /\ load' = [load EXCEPT ![l] =
           IF x.step = "services" THEN LoadScheduledTasks(x) ELSE Ended(x, "complete")]
    /\ UNCHANGED <<cache, plan>>

MutantFirstBatchOnly(l) ==
    LET x == load[l] IN
    /\ Running(l) /\ x.kind = "progressive" /\ x.step \in {"services", "tasks"}
    /\ Expected(x) \cap (x.ok \cup x.bad) # {} \/ x.clusters = {}
    /\ load' = [load EXCEPT ![l] =
           IF x.step = "services" THEN LoadScheduledTasks(x) ELSE Ended(x, "complete")]
    /\ UNCHANGED <<cache, plan>>

\* generateClusterDetailsProgressive goes on when the parts of all clusters are
\* answered or have failed.
NextStep(l) ==
    LET x == load[l] IN
    /\ Running(l) /\ x.kind = "progressive" /\ x.jobs = {}
    /\ load' = [load EXCEPT ![l] =
           IF x.step = "services" THEN LoadScheduledTasks(x) ELSE Ended(x, "complete")]
    /\ UNCHANGED <<cache, plan>>

----------------------------------------------------------------------------
\* Parts.

\* getECSScheduledTasks, of which only the end matters.
TasksAnswer(l, c) ==
    LET x == load[l]
        job == <<"listTasks", {c}>>
    IN
    /\ Running(l) /\ job \in x.jobs
    /\ Answered(l, [x EXCEPT !.jobs = Follow(x, job, {})])

\* getClusterServices: the names, then all batches at once.
ServicesListed(l, c) ==
    LET x == load[l]
        job == <<"listServices", {c}>>
    IN
    /\ Running(l) /\ job \in x.jobs
    /\ \E ss \in SUBSET {s \in plan.services : ClusterOf[s] = c} :
         Answered(l, [x EXCEPT !.listed = @ \cup ss,
                        !.jobs = Follow(x, job, {<<"describe", b>> : b \in Batches(ss)})])

\* processBatch: services that are gone are left out.
BatchDescribed(l) ==
    LET x == load[l] IN
    /\ Running(l)
    /\ \E job \in x.jobs :
         /\ job[1] = "describe"
         /\ \E ss \in SUBSET job[2] :
              Answered(l, [x EXCEPT !.gone = @ \cup (job[2] \ ss),
                  !.jobs = Follow(x, job, IF ss = {} THEN {} ELSE {<<"definitions", ss>>})])

\* getMultipleTaskDefinitions, then processService for each service, which asks for
\* the stopped tasks and, where there are two deployments, whether the new one is
\* stuck.
DefinitionsAnswer(l) ==
    LET x == load[l] IN
    /\ Running(l)
    /\ \E job \in x.jobs :
         /\ job[1] = "definitions"
         /\ \E deploying \in SUBSET job[2] :
              Answered(l, [x EXCEPT !.jobs = Follow(x, job,
                  {<<"stopped", {s}>> : s \in job[2]} \cup {<<"stuck", {s}>> : s \in deploying})])

\* processService: a service is in the answer when both have been found out.
ServiceFound(l, job) ==
    LET x == load[l]
        left == Follow(x, job, {})
    IN  Answered(l, [x EXCEPT !.jobs = left,
            !.found = @ \cup {s \in job[2] : \A call \in {"stopped", "stuck"} :
                                                <<call, {s}>> \notin left}])

\* getFailedTasks, also when it fails.
FailedTasksAnswer(l) ==
    /\ Running(l)
    /\ \E job \in load[l].jobs : job[1] = "stopped" /\ ServiceFound(l, job)

\* isDeploymentStuck
DeploymentStuckAnswer(l) ==
    /\ Running(l)
    /\ \E job \in load[l].jobs : job[1] = "stuck" /\ ServiceFound(l, job)

\* An error ends the whole load, or with the progressive loader and a refresh of one
\* cluster the part it belongs to; the socket is told in any case.
LoadCallFails(l) ==
    LET x == load[l] IN
    /\ Running(l)
    /\ \E job \in x.jobs :
         LET rest == [x EXCEPT !.jobs = {j \in @ : PartOf(j) # PartOf(job)},
                               !.bad = @ \cup PartOf(job)]
         IN
         /\ job[1] # "stopped"
         /\ load' = [load EXCEPT ![l] =
                        IF x.kind = "progressive" /\ PartOf(job) # {} THEN rest
                        ELSE IF x.kind \in {"services", "tasks"} THEN Ended(rest, "error")
                        ELSE Ended(x, "error")]
    /\ UNCHANGED <<cache, plan>>

MutantTick ==
    /\ \A l \in Loads : Running(l) /\ load[l].kind = "legacy" => load[l].age < Slow
    /\ load' = [l \in Loads |-> IF Running(l) /\ load[l].kind = "legacy"
                                  THEN [load[l] EXCEPT !.age = @ + 1] ELSE load[l]]
    /\ cache' = IF cache = NoData \/ cache.left = 0 THEN NoData
                ELSE [age |-> cache.age + 1, left |-> cache.left - 1]
    /\ UNCHANGED plan

\* Time passes; the entry of the cache expires.
Tick ==
    /\ \A l \in Loads : Running(l) /\ load[l].kind = "legacy" => load[l].age < Slow
    /\ load' = [l \in Loads |-> IF Running(l) /\ load[l].kind = "legacy"
                                  THEN [load[l] EXCEPT !.age = @ + 1] ELSE load[l]]
    /\ cache' = IF cache = NoData \/ cache.left = 1 THEN NoData
                ELSE [age |-> cache.age + 1, left |-> cache.left - 1]
    /\ UNCHANGED plan

----------------------------------------------------------------------------

LoaderInit ==
    /\ plan \in LoadPlans
    /\ load = [l \in Loads |-> NoLoad]
    /\ cache = NoData

Progress(l) ==
    \/ InstancesAnswer(l) \/ ClustersAnswer(l) \/ NextStep(l)
    \/ \E c \in Clusters : TasksAnswer(l, c) \/ ServicesListed(l, c)
    \/ BatchDescribed(l) \/ DefinitionsAnswer(l)
    \/ FailedTasksAnswer(l) \/ DeploymentStuckAnswer(l)
    \/ LoadCallFails(l)

LoaderNext ==
    \/ \E l \in Loads : StartLoad(l) \/ Progress(l)
    \/ Tick

\* Every call to AWS is answered or fails.
LoaderFairness == \A l \in Loads : WF_loaderVars(Progress(l))

LoaderSpec == LoaderInit /\ [][LoaderNext]_loaderVars /\ LoaderFairness

----------------------------------------------------------------------------
\* Properties.

LoaderTypeOK ==
    /\ cache \in Cached \cup {NoData}
    /\ load \in [Loads -> Load \cup {NoLoad}]
    /\ plan \in LoadPlans

\* "All data loaded" is sent after every cluster's services and tasks have been sent
\* or reported as failing, whatever the order of the answers; no part is both
\* (generateClusterDetailsProgressive, loadClusterServicesProgressive,
\* loadScheduledTasksProgressive).
CompletionIsLast ==
    \A l \in Loads : load[l] # NoLoad =>
        /\ load[l].ok \cap load[l].bad = {}
        /\ "complete" \in load[l].told =>
             {"services", "tasks"} \X load[l].clusters = load[l].ok \cup load[l].bad

\* A cluster's answer holds every service that was listed and did not disappear
\* meanwhile, through batches, definitions and checks that fail or come late
\* (getClusterServices, processBatch, processService, getFailedTasks).
NoServiceLost ==
    \A l \in Loads : load[l] # NoLoad =>
        \A s \in load[l].listed :
            <<"services", ClusterOf[s]>> \in load[l].ok => s \in load[l].gone \cup load[l].found

\* Data sent by a legacy load were asked of AWS at most Slow + TTL ticks before, even
\* when overlapping loads put older data over newer ones (generateClusterDetails).
RecentAnswers ==
    /\ \A l \in Loads : load[l] # NoLoad /\ "data" \in load[l].told =>
                           load[l].age <= Slow + TTL
    /\ cache # NoData => cache.age + cache.left <= Slow + TTL

\* Every load ends, and its socket gets the data or an error.
LoadsEnd ==
    \A l \in Loads :
        Running(l) ~> /\ load[l] # NoLoad
                      /\ load[l].told \cap {"data", "complete", "error"} # {}
=============================================================================
