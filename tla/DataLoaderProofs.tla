-------------------------- MODULE DataLoaderProofs --------------------------
(***************************************************************************)
(* Theorems about DataLoader, for any clusters, services, loads and        *)
(* batches.                                                                *)
(***************************************************************************)
EXTENDS DataLoader, TLAPS

----------------------------------------------------------------------------
\* Types and ages.

\* A legacy load that will fill the cache is young enough.
Young(x) == x.kind = "legacy" /\ x.step # "done" => x.age <= Slow

TypeInv ==
    /\ LoaderTypeOK
    /\ RecentAnswers
    /\ \A l \in Loads : load[l] # NoLoad => Young(load[l])

\* The load that an answer leaves behind.
Sent(x) == [x EXCEPT !.ok = @ \cup (Expected(x) \ (Pending(x) \cup x.bad))]

LEMMA SentType ==
    ASSUME NEW x \in Load
    PROVE  Sent(x) \in Load /\ Sent(x).kind = x.kind /\ Sent(x).age = x.age
           /\ Sent(x).step = x.step /\ Sent(x).jobs = x.jobs
  <1>1. Expected(x) \subseteq Parts
    BY DEF Expected
  <1>2. x.ok \cup (Expected(x) \ (Pending(x) \cup x.bad)) \in SUBSET Parts
    BY <1>1 DEF Load
  <1> QED BY <1>2 DEF Sent, Load

LEMMA EndedType ==
    ASSUME NEW x \in Load, NEW message \in {"data", "complete", "error"}
    PROVE  Ended(x, message) \in Load /\ Ended(x, message).step = "done"
           /\ Ended(x, message).age = x.age
  <1>1. {} \in SUBSET Jobs
    OBVIOUS
  <1> HIDE DEF Jobs
  <1>2. x.told \cup {message} \in SUBSET {"basic", "instances", "data", "complete", "error"}
    BY DEF Load
  <1> QED BY <1>1, <1>2 DEF Ended, Load

LEMMA NewLoadType ==
    ASSUME NEW kind \in Kinds, NEW jobs \in SUBSET Jobs, NEW clusters \in SUBSET Clusters
    PROVE  NewLoad(kind, jobs, clusters) \in Load /\ NewLoad(kind, jobs, clusters).age = 0
  BY LoaderAssumption DEF NewLoad, Load

\* One load becomes y and the cache stays.
LEMMA BecomesType ==
    ASSUME TypeInv, NEW l \in Loads, NEW y \in Load, Young(y),
           y.age <= Slow + TTL, load' = [load EXCEPT ![l] = y],
           UNCHANGED <<cache, plan>>
    PROVE  TypeInv'
  <1>1. load' \in [Loads -> Load \cup {NoLoad}] /\ \A k \in Loads : load'[k] = IF k = l THEN y ELSE load[k]
    BY DEF TypeInv, LoaderTypeOK
  <1>2. LoaderTypeOK'
    BY <1>1 DEF TypeInv, LoaderTypeOK
  <1>3. RecentAnswers'
    BY <1>1 DEF TypeInv, RecentAnswers
  <1> QED BY <1>1, <1>2, <1>3 DEF TypeInv, Young

LEMMA AnsweredTypeInv ==
    ASSUME TypeInv, NEW l \in Loads, NEW x \in Load, x.step # "done", Young(x), Answered(l, x)
    PROVE  TypeInv'
  <1> DEFINE y == Sent(x)
             over == y.jobs = {} /\ y.kind # "progressive"
             z == IF over THEN Ended(y, "data") ELSE y
  <1>1. /\ load' = [load EXCEPT ![l] = z]
        /\ cache' = IF over /\ y.kind = "legacy" THEN [age |-> y.age, left |-> TTL] ELSE cache
        /\ plan' = plan
    BY DEF Answered, Sent
  <1>2. y \in Load /\ y.kind = x.kind /\ y.age = x.age /\ y.step # "done"
    BY SentType
  <1>3. z \in Load /\ z.age = x.age /\ Young(z) /\ z.age <= Slow + TTL /\ z.age \in Nat
    BY <1>2, EndedType, LoaderAssumption DEF Young, Load
  <1> HIDE DEF z, over
  <1>4. load' \in [Loads -> Load \cup {NoLoad}] /\ \A k \in Loads : load'[k] = IF k = l THEN z ELSE load[k]
    BY <1>1, <1>3 DEF TypeInv, LoaderTypeOK
  <1>5. CASE over /\ y.kind = "legacy"
    <2>1. cache' = [age |-> y.age, left |-> TTL] /\ y.age \in 0..(Slow + TTL) /\ y.age <= Slow
      BY <1>1, <1>2, <1>5, LoaderAssumption DEF Young, Load
    <2>2. cache' \in Cached /\ cache'.age + cache'.left <= Slow + TTL
      BY <2>1, LoaderAssumption DEF Cached
    <2>3. LoaderTypeOK'
      BY <1>1, <1>4, <2>2 DEF TypeInv, LoaderTypeOK
    <2>4. RecentAnswers'
      BY <1>3, <1>4, <2>2 DEF TypeInv, RecentAnswers
    <2> QED BY <1>3, <1>4, <2>3, <2>4 DEF TypeInv
  <1>6. CASE ~(over /\ y.kind = "legacy")
    BY <1>1, <1>3, <1>6, BecomesType
  <1> QED BY <1>5, <1>6

\* What a job is about.
LEMMA JobForms ==
    ASSUME NEW job \in Jobs
    PROVE  /\ job[1] \in {"describe", "definitions", "stopped", "stuck"} => job[2] \in SUBSET Services
           /\ PartOf(job) \subseteq Parts
  <1>1. CASE job \in {<<call, {}>> : call \in {"instances", "clusters"}}
    BY <1>1 DEF PartOf
  <1>2. CASE job \in {<<call, {c}>> : call \in {"listServices", "listTasks"}, c \in Clusters}
    BY <1>2 DEF PartOf, Parts
  <1>3. CASE job \in {<<call, ss>> : call \in {"describe", "definitions", "stopped", "stuck"},
                                  ss \in (SUBSET Services) \ {{}}}
    BY <1>3, LoaderAssumption DEF PartOf, Parts
  <1> QED BY <1>1, <1>2, <1>3 DEF Jobs

LEMMA FollowType ==
    ASSUME NEW x \in Load, NEW job, NEW next \in SUBSET Jobs
    PROVE  Follow(x, job, next) \in SUBSET Jobs
  BY DEF Follow, Load

LEMMA BatchesType ==
    ASSUME NEW ss \in SUBSET Services, NEW b \in Batches(ss)
    PROVE  b \in (SUBSET ss) \ {{}}
  BY DEF Batches

LEMMA StartsType ==
    ASSUME TypeInv, NEW l \in Loads, NEW kind \in Kinds, NEW jobs \in SUBSET Jobs,
           NEW clusters \in SUBSET Clusters, Starts(l, kind, jobs, clusters)
    PROVE  TypeInv'
  <1> DEFINE y == NewLoad(kind, jobs, clusters)
  <1>1. y \in Load /\ y.age = 0
    BY NewLoadType
  <1>2. load' = [load EXCEPT ![l] = y] /\ UNCHANGED <<cache, plan>>
    BY DEF Starts
  <1> HIDE DEF y
  <1>3. Young(y) /\ y.age <= Slow + TTL
    BY <1>1, LoaderAssumption DEF Young
  <1> QED BY <1>1, <1>2, <1>3, BecomesType

LEMMA CacheHitType ==
    ASSUME TypeInv, NEW l \in Loads, CacheHit(l), UNCHANGED plan
    PROVE  TypeInv'
  <1> DEFINE x == Ended(NewLoad("legacy", {}, {}), "data")
             y == [x EXCEPT !.age = cache.age]
  <1>1. /\ cache.age \in 0..(Slow + TTL)
        /\ load' = [load EXCEPT ![l] = y] /\ UNCHANGED <<cache, plan>>
    BY DEF CacheHit, TypeInv, LoaderTypeOK, Cached
  <1>2. {} \in SUBSET Jobs /\ {} \in SUBSET Clusters /\ "legacy" \in Kinds
    BY DEF Kinds
  <1>3. x \in Load /\ x.step = "done"
    BY <1>2, NewLoadType, EndedType
  <1> HIDE DEF x
  <1>4. y \in Load /\ y.age = cache.age /\ y.step = "done"
    BY <1>1, <1>3 DEF Load
  <1> HIDE DEF y
  <1>5. Young(y) /\ y.age <= Slow + TTL
    BY <1>1, <1>4, LoaderAssumption DEF Young
  <1> QED BY <1>1, <1>4, <1>5, BecomesType

\* The first jobs of the loads.
LEMMA FirstJobs ==
    /\ {<<"instances", {}>>} \in SUBSET Jobs /\ {<<"clusters", {}>>} \in SUBSET Jobs
    /\ \A c \in Clusters : /\ {<<"listServices", {c}>>} \in SUBSET Jobs
                           /\ {<<"listTasks", {c}>>} \in SUBSET Jobs
                           /\ {c} \in SUBSET Clusters
    /\ {} \in SUBSET Jobs /\ {} \in SUBSET Clusters
  BY DEF Jobs

LEMMA StartLoadType ==
    ASSUME TypeInv, NEW l \in Loads, StartLoad(l)
    PROVE  TypeInv'
  <1>k. Kinds = {"legacy", "progressive", "inventory", "services", "tasks"}
    BY DEF Kinds
  <1>1. CASE CacheHit(l) /\ UNCHANGED plan
    BY <1>1, CacheHitType
  <1>2. CASE Starts(l, "legacy", {<<"instances", {}>>}, {})
    BY <1>2, <1>k, FirstJobs, StartsType
  <1>3. CASE StartProgressive(l)
    BY <1>3, <1>k, FirstJobs, StartsType DEF StartProgressive
  <1>4. CASE GetEC2InventoryOnly(l)
    BY <1>4, <1>k, FirstJobs, StartsType DEF GetEC2InventoryOnly
  <1>5. ASSUME NEW c \in Clusters, RefreshClusterServices(l, c) PROVE TypeInv'
    BY <1>5, <1>k, FirstJobs, StartsType DEF RefreshClusterServices
  <1>6. ASSUME NEW c \in Clusters, RefreshClusterScheduledTasks(l, c) PROVE TypeInv'
    BY <1>6, <1>k, FirstJobs, StartsType DEF RefreshClusterScheduledTasks
  <1> QED BY <1>1, <1>2, <1>3, <1>4, <1>5, <1>6 DEF StartLoad, StartLegacy

LEMMA BatchesCover ==
    ASSUME NEW ss \in SUBSET Services, NEW s \in ss
    PROVE  \E b \in Batches(ss) : s \in b
  <1> DEFINE Index(t) == Cardinality({u \in ss : u < t}) \div BatchSize
             b == {t \in ss : Index(t) = Index(s)}
  <1>1. b \in Batches(ss)
    BY Zenon DEF Batches
  <1>2. s \in b
    BY Zenon
  <1> HIDE DEF b
  <1> QED BY <1>1, <1>2

\* The jobs that may follow an answer.
LEMMA JobMembers ==
    /\ \A call \in {"listServices", "listTasks"}, c \in Clusters : <<call, {c}>> \in Jobs
    /\ \A call \in {"describe", "definitions", "stopped", "stuck"} :
         \A ss \in (SUBSET Services) \ {{}} : <<call, ss>> \in Jobs
  BY DEF Jobs

\* The loads that answers leave behind are loads that are under way.
LEMMA ProgressType ==
    ASSUME TypeInv, NEW l \in Loads, Progress(l)
    PROVE  TypeInv'
  <1> DEFINE x == load[l]
  <1>t. Running(l) => x \in Load /\ x.step # "done" /\ Young(x)
    BY DEF TypeInv, LoaderTypeOK, Running
  <1>p. plan.services \in SUBSET Services
    BY LoaderAssumption DEF TypeInv, LoaderTypeOK, LoadPlan
  <1>1. CASE InstancesAnswer(l)
    <2>1. Running(l)
      BY <1>1 DEF InstancesAnswer
    <2>2. CASE x.kind = "legacy" /\ Answered(l, [x EXCEPT !.jobs = {<<"clusters", {}>>}])
      BY <1>t, <2>1, <2>2, FirstJobs, AnsweredTypeInv DEF Load, Young
    <2>3. CASE Answered(l, [x EXCEPT !.jobs = {}])
      <3> DEFINE y == [x EXCEPT !.jobs = {}]
      <3>1. y \in Load /\ y.step # "done" /\ Young(y)
        BY <1>t, <2>1, FirstJobs DEF Load, Young
      <3> QED BY <2>3, <3>1, AnsweredTypeInv
    <2>4. CASE Answered(l, LoadClusterServices([x EXCEPT !.told = @ \cup {"instances"}]))
      <3> DEFINE y == LoadClusterServices([x EXCEPT !.told = @ \cup {"instances"}])
                 jobs == {<<"listServices", {c}>> : c \in x.clusters}
      <3>1. x.clusters \in SUBSET Clusters
        BY <1>t, <2>1 DEF Load
      <3>3. jobs \in SUBSET Jobs
        BY <3>1, JobMembers
      <3>4. y = [x EXCEPT !.told = @ \cup {"instances"}, !.step = "services", !.jobs = jobs]
        BY <1>t, <2>1 DEF LoadClusterServices, Load
      <3> HIDE DEF jobs, y
      <3>2. y \in Load /\ y.step # "done" /\ Young(y)
        BY <1>t, <2>1, <3>3, <3>4 DEF Load, Young
      <3> QED BY <2>4, <3>2, AnsweredTypeInv DEF y
    <2> QED BY <1>1, <2>2, <2>3, <2>4 DEF InstancesAnswer
  <1>2. CASE ClustersAnswer(l)
    <2>1. Running(l)
      BY <1>2 DEF ClustersAnswer
    <2>2. PICK cs \in SUBSET Clusters : Answered(l, LoadClusters(x, cs))
      BY <1>2 DEF ClustersAnswer
    <2> DEFINE both == {<<call, {c}>> : call \in {"listServices", "listTasks"}, c \in cs}
               y == LoadClusters(x, cs)
    <2>3. both \in SUBSET Jobs
      BY JobMembers
    <2>4. CASE x.kind = "legacy"
      <3>1. y = [x EXCEPT !.clusters = cs, !.jobs = both]
        BY <2>4 DEF LoadClusters
      <3> HIDE DEF y, both
      <3>2. y \in Load /\ y.step # "done" /\ Young(y)
        BY <1>t, <2>1, <2>3, <3>1 DEF Load, Young
      <3> QED BY <2>2, <3>2, AnsweredTypeInv DEF y
    <2>5. CASE x.kind # "legacy"
      <3>1. y = [x EXCEPT !.clusters = cs, !.told = @ \cup {"basic"},
                          !.step = "instances", !.jobs = {<<"instances", {}>>}]
        BY <2>5 DEF LoadClusters
      <3> HIDE DEF y, both
      <3>2. y \in Load /\ y.step # "done" /\ Young(y)
        BY <1>t, <2>1, <3>1, FirstJobs DEF Load, Young
      <3> QED BY <2>2, <3>2, AnsweredTypeInv DEF y
    <2> QED BY <2>4, <2>5
  <1>3. CASE NextStep(l)
    <2> DEFINE y == IF x.step = "services" THEN LoadScheduledTasks(x) ELSE Ended(x, "complete")
    <2>1. Running(l) /\ x.kind = "progressive" /\ load' = [load EXCEPT ![l] = y] /\ UNCHANGED <<cache, plan>>
      BY <1>3 DEF NextStep
    <2>2. x.clusters \in SUBSET Clusters
      BY <1>t, <2>1 DEF Load
    <2>3. LoadScheduledTasks(x) \in Load /\ LoadScheduledTasks(x).kind = "progressive"
      <3> DEFINE jobs == {<<"listTasks", {c}>> : c \in x.clusters}
      <3>1. jobs \in SUBSET Jobs
        BY <2>2, JobMembers
      <3>2. LoadScheduledTasks(x) = [x EXCEPT !.step = "tasks", !.jobs = jobs]
        BY DEF LoadScheduledTasks
      <3> HIDE DEF jobs
      <3> QED BY <1>t, <2>1, <3>1, <3>2 DEF Load
    <2>4. Ended(x, "complete") \in Load /\ Ended(x, "complete").kind = "progressive"
      BY <1>t, <2>1, EndedType DEF Ended, Load
    <2>5. y \in Load /\ y.kind = "progressive" /\ Young(y)
      BY <2>3, <2>4 DEF Young
    <2>6. y.age <= Slow + TTL
      BY <2>5, LoaderAssumption DEF Load
    <2> HIDE DEF y
    <2> QED BY <2>1, <2>5, <2>6, BecomesType
  <1>4. ASSUME NEW c \in Clusters, TasksAnswer(l, c) PROVE TypeInv'
    <2> DEFINE y == [x EXCEPT !.jobs = Follow(x, <<"listTasks", {c}>>, {})]
    <2>1. Running(l) /\ Answered(l, y)
      BY <1>4 DEF TasksAnswer
    <2>2. Follow(x, <<"listTasks", {c}>>, {}) \in SUBSET Jobs
      BY <1>t, <2>1, FirstJobs, FollowType
    <2>3. y \in Load /\ y.step # "done" /\ Young(y)
      BY <1>t, <2>1, <2>2 DEF Load, Young
    <2> QED BY <2>1, <2>3, AnsweredTypeInv
  <1>5. ASSUME NEW c \in Clusters, ServicesListed(l, c) PROVE TypeInv'
    <2>1. Running(l)
      BY <1>5 DEF ServicesListed
    <2>2. PICK ss \in SUBSET {s \in plan.services : ClusterOf[s] = c} :
            Answered(l, [x EXCEPT !.listed = @ \cup ss,
              !.jobs = Follow(x, <<"listServices", {c}>>, {<<"describe", b>> : b \in Batches(ss)})])
      BY <1>5 DEF ServicesListed
    <2> DEFINE next == {<<"describe", b>> : b \in Batches(ss)}
               y == [x EXCEPT !.listed = @ \cup ss, !.jobs = Follow(x, <<"listServices", {c}>>, next)]
    <2>3. ss \in SUBSET Services
      BY <1>p
    <2>4. next \in SUBSET Jobs
      BY <2>3, JobMembers, BatchesType
    <2> HIDE DEF next
    <2>5. Follow(x, <<"listServices", {c}>>, next) \in SUBSET Jobs
      BY <1>t, <2>1, <2>4, FollowType
    <2>6. y \in Load /\ y.step # "done" /\ Young(y)
      BY <1>t, <2>1, <2>3, <2>5 DEF Load, Young
    <2> QED BY <2>2, <2>6, AnsweredTypeInv DEF next
  <1>6. CASE BatchDescribed(l)
    <2>1. Running(l)
      BY <1>6 DEF BatchDescribed
    <2>2. PICK job, ss :
            /\ job \in x.jobs /\ job[1] = "describe" /\ ss \in SUBSET job[2]
            /\ Answered(l, [x EXCEPT !.gone = @ \cup (job[2] \ ss),
                 !.jobs = Follow(x, job, IF ss = {} THEN {} ELSE {<<"definitions", ss>>})])
      BY <1>6 DEF BatchDescribed
    <2> DEFINE next == IF ss = {} THEN {} ELSE {<<"definitions", ss>>}
               y == [x EXCEPT !.gone = @ \cup (job[2] \ ss), !.jobs = Follow(x, job, next)]
    <2>3. job \in Jobs /\ job[2] \in SUBSET Services /\ ss \in SUBSET Services
      BY <1>t, <2>1, <2>2, JobForms DEF Load
    <2>4. next \in SUBSET Jobs
      BY <2>3, JobMembers
    <2> HIDE DEF next
    <2>5. Follow(x, job, next) \in SUBSET Jobs
      BY <1>t, <2>1, <2>4, FollowType
    <2>6. y \in Load /\ y.step # "done" /\ Young(y)
      BY <1>t, <2>1, <2>3, <2>5 DEF Load, Young
    <2> QED BY <2>2, <2>6, AnsweredTypeInv DEF next
  <1>7. CASE DefinitionsAnswer(l)
    <2>1. Running(l)
      BY <1>7 DEF DefinitionsAnswer
    <2>2. PICK job, ds :
            /\ job \in x.jobs /\ job[1] = "definitions" /\ ds \in SUBSET job[2]
            /\ Answered(l, [x EXCEPT !.jobs = Follow(x, job,
                 {<<"stopped", {s}>> : s \in job[2]} \cup {<<"stuck", {s}>> : s \in ds})])
      BY <1>7 DEF DefinitionsAnswer
    <2> DEFINE next == {<<"stopped", {s}>> : s \in job[2]} \cup {<<"stuck", {s}>> : s \in ds}
               y == [x EXCEPT !.jobs = Follow(x, job, next)]
    <2>3. job \in Jobs /\ job[2] \in SUBSET Services
      BY <1>t, <2>1, <2>2, JobForms DEF Load
    <2>4. next \in SUBSET Jobs
      <3>1. \A t \in job[2] : {t} \in (SUBSET Services) \ {{}}
        BY <2>3
      <3> QED BY <2>2, <3>1, JobMembers
    <2> HIDE DEF next
    <2>5. Follow(x, job, next) \in SUBSET Jobs
      BY <1>t, <2>1, <2>4, FollowType
    <2>6. y \in Load /\ y.step # "done" /\ Young(y)
      BY <1>t, <2>1, <2>3, <2>5 DEF Load, Young
    <2> QED BY <2>2, <2>6, AnsweredTypeInv DEF next
  <1>8. CASE FailedTasksAnswer(l) \/ DeploymentStuckAnswer(l)
    <2>1. PICK job \in x.jobs : job[1] \in {"stopped", "stuck"} /\ Running(l) /\ ServiceFound(l, job)
      BY <1>8 DEF FailedTasksAnswer, DeploymentStuckAnswer
    <2> DEFINE next == Follow(x, job, {})
               some == {s \in job[2] : \A call \in {"stopped", "stuck"} : <<call, {s}>> \notin next}
               y == [x EXCEPT !.jobs = next, !.found = @ \cup some]
    <2>2. Answered(l, y)
      BY <2>1 DEF ServiceFound
    <2>3. job \in Jobs /\ job[2] \in SUBSET Services
      BY <1>t, <2>1, JobForms DEF Load
    <2>4. next \in SUBSET Jobs
      BY <1>t, <2>1, FirstJobs, FollowType
    <2>5. some \in SUBSET Services
      BY <2>3
    <2> HIDE DEF next, some
    <2>6. y \in Load /\ y.step # "done" /\ Young(y)
      BY <1>t, <2>1, <2>4, <2>5 DEF Load, Young
    <2> QED BY <2>2, <2>6, AnsweredTypeInv
  <1>9. CASE LoadCallFails(l)
    <2>1. PICK job \in x.jobs :
            LET rest == [x EXCEPT !.jobs = {j \in @ : PartOf(j) # PartOf(job)},
                                  !.bad = @ \cup PartOf(job)]
            IN  load' = [load EXCEPT ![l] =
                        IF x.kind = "progressive" /\ PartOf(job) # {} THEN rest
                        ELSE IF x.kind \in {"services", "tasks"} THEN Ended(rest, "error")
                        ELSE Ended(x, "error")]
      BY <1>9 DEF LoadCallFails
    <2>2. Running(l) /\ UNCHANGED <<cache, plan>>
      BY <1>9 DEF LoadCallFails
    <2> DEFINE rest == [x EXCEPT !.jobs = {j \in @ : PartOf(j) # PartOf(job)},
                                  !.bad = @ \cup PartOf(job)]
               y == IF x.kind = "progressive" /\ PartOf(job) # {} THEN rest
                        ELSE IF x.kind \in {"services", "tasks"} THEN Ended(rest, "error")
                        ELSE Ended(x, "error")
    <2>3. PartOf(job) \subseteq Parts
      BY <1>t, <2>1, <2>2, JobForms DEF Load
    <2>4. rest \in Load /\ rest.kind = x.kind /\ rest.age = x.age
      BY <1>t, <2>2, <2>3 DEF Load
    <2> HIDE DEF rest
    <2>5. /\ Ended(rest, "error") \in Load /\ Ended(rest, "error").step = "done"
          /\ Ended(x, "error") \in Load /\ Ended(x, "error").step = "done"
      BY <1>t, <2>2, <2>4, EndedType
    <2>6. y \in Load /\ Young(y)
      BY <2>4, <2>5 DEF Young
    <2>7. y.age <= Slow + TTL
      BY <2>6, LoaderAssumption DEF Load
    <2>8. load' = [load EXCEPT ![l] = y]
      BY <2>1 DEF rest
    <2> HIDE DEF y
    <2> QED BY <2>2, <2>6, <2>7, <2>8, BecomesType
  <1> QED BY <1>1, <1>2, <1>3, <1>4, <1>5, <1>6, <1>7, <1>8, <1>9 DEF Progress

LEMMA TickType == TypeInv /\ Tick => TypeInv'
  <1> SUFFICES ASSUME TypeInv, Tick PROVE TypeInv'
    OBVIOUS
  <1>1. \A l \in Loads : load[l] # NoLoad => load[l] \in Load /\ Young(load[l])
    BY DEF TypeInv, LoaderTypeOK
  <1> DEFINE Older(l) == Running(l) /\ load[l].kind = "legacy"
             next(l) == IF Older(l) THEN [load[l] EXCEPT !.age = @ + 1] ELSE load[l]
  <1>2. load' = [l \in Loads |-> next(l)] /\ plan' = plan
        /\ \A l \in Loads : Older(l) => load[l].age < Slow
    BY DEF Tick
  <1>3. ASSUME NEW l \in Loads
        PROVE  /\ next(l) \in Load \cup {NoLoad}
               /\ next(l) # NoLoad => Young(next(l)) /\ next(l).age <= Slow + TTL
    <2>1. CASE Older(l)
      <3>1. load[l] \in Load /\ load[l].age \in Nat /\ load[l].age + 1 \in 0..(Slow + TTL)
            /\ load[l].age + 1 <= Slow
        BY <1>1, <1>2, <2>1, LoaderAssumption DEF Running, Load
      <3>2. next(l) \in Load /\ next(l).age = load[l].age + 1
        BY <2>1, <3>1 DEF Load
      <3> QED BY <3>1, <3>2, LoaderAssumption DEF Young, Load
    <2>2. CASE ~Older(l)
      BY <1>1, <2>2, LoaderAssumption DEF TypeInv, LoaderTypeOK, Load
    <2> QED BY <2>1, <2>2
  <1>4. /\ cache' \in Cached \cup {NoData}
        /\ cache' # NoData => cache'.age + cache'.left <= Slow + TTL
    <2>1. CASE cache = NoData \/ cache.left = 1
      BY <2>1 DEF Tick
    <2>2. CASE ~(cache = NoData \/ cache.left = 1)
      <3>1. cache' = [age |-> cache.age + 1, left |-> cache.left - 1]
        BY <2>2 DEF Tick
      <3>2. cache.age \in 0..(Slow + TTL) /\ cache.left \in 1..TTL /\ cache.left # 1
            /\ cache.age + cache.left <= Slow + TTL
        BY <2>2 DEF TypeInv, LoaderTypeOK, RecentAnswers, Cached
      <3>3. /\ cache.age + 1 \in 0..(Slow + TTL) /\ cache.left - 1 \in 1..TTL
            /\ (cache.age + 1) + (cache.left - 1) <= Slow + TTL
        BY <3>2, LoaderAssumption
      <3> QED BY <3>1, <3>3 DEF Cached
    <2> QED BY <2>1, <2>2
  <1> HIDE DEF next
  <1>5. \A l \in Loads : load'[l] = next(l)
    BY <1>2
  <1>6. LoaderTypeOK'
    BY <1>2, <1>3, <1>4 DEF LoaderTypeOK, TypeInv
  <1>7. RecentAnswers'
    BY <1>3, <1>4, <1>5 DEF RecentAnswers
  <1> QED BY <1>3, <1>5, <1>6, <1>7 DEF TypeInv

LEMMA TypeStep == TypeInv /\ [LoaderNext]_loaderVars => TypeInv'
  <1>1. TypeInv /\ UNCHANGED loaderVars => TypeInv'
    BY DEF loaderVars, TypeInv, LoaderTypeOK, RecentAnswers, Young
  <1> QED BY <1>1, StartLoadType, ProgressType, TickType DEF LoaderNext

LEMMA TypeStart == LoaderInit => TypeInv
  BY DEF LoaderInit, TypeInv, LoaderTypeOK, RecentAnswers, Young

LEMMA TypeAlways == LoaderSpec => []TypeInv
  BY TypeStart, TypeStep, PTL DEF LoaderSpec

\* In every state of the loader the variables have their types.
THEOREM LoaderTypeCorrect == LoaderSpec => []LoaderTypeOK
  <1>1. TypeInv => LoaderTypeOK
    BY DEF TypeInv
  <1> QED BY <1>1, TypeAlways, PTL

\* However the legacy loads that share the cache overlap, nobody is sent data asked of
\* AWS more than Slow + TTL ticks before (generateClusterDetails).
THEOREM RecentAnswersHold == LoaderSpec => []RecentAnswers
  <1>1. TypeInv => RecentAnswers
    BY DEF TypeInv
  <1> QED BY <1>1, TypeAlways, PTL

----------------------------------------------------------------------------
\* Parts and services.

TheServices(x) == {"services"} \X x.clusters
TheTasks(x) == {"tasks"} \X x.clusters

\* The call that knows about a service.
Holds(job, s) == job[1] \in {"describe", "definitions", "stopped", "stuck"} /\ s \in job[2]

\* Before the first part: one call in flight.
Opening(x) ==
    /\ x.ok = {} /\ x.bad = {} /\ x.listed = {}
    /\ \/ /\ x.kind = "legacy" /\ x.step = "first" /\ x.clusters = {}
          /\ x.jobs \in {{<<"instances", {}>>}, {<<"clusters", {}>>}}
       \/ x.kind = "inventory" /\ x.clusters = {} /\ x.jobs = {<<"instances", {}>>}
       \/ x.kind = "progressive" /\ x.step = "first" /\ x.jobs = {<<"clusters", {}>>}
       \/ x.kind = "progressive" /\ x.step = "instances" /\ x.jobs = {<<"instances", {}>>}

\* The parts of a progressive load belong to its step.
InStep(x) ==
    \/ /\ x.step = "services" /\ Pending(x) \subseteq TheServices(x)
       /\ x.ok \cup x.bad \subseteq TheServices(x)
    \/ /\ x.step = "tasks" /\ Pending(x) \subseteq TheTasks(x)
       /\ TheServices(x) \subseteq x.ok \cup x.bad
       /\ x.ok \cup x.bad \subseteq TheServices(x) \cup TheTasks(x)

\* While parts are under way: a listed service is found, or gone, or some call knows
\* about it, or its part has failed.
Working(x) ==
    /\ \A job \in x.jobs : job[1] \notin {"instances", "clusters"}
    /\ \A s \in x.listed : \/ s \in x.gone \cup x.found
                           \/ <<"services", ClusterOf[s]>> \in x.bad
                           \/ \E job \in x.jobs : Holds(job, s)
    /\ x.kind = "progressive" => InStep(x)

\* No part of the step has been forgotten.
Covered(x) == x.kind = "progressive" => Expected(x) \subseteq x.ok \cup x.bad \cup Pending(x)

Separate(x) == x.ok \cap x.bad = {} /\ x.ok \cap Pending(x) = {}

Kept(x) == \A s \in x.listed : <<"services", ClusterOf[s]>> \in x.ok => s \in x.gone \cup x.found

Complete(x) == {"services", "tasks"} \X x.clusters = x.ok \cup x.bad

LoadInv(x) ==
    /\ Separate(x) /\ Kept(x)
    /\ "complete" \in x.told => x.step = "done" /\ Complete(x)
    /\ x.step # "done" => Opening(x) \/ (Working(x) /\ Covered(x))

LEMMA PartFacts ==
    /\ \A job \in Jobs : job[1] \in {"instances", "clusters"} <=> PartOf(job) = {}
    /\ \A c \in Clusters : /\ PartOf(<<"listServices", {c}>>) = {<<"services", c>>}
                           /\ PartOf(<<"listTasks", {c}>>) = {<<"tasks", c>>}
    /\ \A job, s : Holds(job, s) => <<"services", ClusterOf[s]>> \in PartOf(job)
  <1>1. ASSUME NEW job \in Jobs PROVE job[1] \in {"instances", "clusters"} <=> PartOf(job) = {}
    <2>1. CASE job \in {<<call, {}>> : call \in {"instances", "clusters"}}
      BY <2>1 DEF PartOf
    <2>2. CASE job \in {<<call, {c}>> : call \in {"listServices", "listTasks"}, c \in Clusters}
      <3>1. PICK call \in {"listServices", "listTasks"}, c \in Clusters : job = <<call, {c}>>
        BY <2>2
      <3>2. <<"services", c>> \in PartOf(job) \/ <<"tasks", c>> \in PartOf(job)
        BY <3>1 DEF PartOf
      <3> QED BY <3>1, <3>2
    <2>3. CASE job \in {<<call, ss>> : call \in {"describe", "definitions", "stopped", "stuck"},
                                    ss \in (SUBSET Services) \ {{}}}
      <3>1. PICK call \in {"describe", "definitions", "stopped", "stuck"},
                 ss \in (SUBSET Services) \ {{}} : job = <<call, ss>>
        BY <2>3
      <3>2. PICK s \in ss : TRUE
        BY <3>1
      <3>3. <<"services", ClusterOf[s]>> \in PartOf(job)
        BY <3>1, <3>2 DEF PartOf
      <3> QED BY <3>1, <3>3
    <2> QED BY <2>1, <2>2, <2>3 DEF Jobs
  <1>2. ASSUME NEW c \in Clusters
        PROVE  /\ PartOf(<<"listServices", {c}>>) = {<<"services", c>>}
               /\ PartOf(<<"listTasks", {c}>>) = {<<"tasks", c>>}
    BY DEF PartOf
  <1>3. ASSUME NEW job, NEW s, Holds(job, s) PROVE <<"services", ClusterOf[s]>> \in PartOf(job)
    BY <1>3 DEF PartOf, Holds
  <1> QED BY <1>1, <1>2, <1>3

\* What an answer leaves.
Left(x) == IF Sent(x).jobs = {} /\ Sent(x).kind # "progressive" THEN Ended(Sent(x), "data")
           ELSE Sent(x)

LEMMA AnsweredLeft ==
    ASSUME NEW l, NEW x, Answered(l, x)
    PROVE  load' = [load EXCEPT ![l] = Left(x)]
  BY DEF Answered, Left, Sent

LEMMA SentFields ==
    ASSUME NEW x \in Load
    PROVE  /\ Sent(x).ok = x.ok \cup (Expected(x) \ (Pending(x) \cup x.bad))
           /\ Sent(x).bad = x.bad /\ Sent(x).jobs = x.jobs /\ Sent(x).kind = x.kind
           /\ Sent(x).step = x.step /\ Sent(x).clusters = x.clusters
           /\ Sent(x).listed = x.listed /\ Sent(x).gone = x.gone
           /\ Sent(x).found = x.found /\ Sent(x).told = x.told
           /\ Pending(Sent(x)) = Pending(x) /\ Expected(Sent(x)) = Expected(x)
  <1>1. /\ Sent(x).ok = x.ok \cup (Expected(x) \ (Pending(x) \cup x.bad))
        /\ Sent(x).bad = x.bad /\ Sent(x).jobs = x.jobs /\ Sent(x).kind = x.kind
        /\ Sent(x).step = x.step /\ Sent(x).clusters = x.clusters
        /\ Sent(x).listed = x.listed /\ Sent(x).gone = x.gone
        /\ Sent(x).found = x.found /\ Sent(x).told = x.told
    BY DEF Sent, Load
  <1>2. Pending(Sent(x)) = Pending(x)
    BY <1>1 DEF Pending
  <1>3. Expected(Sent(x)) = Expected(x)
    BY <1>1 DEF Expected
  <1> QED BY <1>1, <1>2, <1>3

LEMMA EndedFields ==
    ASSUME NEW x \in Load, NEW message \in {"data", "complete", "error"}
    PROVE  LET y == Ended(x, message)
           IN  /\ y.ok = x.ok /\ y.bad = x.bad /\ y.jobs = {} /\ y.step = "done"
               /\ y.clusters = x.clusters /\ y.listed = x.listed /\ y.gone = x.gone
               /\ y.found = x.found /\ y.told = x.told \cup {message} /\ Pending(y) = {}
  <1> DEFINE y == Ended(x, message)
  <1>1. /\ y.ok = x.ok /\ y.bad = x.bad /\ y.jobs = {} /\ y.step = "done"
        /\ y.clusters = x.clusters /\ y.listed = x.listed /\ y.gone = x.gone
        /\ y.found = x.found /\ y.told = x.told \cup {message}
    BY DEF Ended, Load
  <1>2. Pending(y) = {}
    BY <1>1 DEF Pending
  <1> QED BY <1>1, <1>2

\* A load that is sound stays so when it ends with data or an error.
LEMMA EndedInv ==
    ASSUME NEW x \in Load, Separate(x), Kept(x), "complete" \notin x.told,
           NEW message \in {"data", "complete", "error"}, message = "complete" => Complete(x)
    PROVE  LoadInv(Ended(x, message))
  <1> DEFINE y == Ended(x, message)
  <1>1. /\ y.ok = x.ok /\ y.bad = x.bad /\ y.step = "done"
        /\ y.clusters = x.clusters /\ y.listed = x.listed /\ y.gone = x.gone
        /\ y.found = x.found /\ y.told = x.told \cup {message} /\ Pending(y) = {}
    BY EndedFields
  <1> HIDE DEF y
  <1> QED BY <1>1 DEF y, LoadInv, Separate, Kept, Complete

\* The parts that were not pending are sent, so none of the step is forgotten.
LEMMA LeftInv ==
    ASSUME NEW x \in Load, x.step # "done", "complete" \notin x.told, Separate(x), Working(x)
    PROVE  LoadInv(Left(x))
  <1> DEFINE y == Sent(x)
  <1>1. /\ y.ok = x.ok \cup (Expected(x) \ (Pending(x) \cup x.bad))
        /\ y.bad = x.bad /\ y.jobs = x.jobs /\ y.kind = x.kind
        /\ y.step = x.step /\ y.clusters = x.clusters
        /\ y.listed = x.listed /\ y.gone = x.gone
        /\ y.found = x.found /\ y.told = x.told
        /\ Pending(y) = Pending(x) /\ Expected(y) = Expected(x)
    BY SentFields
  <1>2. y \in Load
    BY SentType
  <1> HIDE DEF y
  <1>3. Separate(y)
    BY <1>1 DEF Separate
  <1>4. Kept(y)
    <2> SUFFICES ASSUME NEW s \in y.listed, <<"services", ClusterOf[s]>> \in y.ok,
                        s \notin y.gone \cup y.found
                 PROVE  FALSE
      BY DEF Kept
    <2>1. <<"services", ClusterOf[s]>> \notin y.bad
      BY <1>3 DEF Separate
    <2>2. PICK job \in y.jobs : Holds(job, s)
      BY <1>1, <2>1 DEF Working
    <2>3. <<"services", ClusterOf[s]>> \in Pending(y)
      BY <2>2, PartFacts DEF Pending
    <2> QED BY <1>3, <2>3 DEF Separate
  <1>5. Covered(y)
    BY <1>1 DEF Covered
  <1>6. y.kind = "progressive" => InStep(y)
    <2>1. SUFFICES ASSUME y.kind = "progressive" PROVE InStep(y)
      OBVIOUS
    <2>2. InStep(x)
      BY <1>1, <2>1 DEF Working
    <2>3. CASE x.step = "services"
      <3>1. Expected(x) \subseteq TheServices(x)
        BY <1>1, <2>1, <2>3 DEF Expected, TheServices, Parts
      <3> QED BY <1>1, <2>2, <2>3, <3>1 DEF InStep, TheServices
    <2>4. CASE x.step = "tasks"
      <3>1. Expected(x) \subseteq TheTasks(x)
        BY <1>1, <2>1, <2>4 DEF Expected, TheTasks, Parts
      <3> QED BY <1>1, <2>2, <2>4, <3>1 DEF InStep, TheServices, TheTasks
    <2> QED BY <2>2, <2>3, <2>4 DEF InStep
  <1>7. Working(y)
    BY <1>1, <1>6 DEF Working
  <1>8. CASE y.jobs = {} /\ y.kind # "progressive"
    <2>1. Left(x) = Ended(y, "data")
      BY <1>8 DEF Left, y
    <2> QED BY <1>1, <1>2, <1>3, <1>4, <2>1, EndedInv
  <1>9. CASE ~(y.jobs = {} /\ y.kind # "progressive")
    <2>1. Left(x) = y
      BY <1>9 DEF Left, y
    <2> QED BY <1>1, <1>3, <1>4, <1>5, <1>7, <2>1 DEF LoadInv
  <1> QED BY <1>8, <1>9

\* Nothing is expected before the first part.
LEMMA LeftOpening ==
    ASSUME NEW x \in Load, x.step # "done", "complete" \notin x.told, Opening(x)
    PROVE  LoadInv(Left(x))
  <1> DEFINE y == Sent(x)
  <1>1. Expected(x) = {}
    BY DEF Opening, Expected, Parts
  <1>2. Pending(x) = {}
    <2>1. \A job \in x.jobs : PartOf(job) = {}
      BY DEF Opening, PartOf
    <2> QED BY <2>1 DEF Pending
  <1>3. /\ y.ok = {} /\ y.bad = {} /\ y.listed = {} /\ Pending(y) = {} /\ y.jobs = x.jobs
        /\ y.kind = x.kind /\ y.step = x.step /\ y.clusters = x.clusters /\ y.told = x.told
    BY <1>1, <1>2, SentFields DEF Opening
  <1> HIDE DEF y
  <1>4. Opening(y) /\ y.jobs # {}
    BY <1>3 DEF Opening
  <1>5. Separate(y) /\ Kept(y)
    BY <1>3 DEF Separate, Kept
  <1>6. Left(x) = y
    BY <1>4 DEF Left, y
  <1> QED BY <1>3, <1>4, <1>5, <1>6 DEF LoadInv

LoadsInv == \A l \in Loads : load[l] # NoLoad => LoadInv(load[l])

LEMMA BecomesInv ==
    ASSUME TypeInv, LoadsInv, NEW l \in Loads, NEW y, LoadInv(y), load' = [load EXCEPT ![l] = y]
    PROVE  LoadsInv'
  BY DEF TypeInv, LoaderTypeOK, LoadsInv

LEMMA StartLoadInv ==
    ASSUME TypeInv, LoadsInv, NEW l \in Loads, StartLoad(l)
    PROVE  LoadsInv'
  <1>k. Kinds = {"legacy", "progressive", "inventory", "services", "tasks"}
    BY DEF Kinds
  <1>1. CASE CacheHit(l)
    <2> DEFINE x == Ended(NewLoad("legacy", {}, {}), "data")
               y == [x EXCEPT !.age = cache.age]
    <2>1. NewLoad("legacy", {}, {}) \in Load
      BY <1>k, FirstJobs, NewLoadType
    <2>2. x \in Load
      BY <2>1, EndedType
    <2>3. /\ x.ok = {} /\ x.bad = {} /\ x.listed = {} /\ x.step = "done" /\ x.jobs = {}
          /\ x.told = {"data"}
      BY <2>1, EndedFields DEF NewLoad
    <2> HIDE DEF x
    <2>4. /\ y.ok = {} /\ y.bad = {} /\ y.listed = {} /\ y.step = "done" /\ y.told = {"data"}
      BY <2>2, <2>3 DEF Load
    <2>5. LoadInv(y)
      BY <2>4 DEF LoadInv, Separate, Kept
    <2> QED BY <1>1, <2>5, BecomesInv DEF CacheHit, x
  <1>2. ASSUME NEW kind, NEW jobs, NEW clusters, Starts(l, kind, jobs, clusters),
               LET x == NewLoad(kind, jobs, clusters)
               IN  Opening(x) \/ (Working(x) /\ Covered(x))
        PROVE  LoadsInv'
    <2> DEFINE x == NewLoad(kind, jobs, clusters)
    <2>1. x.ok = {} /\ x.bad = {} /\ x.listed = {} /\ x.told = {} /\ x.step = "first"
      BY DEF NewLoad
    <2>2. LoadInv(x)
      BY <1>2, <2>1 DEF LoadInv, Separate, Kept
    <2> QED BY <1>2, <2>2, BecomesInv DEF Starts
  <1>3. CASE Starts(l, "legacy", {<<"instances", {}>>}, {})
    <2>1. Opening(NewLoad("legacy", {<<"instances", {}>>}, {}))
      BY DEF Opening, NewLoad
    <2> QED BY <1>2, <1>3, <2>1
  <1>4. CASE StartProgressive(l)
    <2>1. Opening(NewLoad("progressive", {<<"clusters", {}>>}, {}))
      BY DEF Opening, NewLoad
    <2> QED BY <1>2, <1>4, <2>1 DEF StartProgressive
  <1>5. CASE GetEC2InventoryOnly(l)
    <2>1. Opening(NewLoad("inventory", {<<"instances", {}>>}, {}))
      BY DEF Opening, NewLoad
    <2> QED BY <1>2, <1>5, <2>1 DEF GetEC2InventoryOnly
  <1>6. ASSUME NEW c \in Clusters, RefreshClusterServices(l, c) PROVE LoadsInv'
    <2> DEFINE x == NewLoad("services", {<<"listServices", {c}>>}, {c})
    <2>1. Working(x) /\ Covered(x)
      BY DEF Working, Covered, NewLoad
    <2> HIDE DEF x
    <2> QED BY <1>2, <1>6, <2>1 DEF RefreshClusterServices, x
  <1>7. ASSUME NEW c \in Clusters, RefreshClusterScheduledTasks(l, c) PROVE LoadsInv'
    <2> DEFINE x == NewLoad("tasks", {<<"listTasks", {c}>>}, {c})
    <2>1. Working(x) /\ Covered(x)
      BY DEF Working, Covered, NewLoad
    <2> HIDE DEF x
    <2> QED BY <1>2, <1>7, <2>1 DEF RefreshClusterScheduledTasks, x
  <1> QED BY <1>1, <1>3, <1>4, <1>5, <1>6, <1>7 DEF StartLoad, StartLegacy

\* What follows an answer belongs to the part of the answer.
LEMMA FollowPending ==
    ASSUME NEW x \in Load, NEW job \in x.jobs, NEW next,
           \A j \in next : PartOf(j) \subseteq PartOf(job),
           NEW y, y.jobs = Follow(x, job, next)
    PROVE  Pending(y) \subseteq Pending(x)
  BY DEF Pending, Follow

\* An answer within a part: `heard` services are found, gone, or known to a next call.
LEMMA PartAnswerInv ==
    ASSUME TypeInv, LoadsInv, NEW l \in Loads, Running(l), NEW job \in load[l].jobs,
           NEW next \in SUBSET Jobs,
           \A j \in next : PartOf(j) \subseteq PartOf(job) /\ j[1] \notin {"instances", "clusters"},
           job[1] \notin {"instances", "clusters"},
           NEW y \in Load, Answered(l, y),
           y.jobs = Follow(load[l], job, next), y.kind = load[l].kind, y.step = load[l].step,
           y.clusters = load[l].clusters, y.ok = load[l].ok, y.bad = load[l].bad,
           y.told = load[l].told, load[l].gone \subseteq y.gone, load[l].found \subseteq y.found,
           \A s \in y.listed : \/ s \in load[l].listed /\ ~Holds(job, s)
                               \/ s \in y.gone \cup y.found
                               \/ \E j \in y.jobs : Holds(j, s)
    PROVE  LoadsInv'
  <1> DEFINE x == load[l]
  <1>1. x \in Load /\ LoadInv(x) /\ x.step # "done"
    BY DEF TypeInv, LoaderTypeOK, LoadsInv, Running
  <1> HIDE DEF x
  <1>2. ~Opening(x)
    BY DEF Opening, x
  <1>3. Working(x) /\ Separate(x) /\ "complete" \notin x.told
    BY <1>1, <1>2 DEF LoadInv
  <1>4. Pending(y) \subseteq Pending(x)
    BY <1>1, FollowPending DEF x
  <1>5. Separate(y)
    BY <1>3, <1>4 DEF Separate, x
  <1>6. y.kind = "progressive" => InStep(y)
    BY <1>3, <1>4 DEF Working, InStep, TheServices, TheTasks, x
  <1>7. \A s \in y.listed : \/ s \in y.gone \cup y.found
                            \/ <<"services", ClusterOf[s]>> \in y.bad
                            \/ \E j \in y.jobs : Holds(j, s)
    <2> SUFFICES ASSUME NEW s \in x.listed, ~Holds(job, s), s \notin y.gone \cup y.found,
                        <<"services", ClusterOf[s]>> \notin y.bad
                 PROVE  \E j \in y.jobs : Holds(j, s)
      BY DEF x
    <2>1. PICK j \in x.jobs : Holds(j, s)
      BY <1>3 DEF Working, x
    <2>2. j \in y.jobs
      BY <2>1 DEF Follow, x
    <2> QED BY <2>1, <2>2
  <1>8. \A j \in y.jobs : j[1] \notin {"instances", "clusters"}
    BY <1>3 DEF Working, Follow, x
  <1>9. Working(y)
    BY <1>6, <1>7, <1>8 DEF Working
  <1>10. LoadInv(Left(y))
    BY <1>1, <1>3, <1>5, <1>9, LeftInv DEF x
  <1> QED BY <1>10, AnsweredLeft, BecomesInv

LEMMA ProgressInv ==
    ASSUME TypeInv, LoadsInv, NEW l \in Loads, Progress(l)
    PROVE  LoadsInv'
  <1> DEFINE x == load[l]
  <1>t. Running(l) => x \in Load /\ x.step # "done" /\ LoadInv(x) /\ x.jobs \in SUBSET Jobs
    BY DEF TypeInv, LoaderTypeOK, LoadsInv, Running, Load
  <1>u. Running(l) => Separate(x) /\ Kept(x) /\ "complete" \notin x.told
    BY <1>t DEF LoadInv
  <1>v. Running(l) => Opening(x) \/ (Working(x) /\ Covered(x))
    BY <1>t DEF LoadInv
  <1>p. plan.services \in SUBSET Services
    BY LoaderAssumption DEF TypeInv, LoaderTypeOK, LoadPlan
  <1>o. Running(l) /\ (<<"instances", {}>> \in x.jobs \/ <<"clusters", {}>> \in x.jobs) => Opening(x)
    BY <1>v DEF Working
  <1>1. CASE InstancesAnswer(l)
    <2>1. Running(l) /\ Opening(x) /\ <<"instances", {}>> \in x.jobs
      BY <1>1, <1>o DEF InstancesAnswer
    <2>2. CASE x.kind = "legacy"
      <3> DEFINE y == [x EXCEPT !.jobs = {<<"clusters", {}>>}]
      <3>1. Answered(l, y)
        BY <1>1, <2>2 DEF InstancesAnswer
      <3>2. y \in Load /\ y.step # "done" /\ "complete" \notin y.told /\ Opening(y)
        BY <1>t, <1>u, <2>1, <2>2, FirstJobs DEF Load, Opening
      <3> HIDE DEF y
      <3> QED BY <3>1, <3>2, LeftOpening, AnsweredLeft, BecomesInv
    <2>3. CASE x.kind = "inventory"
      <3> DEFINE y == [x EXCEPT !.jobs = {}]
      <3>1. Answered(l, y)
        BY <1>1, <2>3 DEF InstancesAnswer
      <3>2. /\ y \in Load /\ y.step # "done" /\ "complete" \notin y.told /\ y.jobs = {}
            /\ y.ok = {} /\ y.listed = {} /\ y.kind # "progressive"
        BY <1>t, <1>u, <2>1, <2>3, FirstJobs DEF Load, Opening
      <3> HIDE DEF y
      <3>3. Separate(y) /\ Working(y)
        BY <3>2 DEF Separate, Working
      <3> QED BY <3>1, <3>2, <3>3, LeftInv, AnsweredLeft, BecomesInv
    <2>4. CASE x.kind = "progressive"
      <3> DEFINE jobs == {<<"listServices", {c}>> : c \in x.clusters}
                 y == LoadClusterServices([x EXCEPT !.told = @ \cup {"instances"}])
      <3>1. Answered(l, y)
        BY <1>1, <2>4 DEF InstancesAnswer
      <3>2. x.clusters \in SUBSET Clusters
        BY <1>t, <2>1 DEF Load
      <3>3. jobs \in SUBSET Jobs /\ \A job \in jobs : PartOf(job) \subseteq TheServices(x)
                                               /\ job[1] \notin {"instances", "clusters"}
        <4>1. ASSUME NEW c \in x.clusters
              PROVE  /\ <<"listServices", {c}>> \in Jobs
                     /\ PartOf(<<"listServices", {c}>>) \subseteq TheServices(x)
          <5>1. c \in Clusters
            BY <3>2
          <5>2. <<"listServices", {c}>> \in Jobs
            BY <5>1, JobMembers
          <5>3. PartOf(<<"listServices", {c}>>) = {<<"services", c>>}
            BY <5>1, PartFacts
          <5>4. {<<"services", c>>} \subseteq TheServices(x)
            BY DEF TheServices
          <5> QED BY <5>2, <5>3, <5>4
        <4> QED BY <4>1
      <3>4. y = [x EXCEPT !.told = @ \cup {"instances"}, !.step = "services", !.jobs = jobs]
        BY <1>t, <2>1 DEF LoadClusterServices, Load
      <3> HIDE DEF y, jobs
      <3>5. /\ y \in Load /\ y.step = "services" /\ "complete" \notin y.told /\ y.jobs = jobs
            /\ y.ok = {} /\ y.bad = {} /\ y.listed = {} /\ y.clusters = x.clusters
        BY <1>t, <1>u, <2>1, <3>3, <3>4 DEF Load, Opening
      <3>6. Pending(y) \subseteq TheServices(y)
        BY <3>3, <3>5 DEF Pending, TheServices
      <3>7. Separate(y) /\ Working(y)
        BY <3>3, <3>5, <3>6 DEF Separate, Working, InStep
      <3> QED BY <3>1, <3>5, <3>7, LeftInv, AnsweredLeft, BecomesInv
    <2> QED BY <2>1, <2>2, <2>3, <2>4 DEF Opening
  <1>2. CASE ClustersAnswer(l)
    <2>1. Running(l) /\ Opening(x) /\ <<"clusters", {}>> \in x.jobs
      BY <1>2, <1>o DEF ClustersAnswer
    <2>2. PICK cs \in SUBSET Clusters : Answered(l, LoadClusters(x, cs))
      BY <1>2 DEF ClustersAnswer
    <2> DEFINE both == {<<call, {c}>> : call \in {"listServices", "listTasks"}, c \in cs}
               y == LoadClusters(x, cs)
    <2>3. both \in SUBSET Jobs /\ \A job \in both : job[1] \notin {"instances", "clusters"}
      BY JobMembers
    <2>4. CASE x.kind = "legacy"
      <3>1. y = [x EXCEPT !.clusters = cs, !.jobs = both]
        BY <2>4 DEF LoadClusters
      <3> HIDE DEF y, both
      <3>2. /\ y \in Load /\ y.step # "done" /\ "complete" \notin y.told /\ y.jobs = both
            /\ y.ok = {} /\ y.bad = {} /\ y.listed = {} /\ y.kind # "progressive"
        BY <1>t, <1>u, <2>1, <2>3, <2>4, <3>1 DEF Load, Opening
      <3>3. Separate(y) /\ Working(y)
        BY <2>3, <3>2 DEF Separate, Working
      <3> QED BY <2>2, <3>2, <3>3, LeftInv, AnsweredLeft, BecomesInv DEF y
    <2>5. CASE x.kind # "legacy"
      <3>1. y = [x EXCEPT !.clusters = cs, !.told = @ \cup {"basic"},
                          !.step = "instances", !.jobs = {<<"instances", {}>>}]
        BY <2>5 DEF LoadClusters
      <3>2. x.kind = "progressive"
        BY <2>1, <2>5 DEF Opening
      <3> HIDE DEF y, both
      <3>3. y \in Load /\ y.step # "done" /\ "complete" \notin y.told /\ Opening(y)
        BY <1>t, <1>u, <2>1, <3>1, <3>2, FirstJobs DEF Load, Opening
      <3> QED BY <2>2, <3>3, LeftOpening, AnsweredLeft, BecomesInv DEF y
    <2> QED BY <2>4, <2>5
  <1>3. CASE NextStep(l)
    <2>1. Running(l) /\ x.kind = "progressive" /\ x.jobs = {}
      BY <1>3 DEF NextStep
    <2>2. Working(x) /\ Covered(x) /\ Pending(x) = {}
      BY <1>v, <2>1 DEF Opening, Pending
    <2>3. InStep(x) /\ x.clusters \in SUBSET Clusters
      BY <1>t, <2>1, <2>2 DEF Working, Load
    <2>4. CASE x.step = "services"
      <3> DEFINE jobs == {<<"listTasks", {c}>> : c \in x.clusters}
                 y == LoadScheduledTasks(x)
      <3>1. load' = [load EXCEPT ![l] = y]
        BY <1>3, <2>4 DEF NextStep
      <3>2. jobs \in SUBSET Jobs
        BY <2>3, JobMembers
      <3>3. y = [x EXCEPT !.step = "tasks", !.jobs = jobs]
        BY DEF LoadScheduledTasks
      <3>4. UNION {PartOf(job) : job \in jobs} = TheTasks(x)
        <4>1. \A c \in x.clusters : PartOf(<<"listTasks", {c}>>) = {<<"tasks", c>>}
          BY <2>3, PartFacts
        <4>2. UNION {PartOf(job) : job \in jobs} = {<<"tasks", c>> : c \in x.clusters}
          <5>1. ASSUME NEW job \in jobs PROVE PartOf(job) \subseteq {<<"tasks", c>> : c \in x.clusters}
            <6>1. PICK c \in x.clusters : job = <<"listTasks", {c}>>
              OBVIOUS
            <6> QED BY <4>1, <6>1
          <5>2. ASSUME NEW c \in x.clusters PROVE <<"tasks", c>> \in UNION {PartOf(job) : job \in jobs}
            <6>1. <<"listTasks", {c}>> \in jobs
              OBVIOUS
            <6>2. <<"tasks", c>> \in PartOf(<<"listTasks", {c}>>)
              BY <4>1
            <6> HIDE DEF jobs
            <6> QED BY <6>1, <6>2
          <5> HIDE DEF jobs
          <5> QED BY <5>1, <5>2
        <4>3. TheTasks(x) = {<<"tasks", c>> : c \in x.clusters}
          BY DEF TheTasks
        <4> QED BY <4>2, <4>3
      <3>5. \A job \in jobs : job[1] \notin {"instances", "clusters"}
        OBVIOUS
      <3> HIDE DEF y, jobs
      <3>6. /\ y.step = "tasks" /\ y.jobs = jobs /\ y.ok = x.ok /\ y.bad = x.bad
            /\ y.clusters = x.clusters /\ y.told = x.told /\ y.listed = x.listed
            /\ y.gone = x.gone /\ y.found = x.found /\ y.kind = x.kind
        BY <1>t, <2>1, <3>3 DEF Load
      <3>7. Pending(y) = TheTasks(y)
        BY <3>4, <3>6 DEF Pending, TheTasks
      <3>8. TheServices(x) \subseteq x.ok \cup x.bad /\ x.ok \cup x.bad \subseteq TheServices(x)
        <4>1. Expected(x) = TheServices(x)
          BY <2>1, <2>3, <2>4 DEF Expected, TheServices, Parts
        <4> QED BY <2>1, <2>2, <2>3, <2>4, <4>1 DEF Covered, InStep
      <3>9. InStep(y)
        BY <3>6, <3>7, <3>8 DEF InStep, TheServices
      <3>10. Separate(y)
        BY <1>u, <2>1, <3>6, <3>7, <3>8 DEF Separate, TheServices, TheTasks
      <3>11. Kept(y)
        BY <1>u, <2>1, <3>6 DEF Kept
      <3>12. Working(y)
        <4>1. \A s \in x.listed : \/ s \in x.gone \cup x.found
                                  \/ <<"services", ClusterOf[s]>> \in x.bad
          BY <2>1, <2>2 DEF Working
        <4> QED BY <3>5, <3>6, <3>9, <4>1 DEF Working
      <3>13. Covered(y)
        <4>1. y.kind = "progressive" => Expected(y) \subseteq TheTasks(y)
          BY <3>6 DEF Expected, TheTasks, Parts
        <4> QED BY <3>7, <4>1 DEF Covered
      <3> QED BY <1>u, <2>1, <3>1, <3>6, <3>10, <3>11, <3>12, <3>13, BecomesInv DEF LoadInv
    <2>5. CASE x.step = "tasks"
      <3>1. load' = [load EXCEPT ![l] = Ended(x, "complete")]
        BY <1>3, <2>5 DEF NextStep
      <3>2. Expected(x) = TheTasks(x)
        BY <2>1, <2>3, <2>5 DEF Expected, TheTasks, Parts
      <3>3. TheServices(x) \cup TheTasks(x) = x.ok \cup x.bad
        BY <2>1, <2>2, <2>3, <2>5, <3>2 DEF Covered, InStep
      <3>4. Complete(x)
        BY <3>3 DEF Complete, TheServices, TheTasks
      <3>5. LoadInv(Ended(x, "complete"))
        BY <1>t, <1>u, <2>1, <3>4, EndedInv
      <3> QED BY <3>1, <3>5, BecomesInv
    <2> QED BY <2>3, <2>4, <2>5 DEF InStep
  <1>4. ASSUME NEW c \in Clusters, TasksAnswer(l, c) PROVE LoadsInv'
    <2> DEFINE job == <<"listTasks", {c}>>
               y == [x EXCEPT !.jobs = Follow(x, job, {})]
    <2>1. Running(l) /\ job \in x.jobs /\ Answered(l, y)
      BY <1>4 DEF TasksAnswer
    <2>2. Follow(x, job, {}) \in SUBSET Jobs /\ job[1] \notin {"instances", "clusters"}
      BY <1>t, <2>1, FirstJobs, FollowType
    <2>3. \A s : ~Holds(job, s)
      BY DEF Holds
    <2> HIDE DEF job
    <2>4. /\ y \in Load /\ y.jobs = Follow(x, job, {}) /\ y.kind = x.kind /\ y.step = x.step
          /\ y.clusters = x.clusters /\ y.ok = x.ok /\ y.bad = x.bad /\ y.told = x.told
          /\ y.gone = x.gone /\ y.found = x.found /\ y.listed = x.listed
      BY <1>t, <2>1, <2>2 DEF Load
    <2> HIDE DEF y
    <2> QED BY <2>1, <2>2, <2>3, <2>4, PartAnswerInv
  <1>5. ASSUME NEW c \in Clusters, ServicesListed(l, c) PROVE LoadsInv'
    <2> DEFINE job == <<"listServices", {c}>>
    <2>1. Running(l) /\ job \in x.jobs
      BY <1>5 DEF ServicesListed
    <2>2. PICK ss \in SUBSET {s \in plan.services : ClusterOf[s] = c} :
            Answered(l, [x EXCEPT !.listed = @ \cup ss,
              !.jobs = Follow(x, <<"listServices", {c}>>, {<<"describe", b>> : b \in Batches(ss)})])
      BY <1>5 DEF ServicesListed
    <2> DEFINE next == {<<"describe", b>> : b \in Batches(ss)}
               y == [x EXCEPT !.listed = @ \cup ss, !.jobs = Follow(x, job, next)]
    <2>3. ss \in SUBSET Services /\ \A s \in ss : ClusterOf[s] = c
      BY <1>p
    <2>4. next \in SUBSET Jobs
      BY <2>3, JobMembers, BatchesType
    <2>5. \A j \in next : PartOf(j) \subseteq PartOf(job) /\ j[1] \notin {"instances", "clusters"}
      <3>1. ASSUME NEW b \in Batches(ss) PROVE PartOf(<<"describe", b>>) \subseteq PartOf(job)
        <4>1. b \in SUBSET ss
          BY <2>3, BatchesType
        <4>2. PartOf(<<"describe", b>>) = {<<"services", ClusterOf[s]>> : s \in b}
          BY DEF PartOf
        <4>3. PartOf(job) = {<<"services", c>>}
          BY PartFacts
        <4> QED BY <2>3, <4>1, <4>2, <4>3
      <3> QED BY <3>1
    <2>6. \A s \in ss : \E j \in next : Holds(j, s)
      <3> SUFFICES ASSUME NEW s \in ss PROVE \E j \in next : Holds(j, s)
        OBVIOUS
      <3>1. PICK b \in Batches(ss) : s \in b
        BY <2>3, BatchesCover
      <3>2. <<"describe", b>> \in next /\ Holds(<<"describe", b>>, s)
        BY <3>1 DEF Holds
      <3> QED BY <3>2
    <2>7. \A s : ~Holds(job, s)
      BY DEF Holds
    <2>8. job[1] \notin {"instances", "clusters"}
      OBVIOUS
    <2>9. Answered(l, y)
      BY <2>2
    <2> HIDE DEF job, next
    <2>10. Follow(x, job, next) \in SUBSET Jobs /\ next \subseteq Follow(x, job, next)
      BY <1>t, <2>1, <2>4, FollowType DEF Follow
    <2>11. /\ y \in Load /\ y.jobs = Follow(x, job, next) /\ y.kind = x.kind /\ y.step = x.step
           /\ y.clusters = x.clusters /\ y.ok = x.ok /\ y.bad = x.bad /\ y.told = x.told
           /\ y.gone = x.gone /\ y.found = x.found /\ y.listed = x.listed \cup ss
      BY <1>t, <2>1, <2>3, <2>10 DEF Load
    <2> HIDE DEF y
    <2>12. \A s \in y.listed : (s \in x.listed /\ ~Holds(job, s)) \/ \E j \in y.jobs : Holds(j, s)
      BY <2>6, <2>7, <2>10, <2>11
    <2> QED BY <2>1, <2>4, <2>5, <2>8, <2>9, <2>11, <2>12, PartAnswerInv
  <1>6. CASE BatchDescribed(l)
    <2>1. Running(l)
      BY <1>6 DEF BatchDescribed
    <2>2. PICK job, ss :
            /\ job \in x.jobs /\ job[1] = "describe" /\ ss \in SUBSET job[2]
            /\ Answered(l, [x EXCEPT !.gone = @ \cup (job[2] \ ss),
                 !.jobs = Follow(x, job, IF ss = {} THEN {} ELSE {<<"definitions", ss>>})])
      BY <1>6 DEF BatchDescribed
    <2> DEFINE next == IF ss = {} THEN {} ELSE {<<"definitions", ss>>}
               y == [x EXCEPT !.gone = @ \cup (job[2] \ ss), !.jobs = Follow(x, job, next)]
    <2>3. job \in Jobs /\ job[2] \in SUBSET Services /\ ss \in SUBSET Services
      BY <1>t, <2>1, <2>2, JobForms DEF Load
    <2>4. next \in SUBSET Jobs
      BY <2>3, JobMembers
    <2>5. \A j \in next : PartOf(j) \subseteq PartOf(job) /\ j[1] \notin {"instances", "clusters"}
      <3>1. PartOf(<<"definitions", ss>>) = {<<"services", ClusterOf[s]>> : s \in ss}
        BY DEF PartOf
      <3>2. PartOf(job) = {<<"services", ClusterOf[s]>> : s \in job[2]}
        BY <2>2 DEF PartOf
      <3> QED BY <2>2, <3>1, <3>2
    <2>6. \A s \in ss : \E j \in next : Holds(j, s)
      BY DEF Holds
    <2>7. Answered(l, y)
      BY <2>2
    <2>8. \A s : Holds(job, s) => s \in ss \/ s \in job[2] \ ss
      BY DEF Holds
    <2>9. job[1] \notin {"instances", "clusters"}
      BY <2>2
    <2> HIDE DEF next
    <2>10. Follow(x, job, next) \in SUBSET Jobs /\ next \subseteq Follow(x, job, next)
      BY <1>t, <2>1, <2>4, FollowType DEF Follow
    <2>11. /\ y \in Load /\ y.jobs = Follow(x, job, next) /\ y.kind = x.kind /\ y.step = x.step
           /\ y.clusters = x.clusters /\ y.ok = x.ok /\ y.bad = x.bad /\ y.told = x.told
           /\ y.gone = x.gone \cup (job[2] \ ss) /\ y.found = x.found /\ y.listed = x.listed
      BY <1>t, <2>1, <2>3, <2>10 DEF Load
    <2> HIDE DEF y
    <2>12. \A s \in y.listed : \/ s \in x.listed /\ ~Holds(job, s)
                               \/ s \in y.gone \cup y.found
                               \/ \E j \in y.jobs : Holds(j, s)
      BY <2>6, <2>8, <2>10, <2>11
    <2> QED BY <2>1, <2>2, <2>4, <2>5, <2>7, <2>9, <2>11, <2>12, PartAnswerInv
  <1>7. CASE DefinitionsAnswer(l)
    <2>1. Running(l)
      BY <1>7 DEF DefinitionsAnswer
    <2>2. PICK job, ds :
            /\ job \in x.jobs /\ job[1] = "definitions" /\ ds \in SUBSET job[2]
            /\ Answered(l, [x EXCEPT !.jobs = Follow(x, job,
                 {<<"stopped", {s}>> : s \in job[2]} \cup {<<"stuck", {s}>> : s \in ds})])
      BY <1>7 DEF DefinitionsAnswer
    <2> DEFINE next == {<<"stopped", {s}>> : s \in job[2]} \cup {<<"stuck", {s}>> : s \in ds}
               y == [x EXCEPT !.jobs = Follow(x, job, next)]
    <2>3. job \in Jobs /\ job[2] \in SUBSET Services
      BY <1>t, <2>1, <2>2, JobForms DEF Load
    <2>4. next \in SUBSET Jobs
      <3>1. \A t \in job[2] : {t} \in (SUBSET Services) \ {{}}
        BY <2>3
      <3> QED BY <2>2, <3>1, JobMembers
    <2>5. \A j \in next : PartOf(j) \subseteq PartOf(job) /\ j[1] \notin {"instances", "clusters"}
      <3>1. PartOf(job) = {<<"services", ClusterOf[s]>> : s \in job[2]}
        BY <2>2 DEF PartOf
      <3>2. ASSUME NEW s \in job[2], NEW call \in {"stopped", "stuck"}
            PROVE  PartOf(<<call, {s}>>) \subseteq PartOf(job)
        <4>1. PartOf(<<call, {s}>>) = {<<"services", ClusterOf[s]>>}
          BY DEF PartOf
        <4> QED BY <3>1, <4>1
      <3>3. ASSUME NEW j \in next PROVE \E s \in job[2], call \in {"stopped", "stuck"} : j = <<call, {s}>>
        BY <2>2
      <3>4. ASSUME NEW j \in next
            PROVE  PartOf(j) \subseteq PartOf(job) /\ j[1] \notin {"instances", "clusters"}
        <4>1. PICK s \in job[2], call \in {"stopped", "stuck"} : j = <<call, {s}>>
          BY <3>3, <3>4
        <4> QED BY <3>2, <4>1
      <3> QED BY <3>4
    <2>6. \A s : Holds(job, s) => \E j \in next : Holds(j, s)
      <3> SUFFICES ASSUME NEW s, Holds(job, s) PROVE \E j \in next : Holds(j, s)
        OBVIOUS
      <3>1. <<"stopped", {s}>> \in next /\ Holds(<<"stopped", {s}>>, s)
        BY DEF Holds
      <3> QED BY <3>1
    <2>7. Answered(l, y)
      BY <2>2
    <2>8. job[1] \notin {"instances", "clusters"}
      BY <2>2
    <2> HIDE DEF next
    <2>9. Follow(x, job, next) \in SUBSET Jobs /\ next \subseteq Follow(x, job, next)
      BY <1>t, <2>1, <2>4, FollowType DEF Follow
    <2>10. /\ y \in Load /\ y.jobs = Follow(x, job, next) /\ y.kind = x.kind /\ y.step = x.step
           /\ y.clusters = x.clusters /\ y.ok = x.ok /\ y.bad = x.bad /\ y.told = x.told
           /\ y.gone = x.gone /\ y.found = x.found /\ y.listed = x.listed
      BY <1>t, <2>1, <2>9 DEF Load
    <2> HIDE DEF y
    <2>11. \A s \in y.listed : (s \in x.listed /\ ~Holds(job, s)) \/ \E j \in y.jobs : Holds(j, s)
      BY <2>6, <2>9, <2>10
    <2> QED BY <2>1, <2>2, <2>4, <2>5, <2>7, <2>8, <2>10, <2>11, PartAnswerInv
  <1>8. CASE FailedTasksAnswer(l) \/ DeploymentStuckAnswer(l)
    <2>1. PICK job \in x.jobs : job[1] \in {"stopped", "stuck"} /\ Running(l) /\ ServiceFound(l, job)
      BY <1>8 DEF FailedTasksAnswer, DeploymentStuckAnswer
    <2> DEFINE left == Follow(x, job, {})
               some == {s \in job[2] : \A call \in {"stopped", "stuck"} : <<call, {s}>> \notin left}
               y == [x EXCEPT !.jobs = left, !.found = @ \cup some]
    <2>2. Answered(l, y)
      BY <2>1 DEF ServiceFound
    <2>3. job \in Jobs /\ job[2] \in SUBSET Services
      BY <1>t, <2>1, JobForms DEF Load
    <2>4. left \in SUBSET Jobs
      BY <1>t, <2>1, FirstJobs, FollowType
    <2>5. some \in SUBSET Services
      BY <2>3
    <2>6. \A s : Holds(job, s) => s \in some \/ \E j \in left : Holds(j, s)
      <3> SUFFICES ASSUME NEW s, Holds(job, s), s \notin some PROVE \E j \in left : Holds(j, s)
        OBVIOUS
      <3>1. PICK call \in {"stopped", "stuck"} : <<call, {s}>> \in left
        BY DEF Holds
      <3>2. Holds(<<call, {s}>>, s)
        BY DEF Holds
      <3> QED BY <3>1, <3>2
    <2>7. job[1] \notin {"instances", "clusters"}
      BY <2>1
    <2> HIDE DEF some
    <2>8. /\ y \in Load /\ y.jobs = left /\ y.kind = x.kind /\ y.step = x.step
          /\ y.clusters = x.clusters /\ y.ok = x.ok /\ y.bad = x.bad /\ y.told = x.told
          /\ y.gone = x.gone /\ y.found = x.found \cup some /\ y.listed = x.listed
      BY <1>t, <2>1, <2>4, <2>5 DEF Load
    <2> HIDE DEF y
    <2>9. \A s \in y.listed : \/ s \in x.listed /\ ~Holds(job, s)
                              \/ s \in y.gone \cup y.found
                              \/ \E j \in y.jobs : Holds(j, s)
      BY <2>6, <2>8
    <2>10. {} \in SUBSET Jobs
      OBVIOUS
    <2> QED BY <2>1, <2>2, <2>7, <2>8, <2>9, <2>10, PartAnswerInv
  <1>9. CASE LoadCallFails(l)
    <2>1. PICK job \in x.jobs :
            LET rest == [x EXCEPT !.jobs = {j \in @ : PartOf(j) # PartOf(job)},
                                  !.bad = @ \cup PartOf(job)]
            IN  load' = [load EXCEPT ![l] =
                        IF x.kind = "progressive" /\ PartOf(job) # {} THEN rest
                        ELSE IF x.kind \in {"services", "tasks"} THEN Ended(rest, "error")
                        ELSE Ended(x, "error")]
      BY <1>9 DEF LoadCallFails
    <2>2. Running(l) /\ job \in Jobs /\ PartOf(job) \subseteq Pending(x) /\ PartOf(job) \subseteq Parts
      BY <1>9, <1>t, <2>1, JobForms DEF LoadCallFails, Pending
    <2> DEFINE rest == [x EXCEPT !.jobs = {j \in @ : PartOf(j) # PartOf(job)},
                                  !.bad = @ \cup PartOf(job)]
    <2>3. /\ rest \in Load /\ rest.kind = x.kind /\ rest.step = x.step /\ rest.clusters = x.clusters
          /\ rest.ok = x.ok /\ rest.bad = x.bad \cup PartOf(job) /\ rest.told = x.told
          /\ rest.gone = x.gone /\ rest.found = x.found /\ rest.listed = x.listed
          /\ rest.jobs = {j \in x.jobs : PartOf(j) # PartOf(job)}
      BY <1>t, <2>2 DEF Load
    <2>4. \/ load' = [load EXCEPT ![l] = rest] /\ x.kind = "progressive" /\ PartOf(job) # {}
          \/ load' = [load EXCEPT ![l] = Ended(rest, "error")]
          \/ load' = [load EXCEPT ![l] = Ended(x, "error")]
      BY <2>1
    <2> HIDE DEF rest
    <2>5. Pending(rest) \subseteq Pending(x) /\ Pending(x) \subseteq Pending(rest) \cup PartOf(job)
      BY <2>3 DEF Pending
    <2>6. Separate(rest) /\ Kept(rest)
      BY <1>u, <2>2, <2>3, <2>5 DEF Separate, Kept
    <2>7. CASE load' = [load EXCEPT ![l] = Ended(x, "error")]
      BY <1>t, <1>u, <2>2, <2>7, EndedInv, BecomesInv
    <2>8. CASE load' = [load EXCEPT ![l] = Ended(rest, "error")]
      BY <1>u, <2>2, <2>3, <2>6, <2>8, EndedInv, BecomesInv
    <2>9. CASE load' = [load EXCEPT ![l] = rest] /\ x.kind = "progressive" /\ PartOf(job) # {}
      <3>1. Working(x) /\ Covered(x)
        BY <1>v, <2>1, <2>2, <2>9, PartFacts DEF Opening
      <3>2. Covered(rest)
        <4>1. Expected(rest) = Expected(x)
          BY <2>3 DEF Expected
        <4> QED BY <2>3, <2>5, <3>1, <4>1 DEF Covered
      <3>3. InStep(rest)
        <4>1. InStep(x)
          BY <2>9, <3>1 DEF Working
        <4> QED BY <2>2, <2>3, <2>5, <4>1 DEF InStep, TheServices, TheTasks
      <3>4. Working(rest)
        <4>1. ASSUME NEW s \in x.listed
              PROVE  \/ s \in rest.gone \cup rest.found
                     \/ <<"services", ClusterOf[s]>> \in rest.bad
                     \/ \E j \in rest.jobs : Holds(j, s)
          <5>1. CASE \E j \in x.jobs : Holds(j, s)
            <6>1. PICK j \in x.jobs : Holds(j, s)
              BY <5>1
            <6> QED BY <2>3, <6>1, PartFacts
          <5> QED BY <2>3, <3>1, <5>1 DEF Working
        <4> QED BY <2>3, <3>1, <3>3, <4>1 DEF Working
      <3> QED BY <1>u, <2>2, <2>3, <2>6, <2>9, <3>2, <3>4, BecomesInv DEF LoadInv
    <2> QED BY <2>4, <2>7, <2>8, <2>9
  <1> QED BY <1>1, <1>2, <1>3, <1>4, <1>5, <1>6, <1>7, <1>8, <1>9 DEF Progress

LEMMA TickInv ==
    ASSUME TypeInv, LoadsInv, Tick
    PROVE  LoadsInv'
  <1> SUFFICES ASSUME NEW l \in Loads, load'[l] # NoLoad PROVE LoadInv(load'[l])
    BY DEF LoadsInv
  <1>1. CASE Running(l) /\ load[l].kind = "legacy"
    <2> DEFINE x == load[l]
               y == [x EXCEPT !.age = @ + 1]
    <2>1. load'[l] = y
      BY <1>1 DEF Tick
    <2>2. x \in Load /\ LoadInv(x) /\ x.kind = "legacy"
      BY <1>1 DEF TypeInv, LoaderTypeOK, LoadsInv, Running
    <2> HIDE DEF x
    <2>3. /\ y.jobs = x.jobs /\ y.kind = x.kind /\ y.step = x.step
          /\ y.clusters = x.clusters /\ y.ok = x.ok /\ y.bad = x.bad /\ y.told = x.told
          /\ y.gone = x.gone /\ y.found = x.found /\ y.listed = x.listed
      BY <2>2 DEF Load
    <2> HIDE DEF y
    <2>4. Pending(y) = Pending(x)
      BY <2>3 DEF Pending
    <2>5. Separate(y) /\ Kept(y) /\ (Complete(x) => Complete(y))
      BY <2>2, <2>3, <2>4 DEF LoadInv, Separate, Kept, Complete
    <2>6. (Opening(x) => Opening(y)) /\ (Working(x) => Working(y)) /\ Covered(y)
      BY <2>2, <2>3 DEF Opening, Working, Covered
    <2>7. LoadInv(y)
      BY <2>2, <2>3, <2>5, <2>6 DEF LoadInv
    <2> QED BY <2>1, <2>7
  <1>2. CASE ~(Running(l) /\ load[l].kind = "legacy")
    BY <1>2 DEF Tick, LoadsInv
  <1> QED BY <1>1, <1>2

LEMMA LoadsAlways == LoaderSpec => []LoadsInv
  <1>1. LoaderInit => LoadsInv
    BY DEF LoaderInit, LoadsInv
  <1>2. TypeInv /\ LoadsInv /\ [LoaderNext]_loaderVars => LoadsInv'
    <2>1. LoadsInv /\ UNCHANGED loaderVars => LoadsInv'
      BY DEF LoadsInv, loaderVars
    <2> QED BY <2>1, StartLoadInv, ProgressInv, TickInv DEF LoaderNext
  <1> QED BY <1>1, <1>2, TypeAlways, PTL DEF LoaderSpec

\* A socket is told that all its data are loaded only after the services and the tasks
\* of every cluster have been sent or have failed (generateClusterDetailsProgressive).
THEOREM CompletionComesLast == LoaderSpec => []CompletionIsLast
  <1>1. LoadsInv => CompletionIsLast
    BY DEF LoadsInv, LoadInv, Separate, Complete, CompletionIsLast
  <1> QED BY <1>1, LoadsAlways, PTL

\* No service that AWS listed and that has not gone is missing from the answer for its
\* cluster, however large the batches (getClusterServices, processBatch).
THEOREM NoServiceIsLost == LoaderSpec => []NoServiceLost
  <1>1. LoadsInv => NoServiceLost
    BY DEF LoadsInv, LoadInv, Kept, NoServiceLost
  <1> QED BY <1>1, LoadsAlways, PTL
=============================================================================
