------------------------- MODULE AutoRefreshProofs -------------------------
(***************************************************************************)
(* Proofs about AutoRefresh for every set of users, sockets and objects,   *)
(* and for all constants that satisfy the assumptions of the module.       *)
(***************************************************************************)
EXTENDS AutoRefresh, TLAPS

\* The state of one timer handle, part of OneTimer.
Timed(k) == k.timers = (IF k.timeoutId = "pending" THEN 1 ELSE 0)

\* What the steps of the scheduler leave of a ClientInfo object.
SameUser(k, l) ==
    /\ l.user = k.user
    /\ l.sockets = k.sockets
    /\ l.isAutomatic = k.isAutomatic
    /\ l.useProgressiveLoading = k.useProgressiveLoading

\* New values of the timer fields.
WithTimer(k, t, id) == [k EXCEPT !.timers = t, !.timeoutId = id]

\* They change no other field.
LEMMA WithTimerLemma ==
    ASSUME NEW k \in ClientInfo, NEW t \in Nat,
           NEW id \in {"null", "pending", "spent"}
    PROVE  /\ WithTimer(k, t, id) \in ClientInfo
           /\ WithTimer(k, t, id).timers = t
           /\ WithTimer(k, t, id).timeoutId = id
           /\ WithTimer(k, t, id).intervalTime = k.intervalTime
           /\ WithTimer(k, t, id).isExecuting = k.isExecuting
           /\ SameUser(k, WithTimer(k, t, id))
BY DEF WithTimer, ClientInfo, SameUser

\* clearTimeout leaves no pending timer and touches nothing else.
LEMMA ClearTimeoutLemma ==
    ASSUME NEW k \in ClientInfo, Timed(k)
    PROVE  /\ ClearTimeout(k) \in ClientInfo
           /\ ClearTimeout(k).timers = 0
           /\ ClearTimeout(k).timeoutId # "pending"
           /\ ClearTimeout(k).intervalTime = k.intervalTime
           /\ ClearTimeout(k).isExecuting = k.isExecuting
           /\ SameUser(k, ClearTimeout(k))
<1>1. CASE k.timeoutId = "pending"
  <2>1. k.timers = 1
    BY <1>1 DEF Timed
  <2>2. ClearTimeout(k) = WithTimer(k, 0, "spent")
    BY <1>1, <2>1 DEF ClearTimeout, WithTimer, ClientInfo
  <2> QED
    BY <2>2, WithTimerLemma
<1>2. CASE k.timeoutId # "pending"
  <2>1. ClearTimeout(k) = k /\ k.timers = 0
    BY <1>2 DEF ClearTimeout, Timed
  <2> QED
    BY <1>2, <2>1 DEF SameUser
<1> QED
  BY <1>1, <1>2

\* The same for clearTimeout followed by the assignment of null.
LEMMA ResetTimeoutLemma ==
    ASSUME NEW k \in ClientInfo, Timed(k)
    PROVE  /\ ResetTimeout(k) \in ClientInfo
           /\ ResetTimeout(k).timers = 0
           /\ ResetTimeout(k).timeoutId = "null"
           /\ ResetTimeout(k).intervalTime = k.intervalTime
           /\ ResetTimeout(k).isExecuting = k.isExecuting
           /\ SameUser(k, ResetTimeout(k))
<1> DEFINE m == ClearTimeout(k)
<1>1. /\ m \in ClientInfo
      /\ m.timers = 0
      /\ m.intervalTime = k.intervalTime
      /\ m.isExecuting = k.isExecuting
      /\ SameUser(k, m)
  BY ClearTimeoutLemma
<1>2. ResetTimeout(k) = [m EXCEPT !.timeoutId = "null"]
  BY DEF ResetTimeout
<1> HIDE DEF m
<1>3. ResetTimeout(k) = WithTimer(m, 0, "null")
  BY <1>1, <1>2 DEF WithTimer, ClientInfo
<1>4. /\ WithTimer(m, 0, "null") \in ClientInfo
      /\ WithTimer(m, 0, "null").timers = 0
      /\ WithTimer(m, 0, "null").timeoutId = "null"
      /\ WithTimer(m, 0, "null").intervalTime = m.intervalTime
      /\ WithTimer(m, 0, "null").isExecuting = m.isExecuting
      /\ SameUser(m, WithTimer(m, 0, "null"))
  BY <1>1, WithTimerLemma
<1> QED
  BY <1>1, <1>3, <1>4 DEF SameUser

\* scheduleNextExecution leaves exactly one pending timer, the one timeoutId
\* names, when the interval is positive, and does nothing otherwise.
LEMMA ScheduleLemma ==
    ASSUME NEW k \in ClientInfo, Timed(k)
    PROVE  /\ ScheduleNextExecution(k) \in ClientInfo
           /\ Timed(ScheduleNextExecution(k))
           /\ ScheduleNextExecution(k).intervalTime = k.intervalTime
           /\ ScheduleNextExecution(k).isExecuting = k.isExecuting
           /\ SameUser(k, ScheduleNextExecution(k))
           /\ k.intervalTime > 0 => ScheduleNextExecution(k).timers = 1
           /\ k.intervalTime = 0 => ScheduleNextExecution(k) = k
<1>1. k.intervalTime \in Nat
  BY DEF ClientInfo
<1>2. CASE k.intervalTime = 0
  <2>1. ScheduleNextExecution(k) = k
    BY <1>2 DEF ScheduleNextExecution
  <2> QED
    BY <2>1, <1>2 DEF SameUser
<1>3. CASE k.intervalTime > 0
  <2> DEFINE m == ResetTimeout(k)
             w == WithTimer(m, 1, "pending")
  <2>1. /\ m \in ClientInfo
        /\ m.timers = 0
        /\ m.intervalTime = k.intervalTime
        /\ m.isExecuting = k.isExecuting
        /\ SameUser(k, m)
    BY ResetTimeoutLemma
  <2>2. ScheduleNextExecution(k) =
            [m EXCEPT !.timers = @ + 1, !.timeoutId = "pending"]
    BY <1>1, <1>3 DEF ScheduleNextExecution
  <2> HIDE DEF m
  <2>3. ScheduleNextExecution(k) = w
    BY <2>1, <2>2 DEF WithTimer, ClientInfo
  <2>4. /\ w \in ClientInfo
        /\ w.timers = 1
        /\ w.timeoutId = "pending"
        /\ w.intervalTime = m.intervalTime
        /\ w.isExecuting = m.isExecuting
        /\ SameUser(m, w)
    BY <2>1, WithTimerLemma
  <2> HIDE DEF w
  <2> QED
    BY <2>1, <2>3, <2>4, <1>1, <1>3 DEF SameUser, Timed
<1> QED
  BY <1>1, <1>2, <1>3

\* A new mode changes the mode and the interval only.
WithMode(k, automatic, interval) ==
    [k EXCEPT !.isAutomatic = automatic, !.intervalTime = interval]

\* What WithMode changes and what it leaves alone.
LEMMA WithModeLemma ==
    ASSUME NEW k \in ClientInfo, NEW a \in BOOLEAN, NEW i \in Nat
    PROVE  /\ WithMode(k, a, i) \in ClientInfo
           /\ WithMode(k, a, i).isAutomatic = a
           /\ WithMode(k, a, i).intervalTime = i
           /\ WithMode(k, a, i).user = k.user
           /\ WithMode(k, a, i).sockets = k.sockets
           /\ WithMode(k, a, i).useProgressiveLoading = k.useProgressiveLoading
           /\ WithMode(k, a, i).timers = k.timers
           /\ WithMode(k, a, i).timeoutId = k.timeoutId
BY DEF WithMode, ClientInfo

\* What updateAllAutomaticClients does to one client.
LEMMA RearmLemma ==
    ASSUME NEW k \in ClientInfo, Timed(k), NEW i \in Nat \ {0}
    PROVE  LET l == ScheduleNextExecution(
                        [ClearTimeout(k) EXCEPT !.intervalTime = i])
           IN  /\ l \in ClientInfo
               /\ Timed(l)
               /\ l.timers = 1
               /\ l.intervalTime = i
               /\ SameUser(k, l)
<1> DEFINE m == ClearTimeout(k)
           w == WithMode(m, m.isAutomatic, i)
<1>1. /\ m \in ClientInfo
      /\ m.timers = 0
      /\ m.timeoutId # "pending"
      /\ SameUser(k, m)
  BY ClearTimeoutLemma
<1> HIDE DEF m
<1>2. [m EXCEPT !.intervalTime = i] = w
  BY <1>1 DEF WithMode, ClientInfo
<1>3. m.isAutomatic \in BOOLEAN
  BY <1>1 DEF ClientInfo
<1>4. /\ w \in ClientInfo
      /\ w.intervalTime = i
      /\ w.timers = m.timers
      /\ w.timeoutId = m.timeoutId
      /\ SameUser(m, w)
  BY <1>1, <1>3, WithModeLemma DEF SameUser
<1> HIDE DEF w
<1>5. Timed(w)
  BY <1>1, <1>4 DEF Timed
<1> DEFINE l == ScheduleNextExecution(w)
<1>6. /\ l \in ClientInfo
      /\ Timed(l)
      /\ l.timers = 1
      /\ l.intervalTime = i
      /\ SameUser(w, l)
  BY <1>4, <1>5, ScheduleLemma
<1>7. SameUser(k, l)
  BY <1>1, <1>4, <1>6 DEF SameUser
<1> QED
  BY <1>2, <1>6, <1>7 DEF m

----------------------------------------------------------------------------
\* The invariants that concern the objects and their timers, for any objects
\* and automatic interval; `client` and currentAutomaticInterval have them.
Good(clients, interval) ==
    /\ clients \in [Clients -> ClientInfo]
    /\ \A c \in Clients : Timed(clients[c])
    /\ \A c \in Clients : clients[c].timers > 0 => clients[c].intervalTime > 0
    /\ \A c \in Mapped :
         IF clients[c].isAutomatic
           THEN clients[c].intervalTime = interval
           ELSE clients[c].intervalTime \in ManualIntervals \cup {0}

SameUsers(clients) == \A c \in Clients : SameUser(client[c], clients[c])

\* No timer is lost: an object that had a timer, or gets an interval, has one.
TimersKept(clients) ==
    \A c \in Clients :
        /\ client[c].timers > 0 => clients[c].timers > 0
        /\ clients[c].intervalTime > 0 =>
               client[c].intervalTime > 0 \/ clients[c].timers > 0

\* The inductive invariant.
IInv ==
    /\ TypeOK
    /\ OneTimer
    /\ TimerHasInterval
    /\ SharedInterval
    /\ IntervalInBounds
    /\ MapMirrorsSockets

\* Good is the conjunction of three of the invariants.
LEMMA GoodLemma ==
    ASSUME client \in [Clients -> ClientInfo]
    PROVE  Good(client, currentAutomaticInterval)
               <=> OneTimer /\ TimerHasInterval /\ SharedInterval
BY DEF Good, OneTimer, TimerHasInterval, SharedInterval, Timed

\* The map holds ClientInfo objects only.
LEMMA MappedLemma == TypeOK => Mapped \subseteq Clients
BY DEF TypeOK, Mapped

\* updateAllAutomaticClients gives all connected automatic clients the new
\* interval and one timer, and keeps the others as they are.
LEMMA UpdateAllLemma ==
    ASSUME IInv, NEW i \in Nat \ {0}
    PROVE  LET new == UpdateAllAutomaticClients(client, i)
           IN  Good(new, i) /\ SameUsers(new) /\ TimersKept(new)
<1> DEFINE Rearmed(k) == ScheduleNextExecution(
                             [ClearTimeout(k) EXCEPT !.intervalTime = i])
           new == UpdateAllAutomaticClients(client, i)
           updated(c) == c \in Mapped /\ client[c].isAutomatic
<1>1. Good(client, currentAutomaticInterval) /\ client \in [Clients -> ClientInfo]
  BY GoodLemma DEF IInv, TypeOK
<1>2. \A c \in Clients :
          new[c] = IF updated(c) THEN Rearmed(client[c]) ELSE client[c]
  BY DEF UpdateAllAutomaticClients
<1>3. \A c \in Clients :
          /\ Rearmed(client[c]) \in ClientInfo
          /\ Timed(Rearmed(client[c]))
          /\ Rearmed(client[c]).timers = 1
          /\ Rearmed(client[c]).intervalTime = i
          /\ SameUser(client[c], Rearmed(client[c]))
  BY <1>1, RearmLemma DEF Good
<1> HIDE DEF Rearmed
<1>4. new \in [Clients -> ClientInfo]
  BY <1>1, <1>3 DEF UpdateAllAutomaticClients, Rearmed
<1> HIDE DEF new
<1>5. SameUsers(new)
  BY <1>2, <1>3 DEF SameUsers, SameUser
<1>6. TimersKept(new)
  BY <1>2, <1>3 DEF TimersKept
<1>7. \A c \in Clients :
          /\ Timed(new[c])
          /\ new[c].timers > 0 => new[c].intervalTime > 0
  BY <1>1, <1>2, <1>3 DEF Good
<1>8. ASSUME NEW c \in Mapped
      PROVE  IF new[c].isAutomatic
               THEN new[c].intervalTime = i
               ELSE new[c].intervalTime \in ManualIntervals \cup {0}
  <2>1. c \in Clients
    BY MappedLemma DEF IInv
  <2>2. new[c].isAutomatic = client[c].isAutomatic
    BY <1>5, <2>1 DEF SameUsers, SameUser
  <2>3. CASE client[c].isAutomatic
    BY <1>2, <1>3, <2>1, <2>2, <2>3
  <2>4. CASE ~client[c].isAutomatic
    BY <1>1, <1>2, <2>1, <2>2, <2>4 DEF Good
  <2> QED
    BY <2>3, <2>4
<1>9. Good(new, i)
  BY <1>4, <1>7, <1>8 DEF Good
<1> QED
  BY <1>5, <1>6, <1>9 DEF new

\* What executeWithHealthCheck does after its await keeps the invariants, for
\* the automatic interval it leaves.
LEMMA HealthCheckLemma ==
    ASSUME IInv, NEW c \in Clients, NEW thrown \in BOOLEAN
    PROVE  LET h == HealthCheck(c, thrown)
           IN  /\ h.interval \in MinInterval .. MaxInterval
               /\ h.count \in Nat
               /\ h.count < HealthCheckWindow
               /\ Good(h.clients, h.interval)
               /\ SameUsers(h.clients)
               /\ TimersKept(h.clients)
<1> DEFINE h == HealthCheck(c, thrown)
           ok(r) == /\ r.interval \in MinInterval .. MaxInterval
                    /\ r.count \in Nat
                    /\ r.count < HealthCheckWindow
                    /\ Good(r.clients, r.interval)
                    /\ SameUsers(r.clients)
                    /\ TimersKept(r.clients)
           same == [interval |-> currentAutomaticInterval,
                    count |-> successfulRequestsCount, clients |-> client]
           counted == [interval |-> currentAutomaticInterval,
                       count |-> successfulRequestsCount + 1,
                       clients |-> client]
<1>1. /\ client \in [Clients -> ClientInfo]
      /\ currentAutomaticInterval \in MinInterval .. MaxInterval
      /\ successfulRequestsCount \in Nat
      /\ successfulRequestsCount < HealthCheckWindow
      /\ Good(client, currentAutomaticInterval)
  BY GoodLemma DEF IInv, TypeOK, IntervalInBounds
<1>2. SameUsers(client) /\ TimersKept(client)
  BY DEF SameUsers, SameUser, TimersKept
<1>3. ASSUME NEW i \in MinInterval .. MaxInterval
      PROVE  ok(ChangeInterval(i))
  <2>1. i \in Nat \ {0} /\ 0 < HealthCheckWindow /\ 0 \in Nat
    BY IntervalAssumption
  <2>2. CASE i = currentAutomaticInterval
    <3>1. ChangeInterval(i) = [interval |-> i, count |-> 0, clients |-> client]
      BY <2>2 DEF ChangeInterval
    <3> QED
      BY <1>1, <1>2, <2>1, <2>2, <3>1
  <2>3. CASE i # currentAutomaticInterval
    <3> DEFINE new == UpdateAllAutomaticClients(client, i)
    <3>1. ChangeInterval(i) = [interval |-> i, count |-> 0, clients |-> new]
      BY <2>3 DEF ChangeInterval
    <3>2. Good(new, i) /\ SameUsers(new) /\ TimersKept(new)
      BY <2>1, UpdateAllLemma
    <3> HIDE DEF new
    <3> QED
      BY <2>1, <3>1, <3>2
  <2> QED
    BY <2>2, <2>3
<1>4. ok(IncreaseAutomaticInterval)
  <2>1. Doubled(currentAutomaticInterval) \in MinInterval .. MaxInterval
    BY <1>1, IntervalAssumption DEF Doubled
  <2> QED
    BY <1>3, <2>1 DEF IncreaseAutomaticInterval
<1>5. ok(DecreaseAutomaticInterval)
  <2>1. Halved(currentAutomaticInterval) \in MinInterval .. MaxInterval
    BY <1>1, IntervalAssumption DEF Halved
  <2> QED
    BY <1>3, <2>1 DEF DecreaseAutomaticInterval
<1>6. ok(same)
  BY <1>1, <1>2
<1>7. successfulRequestsCount + 1 < HealthCheckWindow => ok(counted)
  BY <1>1, <1>2
<1>8. \/ h = same
      \/ h = IncreaseAutomaticInterval
      \/ h = DecreaseAutomaticInterval
      \/ h = counted /\ successfulRequestsCount + 1 < HealthCheckWindow
  BY <1>1, IntervalAssumption DEF HealthCheck
<1> HIDE DEF h, same, counted
<1>9. ok(h)
  BY <1>4, <1>5, <1>6, <1>7, <1>8
<1> QED
  BY <1>9 DEF h

\* The end of a timer callback.
LEMMA FinishLemma ==
    ASSUME NEW k \in ClientInfo, Timed(k)
    PROVE  LET l == FinishExecution(k)
           IN  /\ l \in ClientInfo
               /\ Timed(l)
               /\ l.intervalTime = k.intervalTime
               /\ SameUser(k, l)
               /\ l.timers > 0 => k.timers > 0 \/ k.intervalTime > 0
               /\ k.timers > 0 => l.timers > 0
               /\ connectedClients[k.user] # NoClient /\ k.intervalTime > 0
                      => l.timers > 0
<1> DEFINE done == [k EXCEPT !.isExecuting = FALSE]
           l == FinishExecution(k)
<1>1. /\ done \in ClientInfo
      /\ done.timers = k.timers
      /\ done.timeoutId = k.timeoutId
      /\ done.intervalTime = k.intervalTime
      /\ done.user = k.user
      /\ SameUser(k, done)
  BY DEF ClientInfo, SameUser
<1>2. l = IF connectedClients[k.user] # NoClient
            THEN ScheduleNextExecution(done) ELSE done
  BY DEF FinishExecution
<1> HIDE DEF done, l
<1>3. Timed(done)
  BY <1>1 DEF Timed
<1> DEFINE m == ScheduleNextExecution(done)
<1>4. /\ m \in ClientInfo
      /\ Timed(m)
      /\ m.intervalTime = done.intervalTime
      /\ SameUser(done, m)
      /\ done.intervalTime > 0 => m.timers = 1
      /\ done.intervalTime = 0 => m = done
  BY <1>1, <1>3, ScheduleLemma
<1> HIDE DEF m
<1>5. SameUser(k, m)
  BY <1>1, <1>4 DEF SameUser
<1>6. k.intervalTime \in Nat
  BY DEF ClientInfo
<1>7. CASE connectedClients[k.user] # NoClient
  <2>1. l = m
    BY <1>2, <1>7 DEF m
  <2> QED
    BY <1>1, <1>4, <1>5, <1>6, <2>1 DEF l
<1>8. CASE connectedClients[k.user] = NoClient
  <2>1. l = done
    BY <1>2, <1>8
  <2> QED
    BY <1>1, <1>3, <1>6, <1>8, <2>1 DEF l
<1> QED
  BY <1>7, <1>8

\* What is left after one more socket, or after the end of the callback: the
\* invariants, and an execution or a timer that will go on.
Advanced(e, c, clients, i) ==
    /\ Good(client', i)
    /\ SameUsers(client')
    /\ exec' \in [Execs -> Execution \cup {Idle}]
    /\ \A d \in Clients :
          /\ client'[d].intervalTime = clients[d].intervalTime
          /\ clients[d].timers > 0 => client'[d].timers > 0
    /\ \/ exec'[e] # Idle /\ exec'[e].kind = "timer" /\ exec'[e].client = c
       \/ connectedClients[client[c].user] # NoClient
             /\ clients[c].intervalTime > 0 => client'[c].timers > 0
    /\ \A x \in Execs \ {e} : exec'[x] = exec[x]

\* One more socket, or the end of the callback.
LEMMA NextSocketLemma ==
    ASSUME TypeOK,
           NEW e \in Execs, NEW c \in Clients,
           NEW clients, NEW i, Good(clients, i), SameUsers(clients),
           NEW todo \in SUBSET Sockets, NEW shared \in BOOLEAN,
           NextSocket(e, c, clients, todo, shared)
    PROVE  Advanced(e, c, clients, i)
<1>1. /\ clients \in [Clients -> ClientInfo]
      /\ \A d \in Clients : Timed(clients[d])
      /\ \A d \in Clients :
            clients[d].timers > 0 => clients[d].intervalTime > 0
  BY DEF Good
<1>2. exec \in [Execs -> Execution \cup {Idle}]
  BY DEF TypeOK
<1>3. CASE todo \cap connected = {}
  <2> DEFINE l == FinishExecution(clients[c])
  <2>1. /\ exec' = [exec EXCEPT ![e] = Idle]
        /\ client' = [clients EXCEPT ![c] = l]
    BY <1>3 DEF NextSocket
  <2>2. /\ l \in ClientInfo
        /\ Timed(l)
        /\ l.intervalTime = clients[c].intervalTime
        /\ SameUser(clients[c], l)
        /\ l.timers > 0 => clients[c].timers > 0 \/ clients[c].intervalTime > 0
        /\ clients[c].timers > 0 => l.timers > 0
        /\ connectedClients[clients[c].user] # NoClient
              /\ clients[c].intervalTime > 0 => l.timers > 0
    BY <1>1, FinishLemma
  <2> HIDE DEF l
  <2>3. /\ client' \in [Clients -> ClientInfo]
        /\ client'[c] = l
        /\ \A d \in Clients : d # c => client'[d] = clients[d]
    BY <1>1, <2>1, <2>2
  <2>4. Good(client', i)
    <3>1. l.timers > 0 => l.intervalTime > 0
      BY <1>1, <2>2
    <3>2. \A d \in Clients : Timed(client'[d])
      BY <1>1, <2>2, <2>3
    <3>3. \A d \in Clients : client'[d].timers > 0 => client'[d].intervalTime > 0
      BY <1>1, <2>3, <3>1
    <3>4. \A d \in Clients :
              /\ client'[d].intervalTime = clients[d].intervalTime
              /\ client'[d].isAutomatic = clients[d].isAutomatic
      BY <2>2, <2>3 DEF SameUser
    <3>5. Mapped \subseteq Clients
      BY MappedLemma
    <3> QED
      BY <2>3, <3>2, <3>3, <3>4, <3>5 DEF Good
  <2>5. SameUsers(client')
    BY <2>2, <2>3 DEF SameUsers, SameUser
  <2>6. clients[c].user = client[c].user
    BY DEF SameUsers, SameUser
  <2>7. exec' \in [Execs -> Execution \cup {Idle}]
    BY <1>2, <2>1
  <2>8. \A x \in Execs \ {e} : exec'[x] = exec[x]
    BY <1>2, <2>1
  <2> QED
    BY <2>2, <2>3, <2>4, <2>5, <2>6, <2>7, <2>8 DEF Advanced
<1>4. CASE todo \cap connected # {}
  <2>1. client' = clients
    BY <1>4 DEF NextSocket
  <2>2. PICK s \in todo \cap connected :
            exec' = [exec EXCEPT ![e] =
                [kind |-> "timer", client |-> c, socket |-> s,
                 todo |-> (todo \cap connected) \ {s}, shared |-> shared,
                 progressive |-> clients[c].useProgressiveLoading]]
    BY <1>4 DEF NextSocket
  <2> DEFINE x == [kind |-> "timer", client |-> c, socket |-> s,
                   todo |-> (todo \cap connected) \ {s}, shared |-> shared,
                   progressive |-> clients[c].useProgressiveLoading]
  <2>3. clients[c].useProgressiveLoading \in BOOLEAN
    BY <1>1 DEF ClientInfo
  <2>4. x \in Execution /\ x.kind = "timer" /\ x.client = c
    BY <2>3 DEF Execution
  <2>5. x # Idle
    BY <2>4, IdleAssumption
  <2>6. exec' = [exec EXCEPT ![e] = x]
    BY <2>2
  <2> HIDE DEF x
  <2>7. /\ exec' \in [Execs -> Execution \cup {Idle}]
        /\ exec'[e] = x
        /\ \A y \in Execs \ {e} : exec'[y] = exec[y]
    BY <1>2, <2>4, <2>6
  <2> QED
    BY <2>1, <2>4, <2>5, <2>7 DEF Advanced
<1> QED
  BY <1>3, <1>4

----------------------------------------------------------------------------
\* The steps preserve the invariant.

\* The steps that leave users, sockets and the map alone.
LEMMA SameMapLemma ==
    ASSUME IInv,
           UNCHANGED <<connectedClients, connected>>,
           Good(client', currentAutomaticInterval'),
           SameUsers(client'),
           currentAutomaticInterval' \in MinInterval .. MaxInterval,
           successfulRequestsCount' \in Nat,
           successfulRequestsCount' < HealthCheckWindow,
           exec' \in [Execs -> Execution \cup {Idle}]
    PROVE  IInv'
<1>1. Mapped' = Mapped
  BY DEF Mapped
<1>2. client' \in [Clients -> ClientInfo]
  BY DEF Good
<1>3. currentAutomaticInterval' \in Nat
  BY IntervalAssumption
<1>4. TypeOK'
  BY <1>2, <1>3 DEF TypeOK, IInv
<1>5. (OneTimer /\ TimerHasInterval /\ SharedInterval)'
  BY <1>1 DEF Good, OneTimer, TimerHasInterval, SharedInterval, Timed
<1>6. IntervalInBounds'
  BY DEF IntervalInBounds
<1>7. \A c \in Clients : client'[c].user = client[c].user
                          /\ client'[c].sockets = client[c].sockets
  BY DEF SameUsers, SameUser
<1>8. \A u \in Users : connectedClients[u] # NoClient =>
          connectedClients[u] \in Clients
  BY DEF IInv, TypeOK
<1>9. MapMirrorsSockets'
  BY <1>1, <1>7, <1>8 DEF MapMirrorsSockets, IInv
<1> QED
  BY <1>4, <1>5, <1>6, <1>9 DEF IInv

\* The firing of a timer keeps the invariant; its client is running or armed
\* again afterwards.
LEMMA TimerFiresLemma ==
    ASSUME IInv, NEW c \in Clients, NEW e \in Execs, TimerFires(c, e)
    PROVE  /\ IInv'
           /\ \A d \in Clients :
                 /\ client'[d].intervalTime = client[d].intervalTime
                 /\ d # c /\ client[d].timers > 0 => client'[d].timers > 0
           /\ \/ exec'[e] # Idle /\ exec'[e].kind = "timer" /\ exec'[e].client = c
              \/ connectedClients[client[c].user] # NoClient
                    /\ client[c].intervalTime > 0 => client'[c].timers > 0
           /\ \A x \in Execs \ {e} : exec'[x] = exec[x]
<1>1. Good(client, currentAutomaticInterval) /\ client \in [Clients -> ClientInfo]
  BY GoodLemma DEF IInv, TypeOK
<1> DEFINE old == client[c]
           k == [old EXCEPT !.timers = @ - 1, !.timeoutId = "spent"]
           w == WithTimer(old, 0, "spent")
           x == [w EXCEPT !.isExecuting = TRUE]
           clients == [client EXCEPT ![c] = x]
<1>2. /\ old \in ClientInfo
      /\ Timed(old)
      /\ old.timers > 0 => old.intervalTime > 0
  BY <1>1 DEF Good
<1> HIDE DEF old
<1>3. old.timeoutId = "pending" /\ old.timers = 1
  BY <1>2 DEF TimerFires, Timed, old
<1>4. PICK named \in BOOLEAN :
          /\ IF named THEN old.timeoutId = "pending"
                      ELSE old.timers > (IF old.timeoutId = "pending" THEN 1 ELSE 0)
          /\ LET l == [old EXCEPT !.timers = @ - 1,
                                  !.timeoutId = IF named THEN "spent" ELSE @]
             IN  IF l.intervalTime <= 0
                   THEN client' = [client EXCEPT ![c] = l] /\ UNCHANGED exec
                   ELSE NextSocket(e, c,
                           [client EXCEPT ![c] = [l EXCEPT !.isExecuting = TRUE]],
                           l.sockets, TRUE)
  BY DEF TimerFires, old
<1>5. named = TRUE
  BY <1>3, <1>4
<1>6. k = w
  BY <1>2, <1>3 DEF ClientInfo, WithTimer
<1>7. /\ w \in ClientInfo
      /\ w.timers = 0
      /\ w.timeoutId = "spent"
      /\ w.intervalTime = old.intervalTime
      /\ SameUser(old, w)
  BY <1>2, WithTimerLemma
<1> HIDE DEF w
<1>8. /\ x \in ClientInfo
      /\ x.timers = 0
      /\ x.timeoutId = "spent"
      /\ x.intervalTime = w.intervalTime
      /\ SameUser(w, x)
  BY <1>7 DEF ClientInfo, SameUser
<1>9. NextSocket(e, c, clients, w.sockets, TRUE)
  <2>1. ~(k.intervalTime <= 0)
    BY <1>2, <1>3, <1>6, <1>7 DEF ClientInfo
  <2>2. NextSocket(e, c, [client EXCEPT ![c] = [k EXCEPT !.isExecuting = TRUE]],
                   k.sockets, TRUE)
    BY <1>4, <1>5, <2>1
  <2> QED
    BY <1>6, <2>2
<1> HIDE DEF x, k
<1>10. Timed(x) /\ SameUser(old, x) /\ x.intervalTime = old.intervalTime
  BY <1>7, <1>8 DEF Timed, SameUser
<1>11. /\ clients \in [Clients -> ClientInfo]
      /\ clients[c] = x
      /\ \A d \in Clients : d # c => clients[d] = client[d]
  BY <1>1, <1>8
<1> HIDE DEF clients
<1>12. Mapped \subseteq Clients
  BY MappedLemma DEF IInv
<1>13. \A d \in Clients :
          /\ clients[d].intervalTime = client[d].intervalTime
          /\ clients[d].isAutomatic = client[d].isAutomatic
  BY <1>10, <1>11 DEF SameUser, old
<1>14. Good(clients, currentAutomaticInterval)
  BY <1>1, <1>8, <1>10, <1>11, <1>12, <1>13 DEF Good
<1>15. SameUsers(clients)
  BY <1>10, <1>11 DEF SameUsers, SameUser, old
<1>16. w.sockets \in SUBSET Sockets
  BY <1>7 DEF ClientInfo
<1>17. UNCHANGED <<currentAutomaticInterval, successfulRequestsCount,
                   connectedClients, connected>>
  BY DEF TimerFires
<1>18. TypeOK /\ IntervalInBounds
  BY DEF IInv
<1>19. Advanced(e, c, clients, currentAutomaticInterval)
  BY <1>9, <1>14, <1>15, <1>16, <1>18, NextSocketLemma
<1>20. IInv'
  BY <1>17, <1>18, <1>19, SameMapLemma DEF IntervalInBounds, TypeOK, Advanced
<1> QED
  BY <1>11, <1>13, <1>19, <1>20 DEF Advanced

\* The end of an await keeps the invariant, and never leaves a client that had
\* a timer without one.
LEMMA CompleteLemma ==
    ASSUME IInv, NEW e \in Execs, NEW ok \in BOOLEAN, Complete(e, ok)
    PROVE  /\ IInv'
           /\ \A d \in Clients :
                 /\ client[d].timers > 0 => client'[d].timers > 0
                 /\ client'[d].intervalTime > 0 =>
                       client[d].intervalTime > 0 \/ client'[d].timers > 0
           /\ exec[e].kind = "timer" =>
                 \/ /\ exec'[e] # Idle
                    /\ exec'[e].kind = "timer"
                    /\ exec'[e].client = exec[e].client
                 \/ connectedClients[client[exec[e].client].user] # NoClient
                       /\ client'[exec[e].client].intervalTime > 0
                       => client'[exec[e].client].timers > 0
           /\ \A x \in Execs \ {e} : exec'[x] = exec[x]
<1> DEFINE x == exec[e]
           h == HealthCheck(x.client, ~ok /\ ~x.progressive)
<1>1. /\ x \in Execution
      /\ x.client \in Clients
      /\ x.todo \in SUBSET Sockets
      /\ x.shared \in BOOLEAN
      /\ x.kind \in {"timer", "initial", "request"}
  BY DEF IInv, TypeOK, Complete, Execution
<1>2. /\ h.interval \in MinInterval .. MaxInterval
      /\ h.count \in Nat
      /\ h.count < HealthCheckWindow
      /\ Good(h.clients, h.interval)
      /\ SameUsers(h.clients)
      /\ TimersKept(h.clients)
  <2>1. (~ok /\ ~x.progressive) \in BOOLEAN
    OBVIOUS
  <2> QED
    BY <1>1, <2>1, HealthCheckLemma
<1>3. /\ currentAutomaticInterval' = h.interval
      /\ successfulRequestsCount' = h.count
      /\ IF x.kind = "timer"
           THEN NextSocket(e, x.client, h.clients, x.todo, x.shared)
           ELSE client' = h.clients /\ exec' = [exec EXCEPT ![e] = Idle]
      /\ UNCHANGED <<connectedClients, connected>>
  BY DEF Complete
<1>4. TypeOK
  BY DEF IInv
<1> HIDE DEF h, x
<1>5. CASE x.kind = "timer"
  <2> DEFINE clients == h.clients
             i == h.interval
  <2>0. /\ Good(clients, i)
        /\ SameUsers(clients)
        /\ NextSocket(e, x.client, clients, x.todo, x.shared)
    BY <1>2, <1>3, <1>5
  <2> HIDE DEF clients, i
  <2>1. Advanced(e, x.client, clients, i)
    BY <1>1, <1>4, <2>0, NextSocketLemma
  <2>2. IInv'
    BY <1>2, <1>3, <2>1, SameMapLemma DEF i, Advanced
  <2>3. \A d \in Clients :
            /\ client[d].timers > 0 => client'[d].timers > 0
            /\ client'[d].intervalTime > 0 =>
                  client[d].intervalTime > 0 \/ client'[d].timers > 0
    BY <1>2, <2>1 DEF TimersKept, clients, Advanced
  <2> QED
    BY <1>1, <2>1, <2>2, <2>3 DEF x, Advanced
<1>6. CASE x.kind # "timer"
  <2>1. client' = h.clients /\ exec' = [exec EXCEPT ![e] = Idle]
    BY <1>3, <1>6
  <2>2. /\ exec' \in [Execs -> Execution \cup {Idle}]
        /\ \A y \in Execs \ {e} : exec'[y] = exec[y]
    BY <1>4, <2>1 DEF TypeOK
  <2>3. IInv'
    BY <1>2, <1>3, <2>1, <2>2, SameMapLemma
  <2> QED
    BY <1>2, <1>6, <2>1, <2>2, <2>3 DEF TimersKept, x
<1> QED
  BY <1>5, <1>6

\* The object of a connected user.
LEMMA MappedClientLemma ==
    ASSUME IInv, NEW s \in Sockets, s \in connected
    PROVE  LET c == connectedClients[Owner[s]]
           IN  /\ Owner[s] \in Users
               /\ c \in Clients
               /\ c \in Mapped
               /\ client[c] \in ClientInfo
               /\ client[c].user = Owner[s]
               /\ client[c].sockets = {t \in connected : Owner[t] = Owner[s]}
<1>1. Owner[s] \in Users
  BY UsersAssumption
<1>2. {t \in connected : Owner[t] = Owner[s]} # {}
  OBVIOUS
<1> QED
  BY <1>1, <1>2 DEF IInv, MapMirrorsSockets, Mapped, TypeOK

\* Handlers that replace one object c by k keep the other ones.
LEMMA ReplaceLemma ==
    ASSUME IInv, NEW c \in Clients, NEW k \in ClientInfo, Timed(k),
           k.user = client[c].user, k.sockets = client[c].sockets,
           k.timers > 0 => k.intervalTime > 0,
           IF k.isAutomatic THEN k.intervalTime = currentAutomaticInterval
                            ELSE k.intervalTime \in ManualIntervals \cup {0},
           client' = [client EXCEPT ![c] = k],
           UNCHANGED <<currentAutomaticInterval, successfulRequestsCount,
                       connectedClients, connected, exec>>
    PROVE  IInv'
<1>1. client \in [Clients -> ClientInfo] /\ TypeOK
  BY DEF IInv, TypeOK
<1>2. /\ client' \in [Clients -> ClientInfo]
      /\ client'[c] = k
      /\ \A d \in Clients : d # c => client'[d] = client[d]
  BY <1>1
<1>3. Mapped' = Mapped /\ Mapped \subseteq Clients
  BY <1>1, MappedLemma DEF Mapped
<1>4. TypeOK'
  BY <1>1, <1>2 DEF TypeOK
<1>5. OneTimer'
  BY <1>2 DEF IInv, OneTimer, Timed
<1>6. TimerHasInterval'
  BY <1>2 DEF IInv, TimerHasInterval
<1>7. SharedInterval'
  BY <1>2, <1>3 DEF IInv, SharedInterval
<1>8. IntervalInBounds'
  BY DEF IInv, IntervalInBounds
<1>9. \A d \in Clients : client'[d].user = client[d].user
                         /\ client'[d].sockets = client[d].sockets
  BY <1>2
<1>10. MapMirrorsSockets'
  <2>1. \A u \in Users : connectedClients[u] # NoClient =>
            connectedClients[u] \in Clients
    BY <1>1 DEF TypeOK
  <2> QED
    BY <1>3, <1>9, <2>1 DEF IInv, MapMirrorsSockets
<1> QED
  BY <1>4, <1>5, <1>6, <1>7, <1>8, <1>10 DEF IInv

\* TOGGLE_PROGRESSIVE_LOADING keeps the invariant.
LEMMA ToggleLemma ==
    ASSUME IInv, NEW s \in Sockets, NEW b \in BOOLEAN, ToggleProgressive(s, b)
    PROVE  IInv'
<1> DEFINE c == connectedClients[Owner[s]]
           k == client[c]
           l == [k EXCEPT !.useProgressiveLoading = b]
<1>1. c \in Clients /\ c \in Mapped /\ k \in ClientInfo
  BY MappedClientLemma DEF ToggleProgressive
<1>2. client' = [client EXCEPT ![c] = l]
  BY DEF ToggleProgressive
<1>3. /\ Timed(k)
      /\ k.timers > 0 => k.intervalTime > 0
      /\ IF k.isAutomatic THEN k.intervalTime = currentAutomaticInterval
                          ELSE k.intervalTime \in ManualIntervals \cup {0}
  BY <1>1 DEF IInv, OneTimer, TimerHasInterval, SharedInterval, Timed
<1>4. UNCHANGED <<currentAutomaticInterval, successfulRequestsCount,
                  connectedClients, connected, exec>>
  BY DEF ToggleProgressive
<1> HIDE DEF c, k
<1>5. /\ l \in ClientInfo
      /\ l.timers = k.timers
      /\ l.timeoutId = k.timeoutId
      /\ l.intervalTime = k.intervalTime
      /\ l.isAutomatic = k.isAutomatic
      /\ l.user = k.user
      /\ l.sockets = k.sockets
  BY <1>1 DEF ClientInfo
<1> HIDE DEF l
<1>6. l.user = client[c].user /\ l.sockets = client[c].sockets /\ Timed(l)
  BY <1>3, <1>5 DEF k, Timed
<1> QED
  BY <1>1, <1>2, <1>3, <1>4, <1>5, <1>6, ReplaceLemma

\* INTERVAL_SET leaves a timer exactly when it leaves an interval, but for an
\* interval it rejects.
LEMMA IntervalSetLemma ==
    ASSUME IInv, NEW s \in Sockets, NEW mode \in Int, IntervalSet(s, mode)
    PROVE  LET c == connectedClients[Owner[s]]
           IN  /\ IInv'
               /\ c \in Clients
               /\ \A d \in Clients : d # c => client'[d] = client[d]
               /\ mode \in {0, -1} \cup ManualIntervals
                     /\ client'[c].intervalTime > 0 => client'[c].timers > 0
<1> DEFINE c == connectedClients[Owner[s]]
           k == client[c]
           reset == ResetTimeout(k)
<1>1. c \in Clients /\ c \in Mapped /\ k \in ClientInfo
  BY MappedClientLemma DEF IntervalSet
<1>2. /\ client \in [Clients -> ClientInfo]
      /\ Timed(k)
      /\ IF k.isAutomatic THEN k.intervalTime = currentAutomaticInterval
                          ELSE k.intervalTime \in ManualIntervals \cup {0}
      /\ currentAutomaticInterval \in Nat \ {0}
  BY <1>1, IntervalAssumption
     DEF IInv, TypeOK, OneTimer, SharedInterval, Timed, IntervalInBounds
<1>3. UNCHANGED <<currentAutomaticInterval, successfulRequestsCount,
                  connectedClients, connected, exec>>
  BY DEF IntervalSet
<1>4. \/ /\ mode = 0
         /\ client' = [client EXCEPT ![c] = WithMode(reset, FALSE, 0)]
      \/ /\ mode = -1
         /\ client' = [client EXCEPT ![c] = ScheduleNextExecution(
                 WithMode(reset, TRUE, currentAutomaticInterval))]
      \/ /\ mode \in ManualIntervals
         /\ client' = [client EXCEPT ![c] =
                 ScheduleNextExecution(WithMode(reset, FALSE, mode))]
      \/ /\ mode \notin {0, -1} \cup ManualIntervals
         /\ client' = [client EXCEPT ![c] = reset]
  BY DEF IntervalSet, WithMode, ValidateManualInterval
<1>5. /\ reset \in ClientInfo
      /\ reset.timers = 0
      /\ reset.timeoutId = "null"
      /\ reset.intervalTime = k.intervalTime
      /\ SameUser(k, reset)
  BY <1>1, <1>2, ResetTimeoutLemma
<1> HIDE DEF reset
<1>6. ASSUME NEW a \in BOOLEAN, NEW i \in Nat
      PROVE  LET w == WithMode(reset, a, i)
                 l == ScheduleNextExecution(w)
             IN  /\ w \in ClientInfo /\ l \in ClientInfo
                 /\ Timed(w) /\ Timed(l)
                 /\ w.isAutomatic = a /\ l.isAutomatic = a
                 /\ w.intervalTime = i /\ l.intervalTime = i
                 /\ w.timers = 0
                 /\ i > 0 => l.timers = 1
                 /\ w.user = k.user /\ l.user = k.user
                 /\ w.sockets = k.sockets /\ l.sockets = k.sockets
  <2> DEFINE w == WithMode(reset, a, i)
             l == ScheduleNextExecution(w)
  <2>1. /\ w \in ClientInfo
        /\ w.isAutomatic = a
        /\ w.intervalTime = i
        /\ w.user = reset.user
        /\ w.sockets = reset.sockets
        /\ w.timers = reset.timers
        /\ w.timeoutId = reset.timeoutId
    BY <1>5, WithModeLemma
  <2> HIDE DEF w
  <2>2. Timed(w)
    BY <1>5, <2>1 DEF Timed
  <2>3. /\ l \in ClientInfo
        /\ Timed(l)
        /\ l.intervalTime = w.intervalTime
        /\ SameUser(w, l)
        /\ w.intervalTime > 0 => l.timers = 1
    BY <2>1, <2>2, ScheduleLemma
  <2> HIDE DEF l
  <2>4. /\ w.user = k.user /\ l.user = k.user
        /\ w.sockets = k.sockets /\ l.sockets = k.sockets
        /\ l.isAutomatic = a
    BY <1>5, <2>1, <2>3 DEF SameUser
  <2>5. w.timers = 0 /\ l.intervalTime = i /\ (i > 0 => l.timers = 1)
    BY <1>5, <2>1, <2>3
  <2> QED
    BY <2>1, <2>2, <2>3, <2>4, <2>5 DEF w, l
\* It is enough to look at the object that replaces client[c].
<1> DEFINE fits(l) ==
               /\ l \in ClientInfo
               /\ Timed(l)
               /\ l.user = k.user
               /\ l.sockets = k.sockets
               /\ l.timers > 0 => l.intervalTime > 0
               /\ IF l.isAutomatic
                    THEN l.intervalTime = currentAutomaticInterval
                    ELSE l.intervalTime \in ManualIntervals \cup {0}
<1>7. ASSUME NEW l, fits(l), client' = [client EXCEPT ![c] = l]
      PROVE  /\ IInv'
             /\ client'[c] = l
             /\ \A d \in Clients : d # c => client'[d] = client[d]
  <2>1. IInv'
    BY <1>1, <1>3, <1>7, ReplaceLemma
  <2> QED
    BY <1>1, <1>2, <1>7, <2>1
<1> DEFINE goal == /\ IInv'
                   /\ \A d \in Clients : d # c => client'[d] = client[d]
                   /\ mode \in {0, -1} \cup ManualIntervals
                        /\ client'[c].intervalTime > 0 => client'[c].timers > 0
<1> SUFFICES goal
  BY <1>1
<1> HIDE DEF c, k
<1>8. CASE mode = 0 /\ client' = [client EXCEPT ![c] = WithMode(reset, FALSE, 0)]
  <2> DEFINE l == WithMode(reset, FALSE, 0)
  <2>1. fits(l) /\ l.intervalTime = 0
    BY <1>6
  <2> HIDE DEF l, fits
  <2>2. client' = [client EXCEPT ![c] = l]
    BY <1>8 DEF l
  <2>3. client'[c] = l
    BY <1>7, <2>1, <2>2
  <2>4. ~(client'[c].intervalTime > 0)
    BY <2>1, <2>3
  <2> QED
    BY <1>7, <2>1, <2>2, <2>4
<1>9. CASE /\ mode = -1
           /\ client' = [client EXCEPT ![c] = ScheduleNextExecution(
                  WithMode(reset, TRUE, currentAutomaticInterval))]
  <2> DEFINE l == ScheduleNextExecution(
                      WithMode(reset, TRUE, currentAutomaticInterval))
  <2>0. /\ currentAutomaticInterval \in Nat
        /\ currentAutomaticInterval > 0
        /\ TRUE \in BOOLEAN
    BY <1>2
  <2>1. /\ l \in ClientInfo /\ Timed(l) /\ l.isAutomatic = TRUE
        /\ l.intervalTime = currentAutomaticInterval /\ l.timers = 1
        /\ l.user = k.user /\ l.sockets = k.sockets
    BY <1>6, <2>0
  <2> HIDE DEF l
  <2>2. client' = [client EXCEPT ![c] = l]
    BY <1>9 DEF l
  <2>3. fits(l)
    BY <2>0, <2>1
  <2> HIDE DEF fits
  <2>4. client'[c] = l
    BY <1>7, <2>2, <2>3
  <2>5. client'[c].timers > 0
    BY <2>1, <2>4
  <2> QED
    BY <1>7, <2>2, <2>3, <2>5
<1>10. CASE /\ mode \in ManualIntervals
            /\ client' = [client EXCEPT ![c] =
                   ScheduleNextExecution(WithMode(reset, FALSE, mode))]
  <2> DEFINE l == ScheduleNextExecution(WithMode(reset, FALSE, mode))
  <2>1. mode \in Nat /\ mode > 0
    BY <1>10, IntervalAssumption
  <2>2. /\ l \in ClientInfo /\ Timed(l) /\ l.isAutomatic = FALSE
        /\ l.intervalTime = mode /\ l.timers = 1
        /\ l.user = k.user /\ l.sockets = k.sockets
    BY <1>6, <2>1
  <2> HIDE DEF l
  <2>3. client' = [client EXCEPT ![c] = l]
    BY <1>10 DEF l
  <2>4. fits(l)
    BY <1>10, <2>1, <2>2
  <2> HIDE DEF fits
  <2>5. client'[c] = l
    BY <1>7, <2>3, <2>4
  <2>6. client'[c].timers > 0
    BY <2>2, <2>5
  <2> QED
    BY <1>7, <2>3, <2>4, <2>6
<1>11. CASE /\ mode \notin {0, -1} \cup ManualIntervals
            /\ client' = [client EXCEPT ![c] = reset]
  <2>1. /\ Timed(reset)
        /\ reset.user = k.user
        /\ reset.sockets = k.sockets
        /\ reset.isAutomatic = k.isAutomatic
    BY <1>5 DEF Timed, SameUser
  <2>2. fits(reset)
    BY <1>2, <1>5, <2>1
  <2> HIDE DEF fits
  <2> QED
    BY <1>7, <1>11, <2>2
<1> QED
  BY <1>4, <1>8, <1>9, <1>10, <1>11

\* The execution a handler starts.
LEMMA StartLemma ==
    ASSUME NEW kind \in {"initial", "request"}, NEW c \in Clients,
           NEW k \in ClientInfo, NEW s \in Sockets
    PROVE  /\ StartExecution(kind, c, k, s) \in Execution
           /\ StartExecution(kind, c, k, s).kind # "timer"
BY DEF StartExecution, Execution, ClientInfo

\* MANUAL_REFRESH keeps the invariant and the other executions.
LEMMA RequestRefreshLemma ==
    ASSUME IInv, NEW s \in Sockets, NEW e \in Execs, RequestRefresh(s, e)
    PROVE  /\ IInv'
           /\ exec[e] = Idle
           /\ \A x \in Execs \ {e} : exec'[x] = exec[x]
<1> DEFINE c == connectedClients[Owner[s]]
           x == StartExecution("request", c, client[c], s)
<1>1. c \in Clients /\ client[c] \in ClientInfo
  BY MappedClientLemma DEF RequestRefresh
<1>2. x \in Execution
  BY <1>1, StartLemma
<1>3. exec[e] = Idle /\ exec' = [exec EXCEPT ![e] = x]
  BY DEF RequestRefresh
<1> HIDE DEF c, x
<1>4. exec \in [Execs -> Execution \cup {Idle}]
  BY DEF IInv, TypeOK
<1>5. /\ exec' \in [Execs -> Execution \cup {Idle}]
      /\ \A y \in Execs \ {e} : exec'[y] = exec[y]
  BY <1>2, <1>3, <1>4
<1>6. UNCHANGED <<currentAutomaticInterval, successfulRequestsCount,
                  connectedClients, client, connected>>
  BY DEF RequestRefresh
<1>7. Good(client, currentAutomaticInterval) /\ SameUsers(client)
  BY GoodLemma DEF IInv, TypeOK, SameUsers, SameUser
<1>8. Good(client', currentAutomaticInterval') /\ SameUsers(client')
  BY <1>6, <1>7
<1>9. IInv'
  BY <1>5, <1>6, <1>8, SameMapLemma DEF IInv, IntervalInBounds, TypeOK
<1> QED
  BY <1>3, <1>5, <1>9

\* The first connection of a user.
LEMMA FirstConnectionLemma ==
    ASSUME IInv, NEW s \in Sockets, s \notin connected,
           NEW e \in Execs, NEW c \in Clients, Unreferenced(c),
           connectedClients[Owner[s]] = NoClient,
           connected' = connected \cup {s},
           client' = [client EXCEPT ![c] = NewClient(Owner[s], {s})],
           connectedClients' = [connectedClients EXCEPT ![Owner[s]] = c],
           exec' = [exec EXCEPT ![e] =
               StartExecution("initial", c, NewClient(Owner[s], {s}), s)],
           UNCHANGED <<currentAutomaticInterval, successfulRequestsCount>>
    PROVE  IInv'
<1> DEFINE u == Owner[s]
           k == NewClient(u, {s})
           x == StartExecution("initial", c, k, s)
<1>1. u \in Users
  BY UsersAssumption
<1>2. /\ k \in ClientInfo
      /\ k.user = u
      /\ k.sockets = {s}
      /\ k.intervalTime = 0
      /\ k.isAutomatic = FALSE
      /\ k.timers = 0
      /\ k.timeoutId = "null"
  BY <1>1 DEF NewClient, ClientInfo
<1>3. x \in Execution
  BY <1>2, StartLemma
<1> HIDE DEF x, k
<1>4. TypeOK
  BY DEF IInv
<1>5. /\ client' \in [Clients -> ClientInfo]
      /\ client'[c] = k
      /\ \A d \in Clients : d # c => client'[d] = client[d]
  BY <1>2, <1>4 DEF TypeOK, k
<1>6. /\ connectedClients' \in [Users -> Clients \cup {NoClient}]
      /\ connectedClients'[u] = c
      /\ \A v \in Users : v # u => connectedClients'[v] = connectedClients[v]
  BY <1>1, <1>4 DEF TypeOK
<1>7. exec' \in [Execs -> Execution \cup {Idle}]
  BY <1>3, <1>4 DEF TypeOK, x, k
<1>8. TypeOK'
  BY <1>4, <1>5, <1>6, <1>7 DEF TypeOK
<1>9. c \notin Mapped /\ c # NoClient
  BY ClientAssumption DEF Unreferenced
<1>10. Mapped' = Mapped \cup {c}
  <2>1. \A v \in Users : v # u => connectedClients'[v] \in {connectedClients[w] : w \in Users}
    BY <1>6
  <2>2. Mapped' \subseteq Mapped \cup {c}
    BY <1>6, <2>1 DEF Mapped
  <2>3. ASSUME NEW d \in Mapped
        PROVE  d \in Mapped'
    <3>1. PICK v \in Users : d = connectedClients[v] /\ d # NoClient
      BY DEF Mapped
    <3>2. v # u
      BY <3>1
    <3> QED
      BY <1>6, <3>1, <3>2 DEF Mapped
  <2>4. c \in Mapped'
    BY <1>1, <1>6, <1>9 DEF Mapped
  <2> QED
    BY <2>2, <2>3, <2>4
<1>11. OneTimer'
  BY <1>2, <1>5 DEF IInv, OneTimer
<1>12. TimerHasInterval'
  BY <1>2, <1>5 DEF IInv, TimerHasInterval
<1>13. SharedInterval'
  BY <1>2, <1>4, <1>5, <1>9, <1>10, MappedLemma DEF IInv, SharedInterval
<1>14. IntervalInBounds'
  BY DEF IInv, IntervalInBounds
<1>15. MapMirrorsSockets'
  <2>1. ASSUME NEW v \in Users
        PROVE  LET open == {t \in connected' : Owner[t] = v}
                   d == connectedClients'[v]
               IN  IF open = {}
                     THEN d = NoClient
                     ELSE d # NoClient /\ client'[d].user = v
                              /\ client'[d].sockets = open
    <3>1. CASE v = u
      <4>1. {t \in connected : Owner[t] = u} = {}
        BY <1>1 DEF IInv, MapMirrorsSockets
      <4>2. {t \in connected' : Owner[t] = u} = {s}
        BY <4>1
      <4> QED
        BY <1>2, <1>5, <1>6, <1>9, <3>1, <4>2
    <3>2. CASE v # u
      <4>1. {t \in connected' : Owner[t] = v} = {t \in connected : Owner[t] = v}
        BY <3>2
      <4>2. connectedClients'[v] = connectedClients[v]
        BY <1>6, <3>2
      <4>3. connectedClients[v] # NoClient =>
                connectedClients[v] \in Clients /\ connectedClients[v] # c
        BY <1>4, <1>9 DEF TypeOK, Mapped
      <4> QED
        BY <1>5, <4>1, <4>2, <4>3 DEF IInv, MapMirrorsSockets
    <3> QED
      BY <3>1, <3>2
  <2>2. \A d \in Clients \ Mapped' : client'[d].sockets = {}
    BY <1>5, <1>10 DEF IInv, MapMirrorsSockets
  <2> QED
    BY <2>1, <2>2 DEF MapMirrorsSockets
<1> QED
  BY <1>8, <1>11, <1>12, <1>13, <1>14, <1>15 DEF IInv

\* A further connection of a user, and a disconnection that leaves some: the
\* object in the map gets the new set of sockets.
LEMMA SocketsLemma ==
    ASSUME IInv, NEW s \in Sockets,
           connected' \in {connected \cup {s}, connected \ {s}},
           connectedClients[Owner[s]] # NoClient,
           NEW open,
           open = {t \in connected' : Owner[t] = Owner[s]},
           open # {},
           client' = [client EXCEPT ![connectedClients[Owner[s]]].sockets = open],
           exec' \in [Execs -> Execution \cup {Idle}],
           UNCHANGED <<currentAutomaticInterval, successfulRequestsCount,
                       connectedClients>>
    PROVE  /\ IInv'
           /\ \A d \in Clients :
                 /\ client'[d].intervalTime = client[d].intervalTime
                 /\ client'[d].timers = client[d].timers
<1> DEFINE u == Owner[s]
           c == connectedClients[u]
           k == client[c]
           l == [k EXCEPT !.sockets = open]
<1>1. u \in Users
  BY UsersAssumption
<1>2. TypeOK /\ c \in Clients /\ k \in ClientInfo /\ k.user = u
  BY <1>1 DEF IInv, TypeOK, MapMirrorsSockets
<1>3. connected' \subseteq Sockets /\ open \in SUBSET Sockets
  BY <1>2 DEF TypeOK
<1>4. /\ l \in ClientInfo
      /\ l.user = u
      /\ l.sockets = open
      /\ l.intervalTime = k.intervalTime
      /\ l.isAutomatic = k.isAutomatic
      /\ l.timers = k.timers
      /\ l.timeoutId = k.timeoutId
  BY <1>2, <1>3 DEF ClientInfo
<1> HIDE DEF l, k
<1>5. /\ client' \in [Clients -> ClientInfo]
      /\ client'[c] = l
      /\ \A d \in Clients : d # c => client'[d] = client[d]
  BY <1>2, <1>4 DEF TypeOK, l, k
<1>6. TypeOK'
  BY <1>2, <1>3, <1>5 DEF TypeOK
<1>7. Mapped' = Mapped
  BY DEF Mapped
<1>8. OneTimer'
  BY <1>4, <1>5 DEF IInv, OneTimer, k
<1>9. TimerHasInterval'
  BY <1>4, <1>5 DEF IInv, TimerHasInterval, k
<1>10. SharedInterval'
  BY <1>2, <1>4, <1>5, <1>7, MappedLemma DEF IInv, SharedInterval, k
<1>11. IntervalInBounds'
  BY DEF IInv, IntervalInBounds
<1>12. MapMirrorsSockets'
  <2>1. ASSUME NEW v \in Users
        PROVE  LET o == {t \in connected' : Owner[t] = v}
                   d == connectedClients'[v]
               IN  IF o = {}
                     THEN d = NoClient
                     ELSE d # NoClient /\ client'[d].user = v
                              /\ client'[d].sockets = o
    <3>1. CASE v = u
      BY <1>4, <1>5, <3>1
    <3>2. CASE v # u
      <4>1. {t \in connected' : Owner[t] = v} = {t \in connected : Owner[t] = v}
        BY <3>2
      <4>2. connectedClients[v] # NoClient =>
                connectedClients[v] \in Clients /\ connectedClients[v] # c
        <5>1. connectedClients[v] # NoClient =>
                  connectedClients[v] \in Clients
                  /\ client[connectedClients[v]].user = v
          BY <1>2 DEF IInv, MapMirrorsSockets, TypeOK
        <5> QED
          BY <1>2, <3>2, <5>1 DEF k
      <4> QED
        BY <1>5, <4>1, <4>2 DEF IInv, MapMirrorsSockets
    <3> QED
      BY <3>1, <3>2
  <2>2. c \in Mapped
    BY <1>1 DEF Mapped
  <2>3. \A d \in Clients \ Mapped' : client'[d].sockets = {}
    BY <1>5, <1>7, <2>2 DEF IInv, MapMirrorsSockets
  <2> QED
    BY <2>1, <2>3 DEF MapMirrorsSockets
<1>13. IInv'
  BY <1>6, <1>8, <1>9, <1>10, <1>11, <1>12 DEF IInv
<1>14. \A d \in Clients :
          /\ client'[d].intervalTime = client[d].intervalTime
          /\ client'[d].timers = client[d].timers
  BY <1>4, <1>5 DEF k
<1> QED
  BY <1>13, <1>14

\* The arrays that running callbacks hold keep their type.
LEMMA ExecLemma ==
    ASSUME TypeOK, NEW c \in Clients, NEW s \in Sockets
    PROVE  /\ Pushed(c, s) \in [Execs -> Execution \cup {Idle}]
           /\ Detached(c) \in [Execs -> Execution \cup {Idle}]
           /\ \A e \in Execs :
                 exec[e] # Idle =>
                     /\ Pushed(c, s)[e] # Idle /\ Detached(c)[e] # Idle
                     /\ Pushed(c, s)[e].kind = exec[e].kind
                     /\ Detached(c)[e].kind = exec[e].kind
                     /\ Pushed(c, s)[e].client = exec[e].client
                     /\ Detached(c)[e].client = exec[e].client
<1>1. ASSUME NEW x \in Execution
      PROVE  /\ [x EXCEPT !.todo = @ \cup {s}] \in Execution
             /\ [x EXCEPT !.todo = @ \cup {s}].kind = x.kind
             /\ [x EXCEPT !.todo = @ \cup {s}].client = x.client
             /\ [x EXCEPT !.shared = FALSE] \in Execution
             /\ [x EXCEPT !.shared = FALSE].kind = x.kind
             /\ [x EXCEPT !.shared = FALSE].client = x.client
  BY DEF Execution
<1>2. \A e \in Execs : exec[e] # Idle => exec[e] \in Execution
  BY DEF TypeOK
<1>3. ASSUME NEW e \in Execs
      PROVE  /\ Pushed(c, s)[e] \in Execution \cup {Idle}
             /\ Detached(c)[e] \in Execution \cup {Idle}
             /\ exec[e] # Idle =>
                   /\ Pushed(c, s)[e] # Idle /\ Detached(c)[e] # Idle
                   /\ Pushed(c, s)[e].kind = exec[e].kind
                   /\ Detached(c)[e].kind = exec[e].kind
                   /\ Pushed(c, s)[e].client = exec[e].client
                   /\ Detached(c)[e].client = exec[e].client
  <2> DEFINE p == [exec[e] EXCEPT !.todo = @ \cup {s}]
             q == [exec[e] EXCEPT !.shared = FALSE]
  <2>1. CASE exec[e] = Idle
    BY <2>1 DEF Pushed, Detached
  <2>2. CASE exec[e] # Idle
    <3>1. /\ p \in Execution /\ p.kind = exec[e].kind
          /\ p.client = exec[e].client
          /\ q \in Execution /\ q.kind = exec[e].kind
          /\ q.client = exec[e].client
          /\ exec[e] \in Execution
      BY <1>1, <1>2, <2>2
    <3>2. Pushed(c, s)[e] \in {p, exec[e]} /\ Detached(c)[e] \in {q, exec[e]}
      BY DEF Pushed, Detached
    <3> HIDE DEF p, q
    <3> QED
      BY <2>2, <3>1, <3>2, IdleAssumption
  <2> QED
    BY <2>1, <2>2
<1>4. /\ Pushed(c, s) = [e \in Execs |-> Pushed(c, s)[e]]
      /\ Detached(c) = [e \in Execs |-> Detached(c)[e]]
  BY DEF Pushed, Detached
<1> QED
  BY <1>3, <1>4

\* Connections and disconnections stop no refresh: what stays in the map keeps
\* its interval and its timer, and what runs goes on for the same object.
Undisturbed ==
    /\ \A d \in Mapped' :
         client'[d].intervalTime > 0 =>
             /\ d \in Mapped
             /\ client[d].intervalTime > 0
             /\ client'[d].timers = client[d].timers
    /\ \A x \in Execs :
         exec[x] # Idle =>
             /\ exec'[x] # Idle
             /\ exec'[x].kind = exec[x].kind
             /\ exec'[x].client = exec[x].client

\* A connection keeps the invariant and the running timer callbacks.
LEMMA ConnectLemma ==
    ASSUME IInv, NEW s \in Sockets, NEW e \in Execs, Connect(s, e)
    PROVE  IInv' /\ Undisturbed
<1> DEFINE u == Owner[s]
<1>1. /\ u \in Users
      /\ TypeOK
      /\ exec \in [Execs -> Execution \cup {Idle}]
      /\ client \in [Clients -> ClientInfo]
  BY UsersAssumption DEF IInv, TypeOK
<1>2. /\ s \notin connected
      /\ exec[e] = Idle
      /\ connected' = connected \cup {s}
      /\ UNCHANGED <<currentAutomaticInterval, successfulRequestsCount>>
  BY DEF Connect
<1>3. CASE connectedClients[u] = NoClient
  <2>1. PICK c \in Clients :
            /\ Unreferenced(c)
            /\ client' = [client EXCEPT ![c] = NewClient(u, {s})]
            /\ connectedClients' = [connectedClients EXCEPT ![u] = c]
            /\ exec' = [exec EXCEPT ![e] =
                   StartExecution("initial", c, NewClient(u, {s}), s)]
    BY <1>3 DEF Connect
  <2>2. IInv'
    BY <1>2, <1>3, <2>1, FirstConnectionLemma
  <2>3. \A x \in Execs : exec[x] # Idle => exec'[x] = exec[x]
    BY <1>1, <1>2, <2>1
  <2>4. client'[c].intervalTime = 0
    BY <1>1, <2>1 DEF NewClient
  <2>5. \A d \in Clients : d # c => client'[d] = client[d]
    BY <1>1, <2>1
  <2>6. ASSUME NEW d \in Mapped', d # c
        PROVE  d \in Mapped /\ d \in Clients
    <3>1. PICK v \in Users : d = connectedClients'[v] /\ d # NoClient
      BY DEF Mapped
    <3>2. v # u /\ connectedClients'[v] = connectedClients[v]
      BY <1>1, <2>1, <2>6, <3>1 DEF TypeOK
    <3> QED
      BY <1>1, <3>1, <3>2, MappedLemma DEF Mapped
  <2>7. \A d \in Mapped' :
            client'[d].intervalTime > 0 =>
                /\ d \in Mapped
                /\ client[d].intervalTime > 0
                /\ client'[d].timers = client[d].timers
    BY <2>4, <2>5, <2>6
  <2> QED
    BY <2>2, <2>3, <2>7 DEF Undisturbed
<1>4. CASE connectedClients[u] # NoClient
  <2> DEFINE c == connectedClients[u]
             open == {t \in connected' : Owner[t] = u}
             x == StartExecution("initial", c, client[c], s)
  <2>1. /\ client' = [client EXCEPT ![c].sockets = @ \cup {s}]
        /\ exec' = [Pushed(c, s) EXCEPT ![e] = x]
        /\ UNCHANGED connectedClients
    BY <1>4 DEF Connect
  <2>2. /\ c \in Clients
        /\ client[c] \in ClientInfo
        /\ client[c].sockets = {t \in connected : Owner[t] = u}
    BY <1>1, <1>4 DEF IInv, TypeOK, MapMirrorsSockets
  <2>3. client[c].sockets \cup {s} = open
    BY <1>2, <2>2
  <2>4. client' = [client EXCEPT ![c].sockets = open]
    BY <2>1, <2>3
  <2>5. x \in Execution
    BY <2>2, StartLemma
  <2>6. /\ exec' \in [Execs -> Execution \cup {Idle}]
        /\ \A y \in Execs \ {e} : exec'[y] = Pushed(c, s)[y]
    <3> HIDE DEF x, c
    <3> QED
      BY <1>1, <2>1, <2>2, <2>5, ExecLemma
  <2>7. open # {} /\ open = {t \in connected' : Owner[t] = Owner[s]}
    BY <1>2
  <2>8. connected' \in {connected \cup {s}, connected \ {s}}
    BY <1>2
  <2> HIDE DEF open
  <2>9. /\ IInv'
        /\ \A d \in Clients :
              /\ client'[d].intervalTime = client[d].intervalTime
              /\ client'[d].timers = client[d].timers
    BY <1>2, <1>4, <2>1, <2>4, <2>6, <2>7, <2>8, SocketsLemma
  <2>10. Mapped' = Mapped /\ Mapped \subseteq Clients
    BY <1>1, <2>1, MappedLemma DEF Mapped
  <2>11. \A y \in Execs : exec[y] # Idle => y # e
    BY <1>2
  <2>12. \A y \in Execs :
            exec[y] # Idle =>
                /\ exec'[y] # Idle
                /\ exec'[y].kind = exec[y].kind
                /\ exec'[y].client = exec[y].client
    <3> HIDE DEF c
    <3> QED
      BY <1>1, <2>2, <2>6, <2>11, ExecLemma
  <2> QED
    BY <2>9, <2>10, <2>12 DEF Undisturbed
<1> QED
  BY <1>3, <1>4

\* A user's last socket closes.
LEMMA LastDisconnectionLemma ==
    ASSUME IInv, NEW s \in Sockets, s \in connected,
           connected' = connected \ {s},
           NEW c, c = connectedClients[Owner[s]],
           client[c].sockets \ {s} = {},
           client' = [client EXCEPT ![c] =
               [ClearTimeout(client[c]) EXCEPT !.sockets = {}]],
           connectedClients' = [connectedClients EXCEPT ![Owner[s]] = NoClient],
           exec' \in [Execs -> Execution \cup {Idle}],
           UNCHANGED <<currentAutomaticInterval, successfulRequestsCount>>
    PROVE  /\ IInv'
           /\ \A d \in Mapped' : d \in Mapped /\ client'[d] = client[d]
<1> DEFINE u == Owner[s]
           k == client[c]
           m == ClearTimeout(k)
           l == [m EXCEPT !.sockets = {}]
<1>1. /\ u \in Users
      /\ TypeOK
      /\ c \in Clients /\ c \in Mapped
      /\ k \in ClientInfo /\ k.user = u
      /\ k.sockets = {t \in connected : Owner[t] = u}
  BY MappedClientLemma DEF IInv
<1>2. Timed(k)
  BY <1>1 DEF IInv, OneTimer, Timed
<1>3. /\ m \in ClientInfo
      /\ m.timers = 0
      /\ m.timeoutId # "pending"
      /\ SameUser(k, m)
  BY <1>1, <1>2, ClearTimeoutLemma
<1> HIDE DEF m
<1>4. /\ l \in ClientInfo
      /\ l.timers = 0
      /\ l.timeoutId # "pending"
      /\ l.user = u
      /\ l.sockets = {}
  BY <1>1, <1>3 DEF ClientInfo, SameUser
<1> HIDE DEF l
<1>5. /\ client' \in [Clients -> ClientInfo]
      /\ client'[c] = l
      /\ \A d \in Clients : d # c => client'[d] = client[d]
  BY <1>1, <1>4 DEF TypeOK, l, m, k
<1>6. /\ connectedClients' \in [Users -> Clients \cup {NoClient}]
      /\ connectedClients'[u] = NoClient
      /\ \A v \in Users : v # u => connectedClients'[v] = connectedClients[v]
  BY <1>1 DEF TypeOK
<1>7. TypeOK'
  BY <1>1, <1>5, <1>6 DEF TypeOK
<1>8. \A v \in Users : v # u /\ connectedClients[v] # NoClient =>
          connectedClients[v] \in Clients /\ connectedClients[v] # c
  BY <1>1 DEF IInv, MapMirrorsSockets, TypeOK
<1>9. \A d \in Mapped' : d \in Mapped /\ d # c /\ d \in Clients
  <2>1. SUFFICES ASSUME NEW d \in Mapped'
                 PROVE  d \in Mapped /\ d # c /\ d \in Clients
    OBVIOUS
  <2>2. PICK v \in Users : d = connectedClients'[v] /\ d # NoClient
    BY DEF Mapped
  <2>3. v # u
    BY <1>6, <2>2
  <2> QED
    BY <1>6, <1>8, <2>2, <2>3 DEF Mapped
<1>10. \A d \in Mapped : d # c => d \in Mapped'
  <2>1. SUFFICES ASSUME NEW d \in Mapped, d # c
                 PROVE  d \in Mapped'
    OBVIOUS
  <2>2. PICK v \in Users : d = connectedClients[v] /\ d # NoClient
    BY DEF Mapped
  <2>3. v # u
    BY <2>1, <2>2
  <2> QED
    BY <1>6, <2>2, <2>3 DEF Mapped
<1>11. client'[c].timers = 0 /\ client'[c].timeoutId # "pending"
  BY <1>4, <1>5, Zenon
<1>12. OneTimer'
  <2>1. SUFFICES ASSUME NEW d \in Clients
                 PROVE  client'[d].timers =
                            (IF client'[d].timeoutId = "pending" THEN 1 ELSE 0)
    BY DEF OneTimer
  <2>2. CASE d = c
    BY <1>11, <2>2
  <2>3. CASE d # c
    BY <1>5, <2>3 DEF IInv, OneTimer
  <2> QED
    BY <2>2, <2>3
<1>13. TimerHasInterval'
  <2>1. SUFFICES ASSUME NEW d \in Clients
                 PROVE  client'[d].timers > 0 => client'[d].intervalTime > 0
    BY DEF TimerHasInterval
  <2>2. CASE d = c
    BY <1>11, <2>2
  <2>3. CASE d # c
    BY <1>5, <2>3 DEF IInv, TimerHasInterval
  <2> QED
    BY <2>2, <2>3
<1>14. SharedInterval'
  BY <1>5, <1>9 DEF IInv, SharedInterval
<1>15. IntervalInBounds'
  BY DEF IInv, IntervalInBounds
<1>16. MapMirrorsSockets'
  <2>1. ASSUME NEW v \in Users
        PROVE  LET o == {t \in connected' : Owner[t] = v}
                   d == connectedClients'[v]
               IN  IF o = {}
                     THEN d = NoClient
                     ELSE d # NoClient /\ client'[d].user = v
                              /\ client'[d].sockets = o
    <3>1. CASE v = u
      <4>1. {t \in connected' : Owner[t] = u} = {}
        BY <1>1
      <4> QED
        BY <1>6, <3>1, <4>1
    <3>2. CASE v # u
      <4>1. {t \in connected' : Owner[t] = v} = {t \in connected : Owner[t] = v}
        BY <3>2
      <4> QED
        BY <1>5, <1>6, <1>8, <3>2, <4>1 DEF IInv, MapMirrorsSockets
    <3> QED
      BY <3>1, <3>2
  <2>2. \A d \in Clients \ Mapped' : client'[d].sockets = {}
    BY <1>4, <1>5, <1>10 DEF IInv, MapMirrorsSockets
  <2> QED
    BY <2>1, <2>2 DEF MapMirrorsSockets
<1>17. IInv'
  BY <1>7, <1>12, <1>13, <1>14, <1>15, <1>16 DEF IInv
<1> QED
  BY <1>5, <1>9, <1>17

\* A disconnection keeps the invariant and the running timer callbacks.
LEMMA DisconnectLemma ==
    ASSUME IInv, NEW s \in Sockets, Disconnect(s)
    PROVE  IInv' /\ Undisturbed
<1> DEFINE u == Owner[s]
           c == connectedClients[u]
           remaining == client[c].sockets \ {s}
<1>1. /\ s \in connected
      /\ c # NoClient
      /\ connected' = connected \ {s}
      /\ exec' = Detached(c)
      /\ UNCHANGED <<currentAutomaticInterval, successfulRequestsCount>>
  BY DEF Disconnect
<1>2. /\ TypeOK
      /\ c \in Clients
      /\ client[c].sockets = {t \in connected : Owner[t] = u}
  BY <1>1, MappedClientLemma DEF IInv
<1>3. /\ exec' \in [Execs -> Execution \cup {Idle}]
      /\ \A y \in Execs :
            exec[y] # Idle =>
                /\ exec'[y] # Idle
                /\ exec'[y].kind = exec[y].kind
                /\ exec'[y].client = exec[y].client
  <2> HIDE DEF c
  <2> QED
    BY <1>1, <1>2, ExecLemma
<1>4. Mapped \subseteq Clients
  BY <1>2, MappedLemma
<1>5. CASE remaining = {}
  <2>1. /\ client' = [client EXCEPT ![c] =
               [ClearTimeout(client[c]) EXCEPT !.sockets = {}]]
        /\ connectedClients' = [connectedClients EXCEPT ![u] = NoClient]
    BY <1>5 DEF Disconnect
  <2>2. IInv' /\ \A d \in Mapped' : d \in Mapped /\ client'[d] = client[d]
    BY <1>1, <1>3, <1>5, <2>1, LastDisconnectionLemma
  <2> QED
    BY <1>3, <2>2 DEF Undisturbed
<1>6. CASE remaining # {}
  <2>1. /\ client' = [client EXCEPT ![c].sockets = remaining]
        /\ UNCHANGED connectedClients
    BY <1>6 DEF Disconnect
  <2>2. remaining = {t \in connected' : Owner[t] = u}
    BY <1>1, <1>2
  <2>3. connected' \in {connected \cup {s}, connected \ {s}}
    BY <1>1
  <2> HIDE DEF remaining
  <2>4. /\ IInv'
        /\ \A d \in Clients :
              /\ client'[d].intervalTime = client[d].intervalTime
              /\ client'[d].timers = client[d].timers
    BY <1>1, <1>3, <1>6, <2>1, <2>2, <2>3, SocketsLemma
  <2>5. Mapped' = Mapped
    BY <2>1 DEF Mapped
  <2> QED
    BY <1>3, <1>4, <2>4, <2>5 DEF Undisturbed
<1> QED
  BY <1>5, <1>6

----------------------------------------------------------------------------
\* The theorems.

\* The invariant holds in the initial states.
LEMMA InitLemma == Init => IInv
<1> SUFFICES ASSUME Init PROVE IInv
  OBVIOUS
<1>1. PICK cl \in [Clients -> {NewClient(u, {}) : u \in Users}] : client = cl
  BY DEF Init
<1>2. \A c \in Clients : \E u \in Users : client[c] = NewClient(u, {})
  BY <1>1
<1>3. \A u \in Users :
          /\ NewClient(u, {}) \in ClientInfo
          /\ NewClient(u, {}).timers = 0
          /\ NewClient(u, {}).timeoutId = "null"
          /\ NewClient(u, {}).sockets = {}
  BY DEF NewClient, ClientInfo
<1>4. \A c \in Clients :
          /\ client[c] \in ClientInfo
          /\ client[c].timers = 0
          /\ client[c].timeoutId = "null"
          /\ client[c].sockets = {}
  BY <1>2, <1>3
<1>5. client \in [Clients -> ClientInfo]
  BY <1>1, <1>4
<1>6. Mapped = {}
  BY DEF Init, Mapped
<1>7. TypeOK
  BY <1>5, IntervalAssumption DEF Init, TypeOK
<1>8. OneTimer /\ TimerHasInterval /\ SharedInterval
  BY <1>4, <1>6 DEF OneTimer, TimerHasInterval, SharedInterval
<1>9. IntervalInBounds
  BY IntervalAssumption DEF Init, IntervalInBounds
<1>10. MapMirrorsSockets
  BY <1>4, <1>6 DEF Init, MapMirrorsSockets
<1> QED
  BY <1>7, <1>8, <1>9, <1>10 DEF IInv

\* Every step keeps the invariant.
LEMMA StepLemma == IInv /\ [Next]_vars => IInv'
<1> SUFFICES ASSUME IInv, [Next]_vars
             PROVE  IInv'
  OBVIOUS
<1>1. ASSUME NEW s \in Sockets, NEW e \in Execs, Connect(s, e)
      PROVE  IInv'
  BY <1>1, ConnectLemma
<1>2. ASSUME NEW s \in Sockets, NEW e \in Execs, RequestRefresh(s, e)
      PROVE  IInv'
  BY <1>2, RequestRefreshLemma
<1>3. ASSUME NEW s \in Sockets, NEW b \in BOOLEAN, ToggleProgressive(s, b)
      PROVE  IInv'
  BY <1>3, ToggleLemma
<1>4. ASSUME NEW s \in Sockets, NEW mode \in RequestedModes, IntervalSet(s, mode)
      PROVE  IInv'
  <2>1. mode \in Int
    BY IntervalAssumption
  <2> QED
    BY <1>4, <2>1, IntervalSetLemma
<1>5. ASSUME NEW s \in Sockets, Disconnect(s)
      PROVE  IInv'
  BY <1>5, DisconnectLemma
<1>6. ASSUME NEW c \in Clients, NEW e \in Execs, TimerFires(c, e)
      PROVE  IInv'
  BY <1>6, TimerFiresLemma
<1>7. ASSUME NEW e \in Execs, NEW ok \in BOOLEAN, Complete(e, ok)
      PROVE  IInv'
  BY <1>7, CompleteLemma
<1>8. CASE UNCHANGED vars
  <2>1. Mapped' = Mapped
    BY <1>8 DEF vars, Mapped
  <2> QED
    BY <1>8, <2>1 DEF vars, IInv, TypeOK, OneTimer, TimerHasInterval,
       SharedInterval, IntervalInBounds, MapMirrorsSockets
<1> QED
  BY <1>1, <1>2, <1>3, <1>4, <1>5, <1>6, <1>7, <1>8
     DEF Next, UserStep, SystemStep

\* The inductive invariant holds in every reachable state.
THEOREM InvariantHolds == Spec => []IInv
BY InitLemma, StepLemma, PTL DEF Spec

\* Every variable keeps its type.
THEOREM TypeCorrect == Spec => []TypeOK
BY InvariantHolds, PTL DEF IInv

\* A ClientInfo object never has two pending timers, and its timeoutId names
\* the one it has.
THEOREM AtMostOneTimer == Spec => []OneTimer
BY InvariantHolds, PTL DEF IInv

\* Manual mode leaves no pending timer behind.
THEOREM ManualModeHasNoTimer == Spec => []TimerHasInterval
BY InvariantHolds, PTL DEF IInv

\* All connected automatic clients refresh at the one automatic interval.
THEOREM AutomaticClientsAgree == Spec => []SharedInterval
BY InvariantHolds, PTL DEF IInv

\* The back-off stays between its limits, the success window below its size.
THEOREM BackoffBounded == Spec => []IntervalInBounds
BY InvariantHolds, PTL DEF IInv

\* connectedClients mirrors the open sockets.
THEOREM MapIsExact == Spec => []MapMirrorsSockets
BY InvariantHolds, PTL DEF IInv

\* If clients send only modes the server accepts, the refresh of a connected
\* client with an interval never stalls.
THEOREM RefreshNeverStalls ==
    ASSUME RequestedModes \subseteq {0, -1} \cup ManualIntervals
    PROVE  Spec => []NeverStalls
<1> DEFINE Going(c) ==
               \/ client[c].timers > 0
               \/ \E e \in Running :
                      exec[e].kind = "timer" /\ exec[e].client = c
<1>1. Init => NeverStalls
  BY DEF Init, NeverStalls, Mapped
<1>2. IInv /\ NeverStalls /\ [Next]_vars => NeverStalls'
  <2> SUFFICES ASSUME IInv, NeverStalls, [Next]_vars,
                      NEW c \in Mapped', client'[c].intervalTime > 0
               PROVE  Going(c)'
    BY DEF NeverStalls
  <2>1. \A d \in Mapped : client[d].intervalTime > 0 => Going(d)
    BY DEF NeverStalls
  <2>2. Mapped \subseteq Clients
    BY MappedLemma DEF IInv
  <2>3. \A d \in Mapped : connectedClients[client[d].user] # NoClient
    BY DEF IInv, MapMirrorsSockets, Mapped
  \* A step after which c has an interval, its timer and its executions.
  <2>4. ASSUME c \in Mapped, client[c].intervalTime > 0,
               client[c].timers > 0 => client'[c].timers > 0,
               \A x \in Execs : exec[x] # Idle =>
                   /\ exec'[x] # Idle
                   /\ exec'[x].kind = exec[x].kind
                   /\ exec'[x].client = exec[x].client
        PROVE  Going(c)'
    BY <2>1, <2>4 DEF Running
  <2>5. ASSUME Undisturbed PROVE Going(c)'
    BY <2>4, <2>5 DEF Undisturbed
  <2>6. ASSUME NEW s \in Sockets, NEW e \in Execs, Connect(s, e)
        PROVE  Going(c)'
    BY <2>5, <2>6, ConnectLemma
  <2>7. ASSUME NEW s \in Sockets, Disconnect(s)
        PROVE  Going(c)'
    BY <2>5, <2>7, DisconnectLemma
  <2>8. ASSUME NEW s \in Sockets, NEW e \in Execs, RequestRefresh(s, e)
        PROVE  Going(c)'
    <3>1. /\ exec[e] = Idle
          /\ \A x \in Execs \ {e} : exec'[x] = exec[x]
      BY <2>8, RequestRefreshLemma
    <3>2. client' = client /\ Mapped' = Mapped
      BY <2>8 DEF RequestRefresh, Mapped
    <3> QED
      BY <2>4, <3>1, <3>2
  <2>9. ASSUME NEW s \in Sockets, NEW b \in BOOLEAN, ToggleProgressive(s, b)
        PROVE  Going(c)'
    <3> DEFINE d == connectedClients[Owner[s]]
    <3>1. d \in Clients /\ client[d] \in ClientInfo
      BY <2>9, MappedClientLemma DEF ToggleProgressive
    <3>2. /\ client' = [client EXCEPT ![d].useProgressiveLoading = b]
          /\ exec' = exec
          /\ Mapped' = Mapped
      BY <2>9 DEF ToggleProgressive, Mapped
    <3>3. client \in [Clients -> ClientInfo] /\ c \in Clients
      BY <2>2, <3>2 DEF IInv, TypeOK
    <3>4. /\ client'[c].timers = client[c].timers
          /\ client'[c].intervalTime = client[c].intervalTime
      BY <3>1, <3>2, <3>3 DEF ClientInfo
    <3> QED
      BY <2>4, <3>2, <3>4
  <2>10. ASSUME NEW s \in Sockets, NEW mode \in RequestedModes, IntervalSet(s, mode)
         PROVE  Going(c)'
    <3> DEFINE d == connectedClients[Owner[s]]
    <3>1. mode \in Int /\ mode \in {0, -1} \cup ManualIntervals
      BY IntervalAssumption
    <3>2. /\ d \in Clients
          /\ \A x \in Clients : x # d => client'[x] = client[x]
          /\ client'[d].intervalTime > 0 => client'[d].timers > 0
      BY <2>10, <3>1, IntervalSetLemma
    <3>3. exec' = exec /\ Mapped' = Mapped
      BY <2>10 DEF IntervalSet, Mapped
    <3>4. CASE c = d
      BY <3>2, <3>4
    <3>5. CASE c # d
      BY <2>2, <2>4, <3>2, <3>3, <3>5
    <3> QED
      BY <3>4, <3>5
  <2>11. ASSUME NEW d \in Clients, NEW e \in Execs, TimerFires(d, e)
         PROVE  Going(c)'
    <3>1. /\ \A x \in Clients :
                /\ client'[x].intervalTime = client[x].intervalTime
                /\ x # d /\ client[x].timers > 0 => client'[x].timers > 0
          /\ \/ exec'[e] # Idle /\ exec'[e].kind = "timer" /\ exec'[e].client = d
             \/ connectedClients[client[d].user] # NoClient
                   /\ client[d].intervalTime > 0 => client'[d].timers > 0
          /\ \A x \in Execs \ {e} : exec'[x] = exec[x]
      BY <2>11, TimerFiresLemma
    <3>2. exec[e] = Idle /\ Mapped' = Mapped
      BY <2>11 DEF TimerFires, Mapped
    <3>3. c \in Mapped /\ c \in Clients /\ client[c].intervalTime > 0
      BY <2>2, <3>1, <3>2
    <3>4. CASE c = d
      BY <2>3, <3>1, <3>3, <3>4 DEF Running
    <3>5. CASE c # d
      BY <2>4, <3>1, <3>2, <3>3, <3>5
    <3> QED
      BY <3>4, <3>5
  <2>12. ASSUME NEW e \in Execs, NEW ok \in BOOLEAN, Complete(e, ok)
         PROVE  Going(c)'
    <3> DEFINE d == exec[e].client
    <3>1. /\ \A x \in Clients :
                /\ client[x].timers > 0 => client'[x].timers > 0
                /\ client'[x].intervalTime > 0 =>
                      client[x].intervalTime > 0 \/ client'[x].timers > 0
          /\ exec[e].kind = "timer" =>
                \/ exec'[e] # Idle /\ exec'[e].kind = "timer" /\ exec'[e].client = d
                \/ connectedClients[client[d].user] # NoClient
                      /\ client'[d].intervalTime > 0 => client'[d].timers > 0
          /\ \A x \in Execs \ {e} : exec'[x] = exec[x]
      BY <2>12, CompleteLemma
    <3>2. Mapped' = Mapped
      BY <2>12 DEF Complete, Mapped
    <3>3. c \in Mapped /\ c \in Clients
      BY <2>2, <3>2
    <3>4. CASE client'[c].timers > 0
      BY <3>4
    <3>5. CASE ~(client'[c].timers > 0)
      <4>1. client[c].intervalTime > 0 /\ ~(client[c].timers > 0)
        BY <3>1, <3>3, <3>5
      <4>2. PICK x \in Running : exec[x].kind = "timer" /\ exec[x].client = c
        BY <2>1, <3>3, <4>1
      <4>3. CASE x = e
        BY <2>3, <3>1, <3>3, <3>5, <4>2, <4>3 DEF Running
      <4>4. CASE x # e
        BY <3>1, <4>2, <4>4 DEF Running
      <4> QED
        BY <4>3, <4>4
    <3> QED
      BY <3>4, <3>5
  <2>13. CASE UNCHANGED vars
    <3>1. client' = client /\ exec' = exec /\ Mapped' = Mapped
      BY <2>13 DEF vars, Mapped
    <3> QED
      BY <2>4, <3>1
  <2> QED
    BY <2>6, <2>7, <2>8, <2>9, <2>10, <2>11, <2>12, <2>13
       DEF Next, UserStep, SystemStep
<1> QED
  BY <1>1, <1>2, InvariantHolds, PTL DEF Spec
=============================================================================
