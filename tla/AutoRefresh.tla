---------------------------- MODULE AutoRefresh ----------------------------
(***************************************************************************)
(* The per-user refresh scheduler of src/config/socket.config.ts.          *)
(*                                                                         *)
(* Every authenticated user with at least one open socket has one          *)
(* ClientInfo object in connectedClients.  The object carries the refresh  *)
(* interval and the handle of a Node timer; when the timer fires the       *)
(* callback sends fresh cluster data to each socket of the user, one       *)
(* `await` per socket, and arms the timer again.  All automatic clients    *)
(* share one interval, doubled when a refresh fails and halved after       *)
(* HealthCheckWindow successes.                                            *)
(*                                                                         *)
(* Node runs one callback at a time, so an action is the code between two  *)
(* awaits.  Timer callbacks and socket handlers that are suspended in an   *)
(* await are the executions `exec`; they keep references to the ClientInfo *)
(* object and to the array of sockets they captured, which may both have   *)
(* been replaced meanwhile.                                                *)
(*                                                                         *)
(* Times are in quarter-seconds: with the constants of the code (3 s, 120  *)
(* s, factors 2 and 1/2) every value the interval takes is then a natural  *)
(* number (3, 6, .. 96, 120, 60, 30, 15, 7.5, 3.75, 3 seconds).            *)
(*                                                                         *)
(* Bounds: Clients, Sockets and Execs are finite pools.  A ClientInfo      *)
(* object or a socket is reused only when nothing refers to it any more,   *)
(* and a callback waits for a free member of Execs.                        *)
(***************************************************************************)
EXTENDS Integers, FiniteSets

CONSTANTS
    Users,
    Sockets,           \* identities of socket.io connections
    Owner,             \* [Sockets -> Users], the userId of the cookie's token
    Clients,           \* identities of ClientInfo objects
    NoClient,          \* connectedClients.get(userId) === undefined
    Execs,             \* suspended timer callbacks and socket handlers
    Idle,              \* a free member of Execs
    MinInterval,       \* AUTOMATIC_MIN_INTERVAL
    MaxInterval,       \* AUTOMATIC_MAX_INTERVAL
    DefaultInterval,   \* AUTOMATIC_DEFAULT_INTERVAL
    HealthCheckWindow, \* HEALTH_CHECK_WINDOW
    ManualIntervals,   \* ALLOWED_MANUAL_INTERVALS
    RequestedModes     \* what clients send with INTERVAL_SET: 0 is manual
                       \* mode, -1 automatic, anything else an interval

ASSUME UsersAssumption == Owner \in [Sockets -> Users]

ASSUME IntervalAssumption ==
    /\ MinInterval \in Nat \ {0}
    /\ MaxInterval \in Nat
    /\ DefaultInterval \in MinInterval .. MaxInterval
    /\ HealthCheckWindow \in Nat \ {0}
    /\ ManualIntervals \subseteq Nat \ {0}
    /\ RequestedModes \subseteq Int

ASSUME ClientAssumption == NoClient \notin Clients

VARIABLES
    currentAutomaticInterval,
    successfulRequestsCount,
    connectedClients,  \* userId -> ClientInfo object
    client,            \* the ClientInfo objects
    connected,         \* the sockets with socket.connected
    exec               \* the suspended executions

vars == <<currentAutomaticInterval, successfulRequestsCount,
          connectedClients, client, connected, exec>>

(***************************************************************************)
(* A ClientInfo object.  `user` is the userId its timer callbacks close    *)
(* over.  timeoutId is "null", or names a timer that is still pending      *)
(* ("pending") or one that has fired or was cleared ("spent").  `timers`   *)
(* counts all the pending timers whose callback closes over the object,    *)
(* those no timeoutId names included.                                      *)
(***************************************************************************)
ClientInfo ==
    [user : Users, sockets : SUBSET Sockets, intervalTime : Nat,
     isAutomatic : BOOLEAN, isExecuting : BOOLEAN,
     useProgressiveLoading : BOOLEAN,
     timeoutId : {"null", "pending", "spent"}, timers : Nat]

(***************************************************************************)
(* An execution suspended in executeWithHealthCheck(socket, client).  A    *)
(* "timer" execution still has the sockets in `todo` to visit; `shared`    *)
(* says that the array it iterates over is still client.sockets, so that a *)
(* socket pushed there is visited too.  `progressive` is the loading mode  *)
(* read before the await.  Order within the array is abstracted.           *)
(***************************************************************************)
Execution ==
    [kind : {"timer", "initial", "request"}, client : Clients,
     socket : Sockets, todo : SUBSET Sockets, shared : BOOLEAN,
     progressive : BOOLEAN]

ASSUME IdleAssumption == Idle \notin Execution

Running == {e \in Execs : exec[e] # Idle}
Mapped == {connectedClients[u] : u \in Users} \ {NoClient}

\* The object a first connection creates, in manual mode.
NewClient(u, sockets) ==
    [user |-> u, sockets |-> sockets, intervalTime |-> 0,
     isAutomatic |-> FALSE, isExecuting |-> FALSE,
     useProgressiveLoading |-> FALSE, timeoutId |-> "null", timers |-> 0]

----------------------------------------------------------------------------
\* Timers.  k is a ClientInfo object.

\* The definitions named Mutant... are faults of the code that the properties
\* below must detect; no specification uses them.

MutantClearTimeout(k) == [k EXCEPT !.timers = @ - 1, !.timeoutId = "spent"]

\* clearTimeout(k.timeoutId): harmless when the timer has fired already.
ClearTimeout(k) ==
    IF k.timeoutId = "pending"
      THEN [k EXCEPT !.timers = @ - 1, !.timeoutId = "spent"]
      ELSE k

MutantResetTimeout(k) == [k EXCEPT !.timeoutId = "null"]

\* clearTimeout and the assignment of null, under `if (k.timeoutId)`.
ResetTimeout(k) == [ClearTimeout(k) EXCEPT !.timeoutId = "null"]

MutantScheduleNextExecution(k) ==
    IF k.intervalTime <= 0
      THEN k
      ELSE [k EXCEPT !.timers = @ + 1, !.timeoutId = "pending"]

ScheduleNextExecution(k) ==
    IF k.intervalTime <= 0
      THEN k
      ELSE [ResetTimeout(k) EXCEPT !.timers = @ + 1, !.timeoutId = "pending"]

MutantUpdateAllAutomaticClients(clients, interval) ==
    [c \in Clients |->
        IF c \in Mapped /\ clients[c].isAutomatic
          THEN [clients[c] EXCEPT !.intervalTime = interval, !.timers = @ + 1,
                                  !.timeoutId = "pending"]
          ELSE clients[c]]

\* Every automatic client of the map gets the interval and a new timer.
UpdateAllAutomaticClients(clients, interval) ==
    [c \in Clients |->
        IF c \in Mapped /\ clients[c].isAutomatic
          THEN ScheduleNextExecution(
                   [ClearTimeout(clients[c]) EXCEPT !.intervalTime = interval])
          ELSE clients[c]]

----------------------------------------------------------------------------
\* Health of the automatic interval.  The operators return the new interval,
\* the new count of successes and the ClientInfo objects.

MutantChangeInterval(new) == [interval |-> new, count |-> 0, clients |-> client]

ChangeInterval(new) ==
    [interval |-> new,
     count |-> 0,
     clients |-> IF new # currentAutomaticInterval
                   THEN UpdateAllAutomaticClients(client, new)
                   ELSE client]

MutantDoubled(i) == 2 * i
MutantHalved(i) == i

Doubled(i) == IF 2 * i < MaxInterval THEN 2 * i ELSE MaxInterval
Halved(i) == IF i \div 2 > MinInterval THEN i \div 2 ELSE MinInterval

IncreaseAutomaticInterval == ChangeInterval(Doubled(currentAutomaticInterval))
DecreaseAutomaticInterval == ChangeInterval(Halved(currentAutomaticInterval))

\* What executeWithHealthCheck does for the client object c after its await.
HealthCheck(c, thrown) ==
    IF ~client[c].isAutomatic
      THEN [interval |-> currentAutomaticInterval,
            count |-> successfulRequestsCount, clients |-> client]
      ELSE IF thrown
        THEN IncreaseAutomaticInterval
        ELSE IF successfulRequestsCount + 1 >= HealthCheckWindow
          THEN DecreaseAutomaticInterval
          ELSE [interval |-> currentAutomaticInterval,
                count |-> successfulRequestsCount + 1, clients |-> client]

----------------------------------------------------------------------------
\* The timer callback.

MutantNeverArms(k) == [k EXCEPT !.isExecuting = FALSE]
MutantAlwaysArms(k) == ScheduleNextExecution([k EXCEPT !.isExecuting = FALSE])

\* The `finally` block: the timer is armed again when the user is connected.
FinishExecution(k) ==
    LET done == [k EXCEPT !.isExecuting = FALSE]
    IN  IF connectedClients[k.user] # NoClient
          THEN ScheduleNextExecution(done)
          ELSE done

\* The loop over the captured array: go on with one more connected socket of
\* todo, or leave the loop.  `clients` holds the ClientInfo objects so far.
NextSocket(e, c, clients, todo, shared) ==
    IF todo \cap connected = {}
      THEN /\ exec' = [exec EXCEPT ![e] = Idle]
           /\ client' = [clients EXCEPT ![c] = FinishExecution(clients[c])]
      ELSE /\ client' = clients
           /\ \E s \in todo \cap connected :
                exec' = [exec EXCEPT ![e] =
                    [kind |-> "timer", client |-> c, socket |-> s,
                     todo |-> (todo \cap connected) \ {s}, shared |-> shared,
                     progressive |-> clients[c].useProgressiveLoading]]

\* One of the pending timers that close over c fires: the one timeoutId names
\* or, if there are others, one of those.
TimerFires(c, e) ==
    /\ exec[e] = Idle
    /\ \E named \in BOOLEAN :
         /\ IF named
              THEN client[c].timeoutId = "pending"
              ELSE client[c].timers >
                       (IF client[c].timeoutId = "pending" THEN 1 ELSE 0)
         /\ LET k == [client[c] EXCEPT !.timers = @ - 1,
                                        !.timeoutId = IF named THEN "spent" ELSE @]
            IN  IF k.intervalTime <= 0
                  THEN /\ client' = [client EXCEPT ![c] = k]
                       /\ UNCHANGED exec
                  ELSE NextSocket(e, c,
                          [client EXCEPT ![c] = [k EXCEPT !.isExecuting = TRUE]],
                          k.sockets, TRUE)
    /\ UNCHANGED <<currentAutomaticInterval, successfulRequestsCount,
                   connectedClients, connected>>

\* The await of executeWithHealthCheck ends.  `ok` says whether every AWS call
\* succeeded: generateClusterDetails throws otherwise, whereas
\* generateClusterDetailsProgressive catches the error and returns.
Complete(e, ok) ==
    /\ exec[e] # Idle
    /\ LET x == exec[e]
           h == HealthCheck(x.client, ~ok /\ ~x.progressive)
       IN  /\ currentAutomaticInterval' = h.interval
           /\ successfulRequestsCount' = h.count
           /\ IF x.kind = "timer"
                THEN NextSocket(e, x.client, h.clients, x.todo, x.shared)
                ELSE /\ client' = h.clients
                     /\ exec' = [exec EXCEPT ![e] = Idle]
    /\ UNCHANGED <<connectedClients, connected>>

----------------------------------------------------------------------------
\* The socket handlers.

\* executeWithHealthCheck called by a handler, up to its await.
StartExecution(kind, c, k, s) ==
    [kind |-> kind, client |-> c, socket |-> s, todo |-> {}, shared |-> FALSE,
     progressive |-> k.useProgressiveLoading]

\* Loops over the array of c see a socket pushed to it ...
Pushed(c, s) ==
    [e \in Execs |->
        IF exec[e] # Idle /\ exec[e].client = c /\ exec[e].shared
          THEN [exec[e] EXCEPT !.todo = @ \cup {s}] ELSE exec[e]]

\* ... and keep the old array when c gets a filtered copy.
Detached(c) ==
    [e \in Execs |->
        IF exec[e] # Idle /\ exec[e].client = c
          THEN [exec[e] EXCEPT !.shared = FALSE] ELSE exec[e]]

\* Nothing refers to the object any more.
Unreferenced(c) ==
    /\ c \notin Mapped
    /\ client[c].timers = 0
    /\ \A e \in Running : exec[e].client # c

\* A connection: the first one of a user creates the ClientInfo object, any
\* other is pushed to its sockets; then the initial load starts.
Connect(s, e) ==
    LET u == Owner[s] IN
    /\ s \notin connected
    /\ \A x \in Running : s # exec[x].socket /\ s \notin exec[x].todo
    /\ exec[e] = Idle
    /\ connected' = connected \cup {s}
    /\ \/ /\ connectedClients[u] = NoClient
          /\ \E c \in Clients :
               /\ Unreferenced(c)
               /\ client' = [client EXCEPT ![c] = NewClient(u, {s})]
               /\ connectedClients' = [connectedClients EXCEPT ![u] = c]
               /\ exec' = [exec EXCEPT ![e] =
                      StartExecution("initial", c, NewClient(u, {s}), s)]
       \/ /\ connectedClients[u] # NoClient
          /\ LET c == connectedClients[u] IN
               /\ client' = [client EXCEPT ![c].sockets = @ \cup {s}]
               /\ exec' = [Pushed(c, s) EXCEPT ![e] =
                      StartExecution("initial", c, client[c], s)]
          /\ UNCHANGED connectedClients
    /\ UNCHANGED <<currentAutomaticInterval, successfulRequestsCount>>

\* TOGGLE_PROGRESSIVE_LOADING.
ToggleProgressive(s, enabled) ==
    LET c == connectedClients[Owner[s]] IN
    /\ s \in connected
    /\ c # NoClient
    /\ client' = [client EXCEPT ![c].useProgressiveLoading = enabled]
    /\ UNCHANGED <<currentAutomaticInterval, successfulRequestsCount,
                   connectedClients, connected, exec>>

ValidateManualInterval(mode) == mode \in ManualIntervals

\* INTERVAL_SET.  The timer is cleared before the mode is looked at.
IntervalSet(s, mode) ==
    LET c == connectedClients[Owner[s]]
        reset == ResetTimeout(client[c])
    IN
    /\ s \in connected
    /\ c # NoClient
    /\ \/ /\ mode = 0
          /\ client' = [client EXCEPT ![c] =
                 [reset EXCEPT !.isAutomatic = FALSE, !.intervalTime = 0]]
       \/ /\ mode = -1
          /\ client' = [client EXCEPT ![c] = ScheduleNextExecution(
                 [reset EXCEPT !.isAutomatic = TRUE,
                               !.intervalTime = currentAutomaticInterval])]
       \/ /\ mode \notin {0, -1}
          /\ ValidateManualInterval(mode)
          /\ client' = [client EXCEPT ![c] = ScheduleNextExecution(
                 [reset EXCEPT !.isAutomatic = FALSE, !.intervalTime = mode])]
       \/ /\ mode \notin {0, -1}
          /\ ~ValidateManualInterval(mode)
          /\ client' = [client EXCEPT ![c] = reset]
    /\ UNCHANGED <<currentAutomaticInterval, successfulRequestsCount,
                   connectedClients, connected, exec>>

\* MANUAL_REFRESH and CLUSTERS_UPDATE, which have the same body.
RequestRefresh(s, e) ==
    LET c == connectedClients[Owner[s]] IN
    /\ s \in connected
    /\ c # NoClient
    /\ exec[e] = Idle
    /\ exec' = [exec EXCEPT ![e] = StartExecution("request", c, client[c], s)]
    /\ UNCHANGED <<currentAutomaticInterval, successfulRequestsCount,
                   connectedClients, client, connected>>

MutantDisconnect(s) ==
    LET u == Owner[s]
        c == connectedClients[u]
    IN
    /\ s \in connected
    /\ c # NoClient
    /\ connected' = connected \ {s}
    /\ exec' = Detached(c)
    /\ client' = [client EXCEPT ![c] = [ClearTimeout(client[c]) EXCEPT !.sockets = {}]]
    /\ connectedClients' = [connectedClients EXCEPT ![u] = NoClient]
    /\ UNCHANGED <<currentAutomaticInterval, successfulRequestsCount>>

\* DISCONNECT: the last socket of a user takes the ClientInfo with it.
Disconnect(s) ==
    LET u == Owner[s]
        c == connectedClients[u]
        remaining == client[c].sockets \ {s}
    IN
    /\ s \in connected
    /\ c # NoClient
    /\ connected' = connected \ {s}
    /\ exec' = Detached(c)
    /\ \/ /\ remaining = {}
          /\ client' = [client EXCEPT ![c] =
                 [ClearTimeout(client[c]) EXCEPT !.sockets = {}]]
          /\ connectedClients' = [connectedClients EXCEPT ![u] = NoClient]
       \/ /\ remaining # {}
          /\ client' = [client EXCEPT ![c].sockets = remaining]
          /\ UNCHANGED connectedClients
    /\ UNCHANGED <<currentAutomaticInterval, successfulRequestsCount>>

----------------------------------------------------------------------------

Init ==
    /\ currentAutomaticInterval = DefaultInterval
    /\ successfulRequestsCount = 0
    /\ connectedClients = [u \in Users |-> NoClient]
    /\ client \in [Clients -> {NewClient(u, {}) : u \in Users}]
    /\ connected = {}
    /\ exec = [e \in Execs |-> Idle]

UserStep ==
    \E s \in Sockets :
        \/ \E e \in Execs : Connect(s, e) \/ RequestRefresh(s, e)
        \/ \E b \in BOOLEAN : ToggleProgressive(s, b)
        \/ \E mode \in RequestedModes : IntervalSet(s, mode)
        \/ Disconnect(s)

SystemStep ==
    \E e \in Execs :
        \/ \E c \in Clients : TimerFires(c, e)
        \/ \E ok \in BOOLEAN : Complete(e, ok)

Next == UserStep \/ SystemStep

Spec == Init /\ [][Next]_vars

(***************************************************************************)
(* Fairness.  An AWS call ends, with an answer or an error (the SDK has    *)
(* timeouts), so a suspended execution goes on.  Node fires a pending      *)
(* timer; strong fairness only because the model makes a callback wait for *)
(* a free member of Execs.  Users promise nothing.                         *)
(***************************************************************************)
Fairness ==
    /\ \A e \in Execs : WF_vars(\E ok \in BOOLEAN : Complete(e, ok))
    /\ \A c \in Clients : SF_vars(\E e \in Execs : TimerFires(c, e))

FairSpec == Spec /\ Fairness

----------------------------------------------------------------------------
\* Properties.

\* Every variable has its type.
TypeOK ==
    /\ currentAutomaticInterval \in Nat
    /\ successfulRequestsCount \in Nat
    /\ connectedClients \in [Users -> Clients \cup {NoClient}]
    /\ client \in [Clients -> ClientInfo]
    /\ connected \subseteq Sockets
    /\ exec \in [Execs -> Execution \cup {Idle}]

\* A ClientInfo object never has two pending timers, and timeoutId names the
\* one it has: otherwise INTERVAL_SET and DISCONNECT could not stop it, and a
\* user would be refreshed at two rhythms.  Timers are armed by the callback,
\* by INTERVAL_SET and by every other client's health check, at any moment of
\* a suspended refresh.
OneTimer ==
    \A c \in Clients :
        client[c].timers = (IF client[c].timeoutId = "pending" THEN 1 ELSE 0)

\* A pending timer belongs to a client with a positive interval: manual mode
\* leaves none behind, so the test of intervalTime in the callback is never
\* taken.
TimerHasInterval ==
    \A c \in Clients : client[c].timers > 0 => client[c].intervalTime > 0

\* All connected automatic clients refresh at the one automatic interval, and
\* every other client at a rhythm of the allowed list.
SharedInterval ==
    \A c \in Mapped :
        IF client[c].isAutomatic
          THEN client[c].intervalTime = currentAutomaticInterval
          ELSE client[c].intervalTime \in ManualIntervals \cup {0}

\* The back-off stays within its limits, and the success window is emptied
\* when it is full.
IntervalInBounds ==
    /\ currentAutomaticInterval \in MinInterval .. MaxInterval
    /\ successfulRequestsCount < HealthCheckWindow

\* connectedClients mirrors the open sockets: a user is in the map exactly as
\* long as one of its sockets is open, and the object there lists these
\* sockets.  No handler of an open socket finds its client missing, and an
\* object that left the map has no socket to send to.
MapMirrorsSockets ==
    /\ \A u \in Users :
         LET open == {s \in connected : Owner[s] = u}
             c == connectedClients[u]
         IN  IF open = {}
               THEN c = NoClient
               ELSE c # NoClient /\ client[c].user = u /\ client[c].sockets = open
    /\ \A c \in Clients \ Mapped : client[c].sockets = {}

\* The refresh of a connected client with an interval never stalls: a timer is
\* pending, or a callback is running that will arm it again.
NeverStalls ==
    \A c \in Mapped :
        client[c].intervalTime > 0 =>
            \/ client[c].timers > 0
            \/ \E e \in Running : exec[e].kind = "timer" /\ exec[e].client = c

\* When the users are quiet and no refresh fails any more, the automatic
\* interval comes back to its minimum as long as an automatic client is
\* connected: the back-off of increaseAutomaticInterval is not permanent.
HealthyStep ==
    \E e \in Execs : Complete(e, TRUE) \/ \E c \in Clients : TimerFires(c, e)

IntervalRecovers ==
    <>[][HealthyStep]_vars =>
        <>[](\/ currentAutomaticInterval = MinInterval
             \/ \A c \in Mapped : ~client[c].isAutomatic)

\* When the users are quiet, every connected user with an interval is
\* refreshed again and again, failures or not.
RefreshGoesOn ==
    <>[][SystemStep]_vars =>
        \A u \in Users :
            []<>(LET c == connectedClients[u] IN
                 \/ c = NoClient
                 \/ c # NoClient /\ client[c].intervalTime = 0
                 \/ \E e \in Running :
                        exec[e].kind = "timer" /\ exec[e].client = c)

\* When the users are quiet, the timers of a user who left end: a callback
\* that outlives the disconnection arms no timer for ever.
TimersOfGoneUsersEnd ==
    <>[][SystemStep]_vars =>
        \A u \in Users :
            <>[](connectedClients[u] = NoClient =>
                    \A c \in Clients :
                        client[c].user = u => client[c].timers = 0)

----------------------------------------------------------------------------
\* What the comments of socket.config.ts say.

\* "Schedule next execution if client still exists and has valid interval":
\* a timer is pending only for a client that connectedClients still holds.
OnlyConnectedClientsScheduled ==
    \A c \in Clients : client[c].timers > 0 => c \in Mapped
=============================================================================
