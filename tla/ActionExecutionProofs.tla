------------------------ MODULE ActionExecutionProofs ------------------------
(***************************************************************************)
(* Theorems about ActionExecution, for any actions, events, callers and    *)
(* numbers of retries.                                                     *)
(***************************************************************************)
EXTENDS ActionExecution, WellFoundedInduction, TLAPS

\* An event has its fields, whatever the actions in it are.
Fields == {"step", "todo", "rules", "tries", "deliveries", "before", "outage", "last"}

EventShape ==
    /\ DOMAIN exec = Requests /\ exec = [r \in DOMAIN exec |-> exec[r]]
    /\ \A r \in Requests : DOMAIN exec[r] = Fields

LEMMA IdleShape == DOMAIN Idle = Fields
  BY DEF Idle, Fields

\* Only the event that goes on changes.
LEMMA ContinueShape ==
    ASSUME EventShape, NEW r \in Requests, NEW x, DOMAIN x = Fields, Continue(r, x)
    PROVE  EventShape' /\ exec'[r] = x /\ \A q \in Requests \ {r} : exec'[q] = exec[q]
  BY DEF EventShape, Continue

\* How an action ends.
LEMMA FinishShape ==
    ASSUME EventShape, NEW r \in Requests, NEW how, NEW lost, Finish(r, how, lost)
    PROVE  /\ EventShape' /\ exec'[r].last \in {how, "error"}
           /\ \A q \in Requests \ {r} : exec'[q] = exec[q]
  <1>1. CASE NextAction(r, how, lost)
    <2> DEFINE x == exec[r]
               rest == x.todo \ {Min(x.todo)}
               y == [x EXCEPT !.step = IF rest = {} THEN "ended" ELSE "next",
                              !.todo = rest, !.rules = {}, !.tries = 0, !.last = how,
                              !.outage = @ \/ lost]
    <2>1. Continue(r, y)
      BY <1>1 DEF NextAction
    <2>2. DOMAIN x = Fields
      BY DEF EventShape
    <2> HIDE DEF rest
    <2>3. DOMAIN y = Fields /\ y.last = how
      BY <2>2 DEF Fields
    <2> QED BY <2>1, <2>3, ContinueShape
  <1>2. CASE DeliverAgain(r, lost)
    <2> DEFINE x == exec[r]
               y == [x EXCEPT !.step = "lookup", !.todo = {}, !.rules = {}, !.tries = 0,
                              !.deliveries = @ + 1, !.last = "error", !.outage = @ \/ lost]
    <2>1. Continue(r, y)
      BY <1>2 DEF DeliverAgain
    <2>2. DOMAIN x = Fields
      BY DEF EventShape
    <2>3. DOMAIN y = Fields /\ y.last = "error"
      BY <2>2 DEF Fields
    <2> QED BY <2>1, <2>3, ContinueShape
  <1> QED BY <1>1, <1>2 DEF Finish

LEMMA SendShape ==
    ASSUME EventShape, NEW r \in Requests, NEW step, NEW rules, Send(r, step, rules)
    PROVE  /\ EventShape' /\ exec'[r].step = step
           /\ \A q \in Requests \ {r} : exec'[q] = exec[q]
  <1> DEFINE y == [exec[r] EXCEPT !.step = step, !.rules = rules, !.tries = 0]
  <1>1. Continue(r, y)
    BY DEF Send
  <1>2. DOMAIN y = Fields /\ y.step = step
    BY DEF EventShape, Fields
  <1> QED BY <1>1, <1>2, ContinueShape

\* What one event may have done in a step, when it is said to have done it.
Done(r) ==
    (/\ exec[r].step \in {"authorize", "revoke", "revokeAll"}
     /\ exec'[r].step \in {"next", "ended"} /\ exec'[r].last = "ok")
    => IF exec[r].step = "authorize" THEN exec[r].rules \subseteq group'
       ELSE exec[r].rules \cap group' = {}

\* Steps of one event, which leave the others alone.
LEMMA StepDone ==
    ASSUME EventShape, NEW r \in Requests, AuditEvent(r) \/ Refresh(r) \/ ScheduledJob(r) \/ Step(r)
    PROVE  EventShape' /\ Done(r) /\ \A q \in Requests \ {r} : exec'[q] = exec[q]
  <1> DEFINE Goal == EventShape' /\ Done(r) /\ \A q \in Requests \ {r} : exec'[q] = exec[q]
  <1>0. DOMAIN exec[r] = Fields
    BY DEF EventShape
  <1>e. ASSUME NEW lost, Finish(r, "error", lost) PROVE Goal
    <2>1. exec'[r].last = "error"
      BY <1>e, FinishShape
    <2> QED BY <1>e, <2>1, FinishShape DEF Done
  <1>1. ASSUME NEW trigger, Begins(r, trigger) PROVE Goal
    <2> DEFINE y == [Idle EXCEPT !.step = "lookup", !.before = group]
    <2>1. DOMAIN y = Fields
      BY IdleShape
    <2> QED BY <1>1, <2>1, ContinueShape DEF Begins, Done
  <1>2. CASE Lookup(r)
    <2> DEFINE y == [exec[r] EXCEPT !.step = IF Active(r) = {} THEN "ended" ELSE "next",
                                    !.todo = Active(r)]
    <2>1. Continue(r, y) /\ exec[r].step = "lookup" /\ DOMAIN y = Fields
      BY <1>0, <1>2 DEF Lookup
    <2> HIDE DEF y
    <2> QED BY <2>1, ContinueShape DEF Done
  <1>3. CASE LookupFails(r)
    <2>1. CASE Continue(r, [exec[r] EXCEPT !.step = "ended", !.outage = TRUE])
      <3>1. DOMAIN [exec[r] EXCEPT !.step = "ended", !.outage = TRUE] = Fields
        BY <1>0
      <3> QED BY <1>3, <2>1, <3>1, ContinueShape DEF LookupFails, Done
    <2>2. CASE DeliverAgain(r, TRUE)
      <3>1. Finish(r, "error", TRUE)
        BY <2>2 DEF Finish
      <3> QED BY <1>3, <3>1, FinishShape DEF LookupFails, Done
    <2> QED BY <1>3, <2>1, <2>2 DEF LookupFails
  <1>4. CASE Execute(r)
    <2>1. exec[r].step = "next"
      BY <1>4 DEF Execute
    <2>2. \/ \E how, lost : Finish(r, how, lost)
          \/ \E step, rules : Send(r, step, rules)
      BY <1>4 DEF Execute
    <2> QED BY <2>1, <2>2, FinishShape, SendShape DEF Done
  <1>5. CASE Authorize(r)
    <2>1. CASE exec[r].rules \subseteq group' /\ Finish(r, "ok", FALSE)
      BY <1>5, <2>1, FinishShape DEF Authorize, Done
    <2>2. CASE Finish(r, "error", FALSE)
      BY <1>e, <2>2
    <2> QED BY <1>5, <2>1, <2>2 DEF Authorize
  <1>6. CASE Revoke(r)
    <2>1. CASE exec[r].rules \cap group' = {} /\ Finish(r, "ok", FALSE)
      BY <1>6, <2>1, FinishShape DEF Revoke, Done
    <2>2. CASE Finish(r, "error", FALSE)
      BY <1>e, <2>2
    <2> QED BY <1>6, <2>1, <2>2 DEF Revoke
  <1>7. CASE Describe(r)
    <2>1. exec[r].step = "describe"
      BY <1>7 DEF Describe
    <2>2. \/ \E how, lost : Finish(r, how, lost)
          \/ \E step, rules : Send(r, step, rules)
      BY <1>7 DEF Describe
    <2> QED BY <2>1, <2>2, FinishShape, SendShape DEF Done
  <1>8. CASE RevokeAll(r)
    <2>1. CASE exec[r].rules \cap group' = {} /\ Finish(r, "ok", FALSE)
      BY <1>8, <2>1, FinishShape DEF RevokeAll, Done
    <2>2. CASE Finish(r, "error", FALSE)
      BY <1>e, <2>2
    <2> QED BY <1>8, <2>1, <2>2 DEF RevokeAll
  <1>9. CASE NoAnswer(r)
    <2>1. CASE Continue(r, [exec[r] EXCEPT !.tries = @ + 1])
      <3> DEFINE y == [exec[r] EXCEPT !.tries = @ + 1]
      <3>1. DOMAIN y = Fields /\ y.step = exec[r].step
        BY <1>0 DEF Fields
      <3> QED BY <2>1, <3>1, ContinueShape DEF Done
    <2>2. CASE Finish(r, "error", TRUE)
      BY <1>e, <2>2
    <2> QED BY <1>9, <2>1, <2>2 DEF NoAnswer
  <1> QED BY <1>1, <1>2, <1>3, <1>4, <1>5, <1>6, <1>7, <1>8, <1>9
          DEF AuditEvent, Refresh, ScheduledJob, Step

LEMMA NextDone ==
    ASSUME EventShape, [ExecNext]_execVars
    PROVE  EventShape' /\ \A r \in Requests : Done(r)
  <1>1. ASSUME NEW q \in Requests, AuditEvent(q) \/ Refresh(q) \/ ScheduledJob(q) \/ Step(q)
        PROVE  EventShape' /\ \A r \in Requests : Done(r)
    <2>1. EventShape' /\ Done(q) /\ \A r \in Requests \ {q} : exec'[r] = exec[r]
      BY <1>1, StepDone
    <2> QED BY <2>1 DEF Done
  <1>2. CASE UNCHANGED exec
    BY <1>2 DEF EventShape, Done
  <1> QED BY <1>1, <1>2 DEF ExecNext, EditedOutside, execVars

LEMMA ShapeAlways == ExecSpec => []EventShape
  <1>1. ExecInit => EventShape
    BY IdleShape DEF ExecInit, EventShape
  <1>2. EventShape /\ [ExecNext]_execVars => EventShape'
    BY NextDone
  <1> QED BY <1>1, <1>2, PTL DEF ExecSpec

\* However events and editors of the group interleave, and whatever EC2 loses, an
\* action that is reported as done has been done (ActionHelper.execute, EC2Service).
THEOREM SuccessIsReal == ExecSpec => SuccessMeansDone
  <1>1. EventShape /\ [ExecNext]_execVars => [\A r \in Requests : Done(r)]_execVars
    BY NextDone
  <1> QED BY <1>1, ShapeAlways, PTL DEF ExecSpec, SuccessMeansDone, Done

----------------------------------------------------------------------------
\* The next action of an event is the first that is left.

LEMMA LeastIsThere ==
    ASSUME NEW S \in SUBSET Nat, S # {}
    PROVE  Min(S) \in S
<1> DEFINE R == OpToRel(<, Nat)
<1>1. IsWellFoundedOn(R, Nat)
  BY NatLessThanWellFounded, Zenon
<1> HIDE DEF R
<1>2. PICK x \in S : \A y \in S : <<y, x>> \notin R
  BY <1>1, WFMin
<1>3. \A y \in S : x <= y
  <2> SUFFICES ASSUME NEW y \in S, ~(x <= y) PROVE FALSE
    OBVIOUS
  <2>1. y < x /\ x \in Nat /\ y \in Nat
    OBVIOUS
  <2>2. <<y, x>> \in R
    BY <2>1 DEF R, OpToRel
  <2> QED  BY <1>2, <2>2
<1> QED  BY <1>3 DEF Min

----------------------------------------------------------------------------
\* Types.

Calling == {"authorize", "revoke", "describe", "revokeAll"}

\* An event that executes actions has one that it is about.
TypeInv ==
    /\ ExecTypeOK
    /\ \A r \in Requests : exec[r].step \in {"next"} \cup Calling => exec[r].todo # {}

\* The parts of an event, one by one.
EventParts(x) ==
    /\ x.step \in {"idle", "lookup", "next", "ended"} \cup Calling
    /\ x.todo \in SUBSET Nat /\ x.rules \in SUBSET Rule /\ x.before \in SUBSET Rule
    /\ x.tries \in 0..(Tries - 1) /\ x.deliveries \in 0..Deliveries
    /\ x.outage \in BOOLEAN /\ x.last \in {"none", "ok", "error"}

LEMMA WorkTyped ==
    ASSUME work \in Workloads
    PROVE  /\ work.actions \in Seq(Action) /\ work.group \subseteq Rule
           /\ \A r \in Requests : work.headers[r] \in Headers
           /\ DOMAIN work.actions \subseteq Nat
  <1>1. work \in Workload
    BY ExecAssumption
  <1>2. /\ work.actions \in Seq(Action) /\ work.group \subseteq Rule
        /\ work.headers \in [Requests -> Headers]
    BY <1>1 DEF Workload
  <1>3. DOMAIN work.actions = 1..Len(work.actions) /\ Len(work.actions) \in Nat
    BY <1>2
  <1> QED  BY <1>2, <1>3

LEMMA CallerTyped ==
    ASSUME work \in Workloads, NEW r \in Requests
    PROVE  CallerAddress(r) \in Address
  <1>1. Localhost \in Address /\ JobAddress \in Address
    BY DEF Localhost, JobAddress, Address
  <1>2. work.headers[r] \in Headers
    BY WorkTyped
  <1> QED  BY <1>1, <1>2 DEF CallerAddress, Headers

LEMMA CidrTyped ==
    ASSUME NEW a \in Address
    PROVE  Cidr(a) \in Address
  <1>1. [a EXCEPT !.form = "v4cidr"] \in Address /\ [a EXCEPT !.form = "v6cidr"] \in Address
    BY DEF Address
  <1> QED  BY <1>1 DEF Cidr

LEMMA RuleTyped ==
    ASSUME NEW a \in Action, a.type \in OneRule,
           ValidPorts(a.ports), NEW x \in Address
    PROVE  RuleOf(a, x) \in Rule
  <1>1. a.protocol \in Protocols
    BY DEF Action
  <1>2. FromPort(a.ports) \in 1..MaxPort /\ ToPort(a.ports) \in 1..MaxPort
    BY DEF ValidPorts
  <1>3. Cidr(x) \in Address
    BY CidrTyped
  <1> QED  BY <1>1, <1>2, <1>3 DEF RuleOf, Rule

\* The action that an event is about.
LEMMA DoingTyped ==
    ASSUME TypeInv, NEW r \in Requests, exec[r].step \in {"next"} \cup Calling
    PROVE  /\ Min(exec[r].todo) \in exec[r].todo
           /\ Min(exec[r].todo) \in DOMAIN work.actions
           /\ Doing(r) \in Action
  <1>1. /\ exec[r].todo # {} /\ exec[r].todo \subseteq DOMAIN work.actions
        /\ work \in Workloads /\ exec[r].todo \subseteq Nat
    BY DEF TypeInv, ExecTypeOK, Event
  <1>2. Min(exec[r].todo) \in exec[r].todo
    BY <1>1, LeastIsThere
  <1>3. work.actions \in Seq(Action)
    BY <1>1, WorkTyped
  <1> QED  BY <1>1, <1>2, <1>3 DEF Doing

\* The positions of the actions that an event executes.
LEMMA ActiveTyped ==
    ASSUME work \in Workloads, NEW r \in Requests
    PROVE  Active(r) \subseteq DOMAIN work.actions /\ Active(r) \subseteq Nat
  <1> DEFINE found == {i \in DOMAIN work.actions : /\ work.actions[i].enabled
                                                   /\ work.actions[i].trigger = work.trigger[r]}
  <1>1. found \subseteq DOMAIN work.actions /\ found \subseteq Nat
    BY WorkTyped
  <1>2. Active(r) = IF work.trigger[r] = "scheduled_job" /\ found # {} THEN {Min(found)} ELSE found
    BY DEF Active
  <1> HIDE DEF found
  <1>3. found # {} => Min(found) \in found
    BY <1>1, LeastIsThere
  <1> QED  BY <1>1, <1>2, <1>3

----------------------------------------------------------------------------
\* An event goes on.

LEMMA ContinueTyped ==
    ASSUME TypeInv, NEW r \in Requests, NEW x \in Event, Continue(r, x),
           x.todo \subseteq DOMAIN work.actions,
           x.step \in {"next"} \cup Calling => x.todo # {},
           work' = work, group' \subseteq Rule
    PROVE  TypeInv' /\ exec'[r] = x /\ \A q \in Requests \ {r} : exec'[q] = exec[q]
  <1>1. exec \in [Requests -> Event] /\ exec' = [exec EXCEPT ![r] = x]
    BY DEF TypeInv, ExecTypeOK, Continue
  <1>2. exec' \in [Requests -> Event] /\ exec'[r] = x
        /\ \A q \in Requests \ {r} : exec'[q] = exec[q]
    BY <1>1
  <1>3. \A q \in Requests : /\ exec'[q].todo \subseteq DOMAIN work'.actions
                            /\ exec'[q].step \in {"next"} \cup Calling => exec'[q].todo # {}
    BY <1>2 DEF TypeInv, ExecTypeOK
  <1> QED  BY <1>2, <1>3 DEF TypeInv, ExecTypeOK

LEMMA SendTyped ==
    ASSUME TypeInv, NEW r \in Requests, exec[r].step \in {"next"} \cup Calling,
           NEW step \in Calling, NEW rules \in SUBSET Rule, Send(r, step, rules),
           work' = work, group' \subseteq Rule
    PROVE  /\ TypeInv' /\ \A q \in Requests \ {r} : exec'[q] = exec[q]
           /\ exec'[r].step = step /\ exec'[r].rules = rules /\ exec'[r].todo = exec[r].todo
           /\ exec'[r].outage = exec[r].outage
<1> DEFINE y == [exec[r] EXCEPT !.step = step, !.rules = rules, !.tries = 0]
<1>1. /\ exec[r] \in Event /\ exec[r].todo # {} /\ exec[r].todo \subseteq DOMAIN work.actions
  BY DEF TypeInv, ExecTypeOK
<1>2. 0 \in 0..(Tries - 1)
  BY ExecAssumption
<1>3. /\ y \in Event /\ y.step = step /\ y.rules = rules /\ y.todo = exec[r].todo
      /\ y.outage = exec[r].outage
  BY <1>1, <1>2 DEF Event, Calling
<1>4. Continue(r, y)
  BY DEF Send
<1> QED  BY <1>1, <1>3, <1>4, ContinueTyped

\* What is left of an event when one of its actions has ended.
Proceeds(r, lost) ==
    /\ exec'[r].todo = exec[r].todo \ {Min(exec[r].todo)}
    /\ exec'[r].step = IF exec'[r].todo = {} THEN "ended" ELSE "next"
    /\ exec'[r].outage = (exec[r].outage \/ lost)

Redelivered(r, lost) ==
    /\ exec'[r].step = "lookup" /\ work.trigger[r] = "scheduled_job"
    /\ exec'[r].outage = (exec[r].outage \/ lost)

LEMMA RedeliveryTyped ==
    ASSUME TypeInv, NEW r \in Requests, NEW lost \in BOOLEAN, DeliverAgain(r, lost),
           work' = work, group' \subseteq Rule
    PROVE  /\ TypeInv' /\ \A q \in Requests \ {r} : exec'[q] = exec[q]
           /\ Redelivered(r, lost)
<1> DEFINE y == [exec[r] EXCEPT !.step = "lookup", !.todo = {}, !.rules = {}, !.tries = 0,
                   !.deliveries = @ + 1, !.last = "error", !.outage = @ \/ lost]
<1>1. /\ exec[r] \in Event /\ exec[r].deliveries < Deliveries
      /\ Continue(r, y) /\ work.trigger[r] = "scheduled_job"
  BY DEF TypeInv, ExecTypeOK, DeliverAgain
<1>2. /\ 0 \in 0..(Tries - 1) /\ exec[r].deliveries + 1 \in 0..Deliveries
  BY <1>1, ExecAssumption DEF Event
<1>3. /\ y \in Event /\ y.step = "lookup" /\ y.todo = {}
      /\ y.outage = (exec[r].outage \/ lost)
  BY <1>1, <1>2 DEF Event
<1> HIDE DEF y
<1>4. /\ TypeInv' /\ \A q \in Requests \ {r} : exec'[q] = exec[q]
      /\ exec'[r] = y
  BY <1>1, <1>3, ContinueTyped DEF Calling
<1> QED  BY <1>1, <1>3, <1>4 DEF Redelivered

LEMMA FinishTyped ==
    ASSUME TypeInv, NEW r \in Requests, exec[r].step \in {"next"} \cup Calling,
           NEW how \in {"ok", "error"}, NEW lost \in BOOLEAN, Finish(r, how, lost),
           work' = work, group' \subseteq Rule
    PROVE  /\ TypeInv' /\ \A q \in Requests \ {r} : exec'[q] = exec[q]
           /\ Proceeds(r, lost) \/ Redelivered(r, lost)
<1>1. CASE NextAction(r, how, lost)
  <2> DEFINE x == exec[r]
             rest == x.todo \ {Min(x.todo)}
             y == [x EXCEPT !.step = IF rest = {} THEN "ended" ELSE "next",
                            !.todo = rest, !.rules = {}, !.tries = 0, !.last = how,
                            !.outage = @ \/ lost]
  <2>1. /\ x \in Event /\ rest \in SUBSET Nat /\ rest \subseteq DOMAIN work.actions
        /\ Continue(r, y)
    BY <1>1 DEF TypeInv, ExecTypeOK, Event, NextAction
  <2>2. 0 \in 0..(Tries - 1)
    BY ExecAssumption
  <2> HIDE DEF rest
  <2>3. /\ y \in Event /\ y.todo = rest /\ y.step = IF rest = {} THEN "ended" ELSE "next"
        /\ y.outage = (x.outage \/ lost)
    BY <2>1, <2>2 DEF Event
  <2> HIDE DEF y
  <2>4. /\ TypeInv' /\ \A q \in Requests \ {r} : exec'[q] = exec[q]
        /\ exec'[r] = y
    BY <2>1, <2>3, ContinueTyped DEF Calling
  <2> QED  BY <2>3, <2>4 DEF Proceeds, rest
<1>2. CASE DeliverAgain(r, lost)
  BY <1>2, RedeliveryTyped
<1> QED  BY <1>1, <1>2 DEF Finish

----------------------------------------------------------------------------
\* Steps keep the types.

LEMMA EffectTyped ==
    ASSUME TypeInv, NEW r \in Requests
    PROVE  /\ exec[r].rules \in SUBSET Rule /\ group \subseteq Rule
           /\ Effect(r) \subseteq Rule
<1>1. exec[r].rules \in SUBSET Rule /\ group \subseteq Rule
  BY DEF TypeInv, ExecTypeOK, Event
<1> QED  BY <1>1 DEF Effect, Accepted

LEMMA BeginsTyped ==
    ASSUME TypeInv, NEW r \in Requests, NEW trigger, Begins(r, trigger)
    PROVE  /\ TypeInv' /\ \A q \in Requests \ {r} : exec'[q] = exec[q]
           /\ exec'[r].step = "lookup" /\ UNCHANGED <<group, work>>
<1> DEFINE y == [Idle EXCEPT !.step = "lookup", !.before = group]
<1>1. group \in SUBSET Rule
  BY DEF TypeInv, ExecTypeOK
<1>0. 0 \in 0..(Tries - 1) /\ 0 \in 0..Deliveries
  BY ExecAssumption
<1>2. y \in Event /\ y.step = "lookup" /\ y.todo = {}
  BY <1>0, <1>1 DEF Event, Idle
<1>3. Continue(r, y) /\ UNCHANGED <<group, work>>
  BY DEF Begins
<1> HIDE DEF y
<1> QED  BY <1>1, <1>2, <1>3, ContinueTyped DEF Calling

LEMMA LookupTyped ==
    ASSUME TypeInv, NEW r \in Requests, Lookup(r)
    PROVE  /\ TypeInv' /\ \A q \in Requests \ {r} : exec'[q] = exec[q]
           /\ exec'[r].step = IF Active(r) = {} THEN "ended" ELSE "next"
           /\ exec'[r].todo = Active(r) /\ UNCHANGED <<group, work>>
<1> DEFINE y == [exec[r] EXCEPT !.step = IF Active(r) = {} THEN "ended" ELSE "next",
                                !.todo = Active(r)]
<1>1. /\ Active(r) \subseteq DOMAIN work.actions /\ Active(r) \subseteq Nat
      /\ exec[r] \in Event /\ group \subseteq Rule
  BY ActiveTyped DEF TypeInv, ExecTypeOK
<1>2. /\ y \in Event /\ y.step = (IF Active(r) = {} THEN "ended" ELSE "next")
      /\ y.todo = Active(r)
  BY <1>1 DEF Event
<1>3. Continue(r, y) /\ UNCHANGED <<group, work>>
  BY DEF Lookup
<1> HIDE DEF y
<1>4. y.step \in {"next"} \cup Calling => y.todo # {}
  BY <1>2 DEF Calling
<1> QED  BY <1>1, <1>2, <1>3, <1>4, ContinueTyped

LEMMA LookupFailsTyped ==
    ASSUME TypeInv, NEW r \in Requests, LookupFails(r)
    PROVE  /\ TypeInv' /\ \A q \in Requests \ {r} : exec'[q] = exec[q]
           /\ exec'[r].step \in {"lookup", "ended"} /\ exec'[r].outage
           /\ UNCHANGED <<group, work>>
<1>1. CASE Continue(r, [exec[r] EXCEPT !.step = "ended", !.outage = TRUE])
  <2> DEFINE y == [exec[r] EXCEPT !.step = "ended", !.outage = TRUE]
  <2>1. exec[r] \in Event /\ exec[r].todo \subseteq DOMAIN work.actions /\ group \subseteq Rule
    BY DEF TypeInv, ExecTypeOK
  <2>2. y \in Event /\ y.step = "ended" /\ y.todo = exec[r].todo /\ y.outage
    BY <2>1 DEF Event
  <2>3. UNCHANGED <<group, work>>
    BY DEF LookupFails
  <2> QED  BY <1>1, <2>1, <2>2, <2>3, ContinueTyped DEF Calling
<1>2. CASE DeliverAgain(r, TRUE)
  <2>1. UNCHANGED <<group, work>> /\ group \subseteq Rule
    BY DEF LookupFails, TypeInv, ExecTypeOK
  <2> QED  BY <1>2, <2>1, RedeliveryTyped DEF Redelivered
<1> QED  BY <1>1, <1>2 DEF LookupFails

\* The call that an action begins with, or its end.
LEMMA ExecuteTyped ==
    ASSUME TypeInv, NEW r \in Requests, Execute(r)
    PROVE  /\ TypeInv' /\ \A q \in Requests \ {r} : exec'[q] = exec[q]
           /\ UNCHANGED <<group, work>>
<1> DEFINE a == Doing(r)
           caller == CallerAddress(r)
<1>1. /\ exec[r].step \in {"next"} \cup Calling /\ UNCHANGED <<group, work>>
      /\ group \subseteq Rule /\ work \in Workloads
  BY DEF Execute, TypeInv, ExecTypeOK
<1>2. a \in Action /\ caller \in Address
  BY <1>1, DoingTyped, CallerTyped
<1>3. ASSUME NEW how \in {"ok", "error"}, Finish(r, how, FALSE)
      PROVE  TypeInv' /\ \A q \in Requests \ {r} : exec'[q] = exec[q]
  BY <1>1, <1>3, FinishTyped
<1>4. ASSUME NEW step \in Calling, NEW rules \in SUBSET Rule, Send(r, step, rules)
      PROVE  TypeInv' /\ \A q \in Requests \ {r} : exec'[q] = exec[q]
  BY <1>1, <1>4, SendTyped
<1>5. CASE a.type = "remove_all_inbound_rules"
  <2>1. Send(r, "describe", {})
    BY <1>5 DEF Execute, OneRule
  <2> QED  BY <1>1, <1>4, <2>1 DEF Calling
<1>6. CASE a.type = "send_email_notification"
  <2>1. Finish(r, "ok", FALSE)
    BY <1>6 DEF Execute, OneRule
  <2> QED  BY <1>1, <1>3, <2>1
<1>7. CASE /\ a.type \notin {"remove_all_inbound_rules", "send_email_notification"}
           /\ ~ValidPorts(a.ports)
  <2>1. Finish(r, "error", FALSE)
    BY <1>7 DEF Execute
  <2> QED  BY <1>1, <1>3, <2>1
<1>8. CASE a.type = "add_inbound_rule" /\ ValidPorts(a.ports)
  <2>1. Send(r, "authorize", {RuleOf(a, caller)})
    BY <1>8 DEF Execute
  <2>2. {RuleOf(a, caller)} \in SUBSET Rule /\ "authorize" \in Calling
    BY <1>2, <1>8, RuleTyped DEF Calling, OneRule
  <2> QED  BY <1>1, <1>4, <2>1, <2>2
<1>9. CASE a.type = "remove_inbound_rule" /\ ValidPorts(a.ports)
  <2>1. Send(r, "revoke", {RuleOf(a, RemovedAddress(a, caller))})
    BY <1>9 DEF Execute
  <2>2. RemovedAddress(a, caller) \in Address
    BY <1>2 DEF RemovedAddress, Action
  <2>3. {RuleOf(a, RemovedAddress(a, caller))} \in SUBSET Rule /\ "revoke" \in Calling
    BY <1>2, <1>9, <2>2, RuleTyped DEF Calling, OneRule
  <2> QED  BY <1>1, <1>4, <2>1, <2>3
<1>10. a.type \in {"add_inbound_rule", "remove_inbound_rule", "remove_all_inbound_rules",
                   "send_email_notification"}
  BY <1>2 DEF Action
<1> QED  BY <1>5, <1>6, <1>7, <1>8, <1>9, <1>10, <1>1

\* Answers of EC2, and none.
LEMMA AnswersTyped ==
    ASSUME TypeInv, NEW r \in Requests,
           Authorize(r) \/ Revoke(r) \/ Describe(r) \/ RevokeAll(r) \/ NoAnswer(r)
    PROVE  /\ TypeInv' /\ \A q \in Requests \ {r} : exec'[q] = exec[q]
           /\ UNCHANGED work
<1> DEFINE Goal == /\ TypeInv' /\ \A q \in Requests \ {r} : exec'[q] = exec[q]
                   /\ UNCHANGED work
<1>1. exec[r].step \in {"next"} \cup Calling /\ UNCHANGED work /\ group \subseteq Rule
  BY DEF Authorize, Revoke, Describe, RevokeAll, NoAnswer, Calling, TypeInv, ExecTypeOK
<1>2. /\ exec[r].rules \in SUBSET Rule /\ Effect(r) \subseteq Rule
  BY EffectTyped
<1>3. ASSUME NEW how \in {"ok", "error"}, NEW lost \in BOOLEAN, Finish(r, how, lost),
             group' \subseteq Rule
      PROVE  Goal
  BY <1>1, <1>3, FinishTyped
<1>4. CASE Authorize(r)
  <2>1. group' \subseteq Rule /\ (Finish(r, "ok", FALSE) \/ Finish(r, "error", FALSE))
    BY <1>1, <1>2, <1>4 DEF Authorize
  <2> QED  BY <1>3, <2>1
<1>5. CASE Revoke(r)
  <2>1. group' \subseteq Rule /\ (Finish(r, "ok", FALSE) \/ Finish(r, "error", FALSE))
    BY <1>1, <1>2, <1>5 DEF Revoke
  <2> QED  BY <1>3, <2>1
<1>6. CASE RevokeAll(r)
  <2>1. group' \subseteq Rule /\ (Finish(r, "ok", FALSE) \/ Finish(r, "error", FALSE))
    BY <1>1, <1>2, <1>6 DEF RevokeAll
  <2> QED  BY <1>3, <2>1
<1>7. CASE Describe(r)
  <2> DEFINE found == {x \in group : Matches(Doing(r), x)}
  <2>1. /\ group' \subseteq Rule /\ found \in SUBSET Rule
        /\ \/ Finish(r, "ok", FALSE) \/ Finish(r, "error", FALSE)
           \/ Send(r, "revokeAll", found)
    BY <1>1, <1>7 DEF Describe
  <2> HIDE DEF found
  <2>2. CASE Send(r, "revokeAll", found)
    BY <1>1, <2>1, <2>2, SendTyped DEF Calling
  <2> QED  BY <1>3, <2>1, <2>2
<1>8. CASE NoAnswer(r)
  <2>1. group' \subseteq Rule
    BY <1>1, <1>2, <1>8 DEF NoAnswer
  <2>2. CASE /\ exec[r].tries < Tries - 1
             /\ Continue(r, [exec[r] EXCEPT !.tries = @ + 1])
    <3> DEFINE y == [exec[r] EXCEPT !.tries = @ + 1]
    <3>1. /\ exec[r] \in Event /\ exec[r].todo # {} /\ exec[r].todo \subseteq DOMAIN work.actions
      BY <1>1 DEF TypeInv, ExecTypeOK
    <3>2. exec[r].tries + 1 \in 0..(Tries - 1)
      BY <2>2, <3>1, ExecAssumption DEF Event
    <3>3. y \in Event /\ y.todo = exec[r].todo
      BY <3>1, <3>2 DEF Event
    <3> HIDE DEF y
    <3>4. Continue(r, y)
      BY <2>2 DEF y
    <3> QED  BY <1>1, <2>1, <3>1, <3>3, <3>4, ContinueTyped
  <2>3. CASE Finish(r, "error", TRUE)
    BY <1>3, <2>1, <2>3
  <2> QED  BY <1>8, <2>2, <2>3 DEF NoAnswer
<1> QED  BY <1>4, <1>5, <1>6, <1>7, <1>8

LEMMA StepTyped ==
    ASSUME TypeInv, NEW r \in Requests,
           AuditEvent(r) \/ Refresh(r) \/ ScheduledJob(r) \/ Step(r)
    PROVE  /\ TypeInv' /\ \A q \in Requests \ {r} : exec'[q] = exec[q]
           /\ UNCHANGED work
<1>1. CASE AuditEvent(r) \/ Refresh(r) \/ ScheduledJob(r)
  BY <1>1, BeginsTyped DEF AuditEvent, Refresh, ScheduledJob
<1>2. CASE Lookup(r)
  BY <1>2, LookupTyped
<1>3. CASE LookupFails(r)
  BY <1>3, LookupFailsTyped
<1>4. CASE Execute(r)
  BY <1>4, ExecuteTyped
<1>5. CASE Authorize(r) \/ Revoke(r) \/ Describe(r) \/ RevokeAll(r) \/ NoAnswer(r)
  BY <1>5, AnswersTyped
<1> QED  BY <1>1, <1>2, <1>3, <1>4, <1>5 DEF Step

LEMMA OutsideTyped ==
    ASSUME TypeInv, EditedOutside
    PROVE  TypeInv'
<1>1. PICK x \in work.group \cup {RuleOf(a, CallerAddress(r)) :
                                   a \in {b \in ToSet(work.actions) :
                                            b.type = "add_inbound_rule" /\ ValidPorts(b.ports)},
                                   r \in Requests} :
        group' = IF x \in group THEN group \ {x} ELSE group \cup {x}
  BY DEF EditedOutside
<1>2. work \in Workloads /\ group \subseteq Rule /\ UNCHANGED <<exec, work>>
  BY DEF TypeInv, ExecTypeOK, EditedOutside
<1>3. CASE x \in work.group
  <2>1. x \in Rule
    BY <1>2, <1>3, WorkTyped
  <2> QED  BY <1>1, <1>2, <2>1 DEF TypeInv, ExecTypeOK
<1>4. ASSUME NEW r \in Requests, NEW a \in ToSet(work.actions), a.type = "add_inbound_rule",
             ValidPorts(a.ports), x = RuleOf(a, CallerAddress(r))
      PROVE  TypeInv'
  <2>1. a \in Action
    BY <1>2, <1>4, WorkTyped DEF ToSet
  <2>2. x \in Rule
    BY <1>2, <1>4, <2>1, CallerTyped, RuleTyped DEF OneRule
  <2> QED  BY <1>1, <1>2, <2>2 DEF TypeInv, ExecTypeOK
<1> QED  BY <1>1, <1>3, <1>4

LEMMA TypeInit == ExecInit => TypeInv
<1> SUFFICES ASSUME ExecInit PROVE TypeInv
  OBVIOUS
<1>1. work \in Workloads /\ group = work.group /\ exec = [r \in Requests |-> Idle]
  BY DEF ExecInit
<1>2. 0 \in 0..(Tries - 1) /\ 0 \in 0..Deliveries
  BY ExecAssumption
<1>3. Idle \in Event /\ Idle.todo = {} /\ Idle.step = "idle"
  BY <1>2 DEF Idle, Event
<1> QED  BY <1>1, <1>3, WorkTyped DEF TypeInv, ExecTypeOK, Calling

LEMMA TypeNext ==
    ASSUME TypeInv, [ExecNext]_execVars
    PROVE  TypeInv'
<1>1. CASE UNCHANGED execVars
  BY <1>1 DEF execVars, TypeInv, ExecTypeOK
<1>2. CASE EditedOutside
  BY <1>2, OutsideTyped
<1> QED  BY <1>1, <1>2, StepTyped DEF ExecNext

LEMMA TypeAlways == ExecSpec => []TypeInv
  BY TypeInit, TypeNext, PTL DEF ExecSpec

\* The group holds rules, an event goes through existing actions of its workload, and
\* calls and deliveries are repeated within their bounds, for any actions, addresses,
\* ports, editors and losses (ActionHelper, RulesHelper, EC2Service).
THEOREM ExecTypeCorrect == ExecSpec => []ExecTypeOK
<1>1. TypeInv => ExecTypeOK
  BY DEF TypeInv
<1> QED  BY <1>1, TypeAlways, PTL

----------------------------------------------------------------------------
\* Rules that are opened stay open where nothing closes any.

\* The action at i is one that lets the caller of r in.
Lets(r, i) ==
    LET a == work.actions[i] IN
    /\ a.enabled /\ a.trigger = work.trigger[r] /\ a.trigger # "scheduled_job"
    /\ ValidPorts(a.ports) /\ Cidr(CallerAddress(r)).form = "v4cidr"

Opens(r, i) == RuleOf(work.actions[i], CallerAddress(r)) \in group

\* What holds of an event that only adds: each of its actions is still to do, or has
\* opened its rule; the call in flight is about the first that is left.
AddsOnly(r) ==
    /\ exec[r].step \in {"idle", "lookup", "next", "authorize", "ended"}
    /\ exec[r].step = "authorize" => exec[r].rules = {RuleOf(Doing(r), CallerAddress(r))}
    /\ exec[r].step \in {"next", "authorize", "ended"} /\ ~exec[r].outage =>
         \A i \in DOMAIN work.actions : Lets(r, i) =>
            Opens(r, i) \/ (exec[r].step # "ended" /\ i \in exec[r].todo)

OpeningPlan ==
    ~work.outside /\ \A i \in DOMAIN work.actions : work.actions[i].type = "add_inbound_rule"

OpenInv == TypeInv /\ (OpeningPlan => \A r \in Requests : AddsOnly(r))

\* Nobody else takes a rule away.
LEMMA OthersOpen ==
    ASSUME OpenInv, OpeningPlan, TypeInv', NEW r \in Requests, UNCHANGED work,
           \A q \in Requests \ {r} : exec'[q] = exec[q],
           group \subseteq group', AddsOnly(r)'
    PROVE  OpenInv'
<1>1. ASSUME NEW q \in Requests \ {r} PROVE AddsOnly(q)'
  <2>1. AddsOnly(q) /\ exec'[q] = exec[q]
    BY DEF OpenInv
  <2>2. /\ CallerAddress(q)' = CallerAddress(q) /\ Doing(q)' = Doing(q)
    BY <2>1 DEF CallerAddress, Doing
  <2>3. \A i \in DOMAIN work.actions : (Lets(q, i)' <=> Lets(q, i)) /\ (Opens(q, i) => Opens(q, i)')
    BY <2>2 DEF Lets, Opens
  <2> QED  BY <2>1, <2>2, <2>3 DEF AddsOnly
<1> QED  BY <1>1 DEF OpenInv

\* An action that has ended, or got lost, has opened its rule if it can.
LEMMA FinishOpens ==
    ASSUME OpenInv, OpeningPlan, TypeInv', NEW r \in Requests, UNCHANGED work,
           exec[r].step \in {"next", "authorize"}, group \subseteq group',
           \A q \in Requests \ {r} : exec'[q] = exec[q],
           NEW lost \in BOOLEAN, Proceeds(r, lost) \/ Redelivered(r, lost),
           NEW m, m = Min(exec[r].todo), lost \/ (Lets(r, m) => Opens(r, m)')
    PROVE  OpenInv'
<1>1. AddsOnly(r) /\ \A i \in DOMAIN work.actions : Lets(r, i)' <=> Lets(r, i)
  BY DEF OpenInv, Lets, CallerAddress
<1>2. \A i \in DOMAIN work.actions : Opens(r, i) => Opens(r, i)'
  BY DEF Opens, CallerAddress
<1>3. CASE Redelivered(r, lost)
  <2>1. AddsOnly(r)'
    BY <1>3 DEF Redelivered, AddsOnly
  <2> QED  BY <2>1, OthersOpen
<1>4. CASE Proceeds(r, lost)
  <2>1. /\ exec'[r].todo = exec[r].todo \ {m} /\ exec'[r].step \in {"next", "ended"}
        /\ exec'[r].step = "ended" => exec'[r].todo = {}
        /\ ~exec'[r].outage => ~exec[r].outage /\ ~lost
    BY <1>4 DEF Proceeds
  <2>2. ASSUME ~exec'[r].outage, NEW i \in DOMAIN work'.actions, Lets(r, i)'
        PROVE  Opens(r, i)' \/ (exec'[r].step # "ended" /\ i \in exec'[r].todo)
    <3>1. Lets(r, i) /\ (Opens(r, i) \/ i \in exec[r].todo)
      BY <1>1, <2>1, <2>2 DEF AddsOnly
    <3>2. CASE i = m
      BY <2>1, <2>2, <3>1, <3>2
    <3>3. CASE i # m /\ i \in exec[r].todo
      BY <2>1, <3>3
    <3>4. CASE Opens(r, i)
      BY <1>2, <3>4
    <3> QED  BY <3>1, <3>2, <3>3, <3>4
  <2>3. AddsOnly(r)'
    BY <2>1, <2>2 DEF AddsOnly
  <2> QED  BY <2>3, OthersOpen
<1> QED  BY <1>3, <1>4

LEMMA LookupOpens ==
    ASSUME OpenInv, OpeningPlan, NEW r \in Requests, Lookup(r)
    PROVE  OpenInv'
<1>1. /\ TypeInv' /\ \A q \in Requests \ {r} : exec'[q] = exec[q]
      /\ exec'[r].step = IF Active(r) = {} THEN "ended" ELSE "next"
      /\ exec'[r].todo = Active(r) /\ UNCHANGED <<group, work>>
  BY LookupTyped DEF OpenInv
<1>2. ASSUME NEW i \in DOMAIN work.actions, Lets(r, i)
      PROVE  i \in Active(r)
  BY <1>2 DEF Lets, Active
<1>3. \A i \in DOMAIN work.actions : Lets(r, i)' <=> Lets(r, i)
  BY <1>1 DEF Lets, CallerAddress
<1>4. AddsOnly(r)'
  BY <1>1, <1>2, <1>3 DEF AddsOnly
<1> QED  BY <1>1, <1>4, OthersOpen

LEMMA ExecuteOpens ==
    ASSUME OpenInv, OpeningPlan, NEW r \in Requests, Execute(r)
    PROVE  OpenInv'
<1> PICK m : m = Min(exec[r].todo)
  OBVIOUS
<1>1. /\ TypeInv /\ TypeInv' /\ UNCHANGED <<group, work>>
      /\ \A q \in Requests \ {r} : exec'[q] = exec[q]
      /\ exec[r].step = "next" /\ AddsOnly(r)
  BY ExecuteTyped DEF OpenInv, Execute
<1>2. /\ m \in DOMAIN work.actions /\ Doing(r) = work.actions[m]
      /\ Doing(r).type = "add_inbound_rule"
  BY <1>1, DoingTyped DEF Doing, OpeningPlan
<1>3. CASE ~ValidPorts(Doing(r).ports) /\ Finish(r, "error", FALSE)
  <2>1. ~Lets(r, m)
    BY <1>2, <1>3 DEF Lets
  <2>2. Proceeds(r, FALSE) \/ Redelivered(r, FALSE)
    BY <1>1, <1>3, FinishTyped DEF TypeInv, ExecTypeOK
  <2> QED  BY <1>1, <2>1, <2>2, FinishOpens
<1>4. CASE /\ ValidPorts(Doing(r).ports)
           /\ Send(r, "authorize", {RuleOf(Doing(r), CallerAddress(r))})
  <2> DEFINE rules == {RuleOf(Doing(r), CallerAddress(r))}
  <2>1. rules \in SUBSET Rule
    <3>1. Doing(r) \in Action /\ CallerAddress(r) \in Address
      BY <1>1, DoingTyped, CallerTyped DEF TypeInv, ExecTypeOK
    <3> QED  BY <1>2, <1>4, <3>1, RuleTyped DEF OneRule
  <2>2. /\ exec'[r].step = "authorize" /\ exec'[r].rules = rules
        /\ exec'[r].todo = exec[r].todo /\ exec'[r].outage = exec[r].outage
    BY <1>1, <1>4, <2>1, SendTyped DEF Calling, TypeInv, ExecTypeOK
  <2>3. Doing(r)' = Doing(r) /\ CallerAddress(r)' = CallerAddress(r)
    BY <1>1, <2>2 DEF Doing, CallerAddress
  <2>4. \A i \in DOMAIN work.actions : (Lets(r, i)' <=> Lets(r, i)) /\ (Opens(r, i)' <=> Opens(r, i))
    BY <1>1, <2>3 DEF Lets, Opens
  <2>5. AddsOnly(r)'
    BY <1>1, <2>2, <2>3, <2>4 DEF AddsOnly
  <2> QED  BY <1>1, <2>5, OthersOpen
<1> QED  BY <1>2, <1>3, <1>4 DEF Execute, OneRule

LEMMA AuthorizeOpens ==
    ASSUME OpenInv, OpeningPlan, NEW r \in Requests,
           exec[r].step = "authorize", UNCHANGED work, NEW lost \in BOOLEAN,
           group' \in {group, group \cup exec[r].rules},
           TypeInv', \A q \in Requests \ {r} : exec'[q] = exec[q],
           \/ /\ lost \/ ~Accepted(exec[r].rules) \/ exec[r].rules \cap group' # {}
              /\ Proceeds(r, lost) \/ Redelivered(r, lost)
           \/ /\ exec'[r].step = exec[r].step /\ exec'[r].rules = exec[r].rules
              /\ exec'[r].todo = exec[r].todo /\ exec'[r].outage = exec[r].outage
    PROVE  OpenInv'
<1> PICK m : m = Min(exec[r].todo)
  OBVIOUS
<1>1. /\ AddsOnly(r) /\ TypeInv /\ group \subseteq group'
      /\ CallerAddress(r)' = CallerAddress(r)
  BY DEF OpenInv, CallerAddress
<1>2. /\ exec[r].rules = {RuleOf(Doing(r), CallerAddress(r))}
      /\ m \in DOMAIN work.actions /\ Doing(r) = work.actions[m]
  BY <1>1, DoingTyped DEF AddsOnly, Doing, Calling
<1>3. CASE /\ lost \/ ~Accepted(exec[r].rules) \/ exec[r].rules \cap group' # {}
           /\ Proceeds(r, lost) \/ Redelivered(r, lost)
  <2>1. CASE lost
    BY <1>1, <1>3, <2>1, FinishOpens
  <2>2. CASE ~Accepted(exec[r].rules)
    <3>1. RuleOf(Doing(r), CallerAddress(r)).cidr = Cidr(CallerAddress(r))
      BY DEF RuleOf
    <3>2. ~Lets(r, m)
      BY <1>2, <2>2, <3>1 DEF Accepted, Lets
    <3> QED  BY <1>1, <1>3, <3>2, FinishOpens
  <2>3. CASE exec[r].rules \cap group' # {}
    <3>1. Opens(r, m)'
      BY <1>1, <1>2, <2>3 DEF Opens
    <3> QED  BY <1>1, <1>3, <3>1, FinishOpens
  <2> QED  BY <1>3, <2>1, <2>2, <2>3
<1>4. CASE /\ exec'[r].step = exec[r].step /\ exec'[r].rules = exec[r].rules
           /\ exec'[r].todo = exec[r].todo /\ exec'[r].outage = exec[r].outage
  <2>1. Doing(r)' = Doing(r)
    BY <1>4 DEF Doing
  <2>2. \A i \in DOMAIN work.actions : (Lets(r, i)' <=> Lets(r, i)) /\ (Opens(r, i) => Opens(r, i)')
    BY <1>1 DEF Lets, Opens
  <2>3. AddsOnly(r)'
    BY <1>1, <1>4, <2>1, <2>2 DEF AddsOnly
  <2> QED  BY <1>1, <2>3, OthersOpen
<1> QED  BY <1>3, <1>4

LEMMA AnswersOpen ==
    ASSUME OpenInv, OpeningPlan, NEW r \in Requests,
           Authorize(r) \/ Revoke(r) \/ Describe(r) \/ RevokeAll(r) \/ NoAnswer(r)
    PROVE  OpenInv'
<1>1. /\ TypeInv /\ TypeInv' /\ UNCHANGED work /\ \A q \in Requests \ {r} : exec'[q] = exec[q]
      /\ AddsOnly(r) /\ exec[r].rules \subseteq Rule /\ group \subseteq Rule
  BY AnswersTyped, EffectTyped DEF OpenInv
<1>2. exec[r].step = "authorize" /\ (Authorize(r) \/ NoAnswer(r))
  BY <1>1 DEF AddsOnly, Authorize, Revoke, Describe, RevokeAll, NoAnswer
<1>3. group' \subseteq Rule
  BY <1>1 DEF TypeInv, ExecTypeOK
<1>4. CASE Authorize(r)
  <2> DEFINE rules == exec[r].rules
  <2>1. PICK how \in {"ok", "error"} : Finish(r, how, FALSE)
    BY <1>4 DEF Authorize
  <2>2. Proceeds(r, FALSE) \/ Redelivered(r, FALSE)
    BY <1>1, <1>2, <1>3, <2>1, FinishTyped DEF Calling
  <2>3. /\ group' \in {group, group \cup rules}
        /\ ~Accepted(rules) \/ rules \cap group' # {}
    <3>1. rules # {}
      BY <1>1, <1>2 DEF AddsOnly
    <3> QED  BY <1>4, <3>1 DEF Authorize
  <2> QED  BY <1>1, <1>2, <2>2, <2>3, AuthorizeOpens
<1>5. CASE NoAnswer(r)
  <2>1. group' \in {group, group \cup exec[r].rules}
    BY <1>2, <1>5 DEF NoAnswer, Effect
  <2>2. CASE Continue(r, [exec[r] EXCEPT !.tries = @ + 1])
    <3> DEFINE y == [exec[r] EXCEPT !.tries = @ + 1]
    <3>1. exec[r] \in Event /\ exec \in [Requests -> Event]
      BY <1>1 DEF TypeInv, ExecTypeOK
    <3>2. /\ y.step = exec[r].step /\ y.rules = exec[r].rules /\ y.todo = exec[r].todo
          /\ y.outage = exec[r].outage
      BY <3>1 DEF Event
    <3> HIDE DEF y
    <3>3. exec'[r] = y
      BY <2>2, <3>1 DEF Continue, y
    <3> QED  BY <1>1, <1>2, <2>1, <3>2, <3>3, AuthorizeOpens
  <2>3. CASE Finish(r, "error", TRUE)
    <3>1. Proceeds(r, TRUE) \/ Redelivered(r, TRUE)
      BY <1>1, <1>2, <1>3, <2>3, FinishTyped DEF Calling
    <3> QED  BY <1>1, <1>2, <2>1, <3>1, AuthorizeOpens
  <2> QED  BY <1>5, <2>2, <2>3 DEF NoAnswer
<1> QED  BY <1>2, <1>4, <1>5

LEMMA OpenNext ==
    ASSUME OpenInv, [ExecNext]_execVars
    PROVE  OpenInv'
<1>1. TypeInv /\ TypeInv'
  BY TypeNext DEF OpenInv
<1>2. UNCHANGED work
  BY <1>1, StepTyped DEF ExecNext, EditedOutside, execVars
<1>3. CASE ~OpeningPlan
  BY <1>1, <1>2, <1>3 DEF OpenInv, OpeningPlan
<1>4. CASE OpeningPlan
  <2>1. CASE UNCHANGED execVars
    BY <1>1, <2>1 DEF execVars, OpenInv, OpeningPlan, AddsOnly, Doing, CallerAddress, Lets, Opens
  <2>2. ASSUME NEW r \in Requests, AuditEvent(r) \/ Refresh(r) \/ ScheduledJob(r)
        PROVE  OpenInv'
    <3>1. /\ \A q \in Requests \ {r} : exec'[q] = exec[q]
          /\ exec'[r].step = "lookup" /\ UNCHANGED <<group, work>>
      BY <1>1, <2>2, BeginsTyped DEF AuditEvent, Refresh, ScheduledJob
    <3>2. AddsOnly(r)'
      BY <3>1 DEF AddsOnly
    <3> QED  BY <1>1, <1>4, <3>1, <3>2, OthersOpen
  <2>3. ASSUME NEW r \in Requests, LookupFails(r)
        PROVE  OpenInv'
    <3>1. /\ \A q \in Requests \ {r} : exec'[q] = exec[q]
          /\ exec'[r].step \in {"lookup", "ended"} /\ exec'[r].outage
          /\ UNCHANGED <<group, work>>
      BY <1>1, <2>3, LookupFailsTyped
    <3>2. AddsOnly(r)'
      BY <3>1 DEF AddsOnly
    <3> QED  BY <1>1, <1>4, <3>1, <3>2, OthersOpen
  <2>4. ~EditedOutside
    BY <1>4 DEF EditedOutside, OpeningPlan
  <2> QED  BY <1>4, <2>1, <2>2, <2>3, <2>4, LookupOpens, ExecuteOpens, AnswersOpen
           DEF ExecNext, Step
<1> QED  BY <1>3, <1>4

LEMMA OpenInit == ExecInit => OpenInv
<1> SUFFICES ASSUME ExecInit PROVE OpenInv
  OBVIOUS
<1>1. \A r \in Requests : exec[r] = Idle /\ Idle.step = "idle"
  BY DEF ExecInit, Idle
<1> QED  BY <1>1, TypeInit DEF OpenInv, AddsOnly

\* Where every action adds a rule and nobody edits the group outside, an event that has
\* ended without an outage has let its caller in by every rule that its actions name,
\* however events overlap, whatever answers are lost and whatever actions fail
\* (AuditLogHelper.handleAuditEvent, ActionController.refresh, EC2Service).
THEOREM CallersGetIn == ExecSpec => []OpensForCaller
<1>1. OpenInv => OpensForCaller
  <2> SUFFICES ASSUME OpenInv, ~work.outside,
                      \A a \in ToSet(work.actions) : a.type = "add_inbound_rule",
                      NEW r \in Requests, exec[r].step = "ended", ~exec[r].outage,
                      NEW a \in ToSet(work.actions), a.enabled,
                      a.trigger = work.trigger[r], a.trigger # "scheduled_job",
                      ValidPorts(a.ports), Cidr(CallerAddress(r)).form = "v4cidr"
               PROVE  RuleOf(a, CallerAddress(r)) \in group
    BY DEF OpensForCaller
  <2>1. OpeningPlan
    BY DEF OpeningPlan, ToSet
  <2>2. PICK i \in DOMAIN work.actions : work.actions[i] = a
    BY DEF ToSet
  <2>3. Lets(r, i)
    BY <2>2 DEF Lets
  <2> QED  BY <2>1, <2>2, <2>3 DEF OpenInv, AddsOnly, Opens
<1> QED  BY <1>1, OpenInit, OpenNext, PTL DEF ExecSpec
=============================================================================
