--------------------------- MODULE ActionExecution ---------------------------
(***************************************************************************)
(* Executing the actions of an organization against a security group:      *)
(* audit-log.helper.ts, the refresh handler of action.controller.ts and    *)
(* handleScheduledAction, over action.helper.ts, rules-helper.ts and       *)
(* services/aws/ec2.service.ts.                                            *)
(*                                                                         *)
(* An event (a login, a page refresh, a job of the scheduler) executes the *)
(* enabled actions of its trigger one after the other, on behalf of one    *)
(* caller.  Events overlap, and somebody else may edit the group.          *)
(*                                                                         *)
(* EC2, external, holds the group: a set of rules.  A call is answered     *)
(* from it, or gets no answer; then it may have had its effect, and is     *)
(* sent again, by the SDK or by backoffAndRetry.  Bounds: Tries for a call *)
(* and Deliveries for a job of the scheduler; the ports end at MaxPort.    *)
(* All actions of a workload are about one group; errors of EC2 that no    *)
(* retry helps with, its limits included, are like a lost call.            *)
(***************************************************************************)
EXTENDS Integers, Sequences, FiniteSets, SequencesExt

CONSTANTS
    Requests,      \* the events of a behaviour
    Hosts,         \* of callers
    MaxPort,
    NaN,           \* what is not a port number
    NoValue,       \* an optional field that is left out
    Tries, Deliveries,
    Workloads      \* actions, events, and what overlaps with them

Protocols == {"tcp", "udp"}
Triggers == {"user_login", "page_refresh", "scheduled_job"}
Address == [host : Hosts \cup {"localhost", "any"}, form : {"v4", "v4cidr", "v6", "v6cidr", "name"}]

\* The address of a request without the headers of a proxy, and of a job.
Localhost == [host |-> "localhost", form |-> "v4"]
JobAddress == [host |-> "any", form |-> "v4"]

Rule == [protocol : Protocols, from : 1..MaxPort, to : 1..MaxPort, cidr : Address]

OneRule == {"add_inbound_rule", "remove_inbound_rule"}

\* `ports` are the numbers between the dashes of portRange.  An action for one rule
\* names its protocol and ports.
Action ==
    {a \in [type : {"add_inbound_rule", "remove_inbound_rule", "remove_all_inbound_rules",
                    "send_email_notification"},
            trigger : Triggers, enabled : BOOLEAN,
            protocol : Protocols \cup {NoValue}, ports : Seq(Int \cup {NaN}) \cup {NoValue},
            ip : Address \cup {NoValue}] :
       a.type \in OneRule =>
         a.protocol # NoValue /\ a.ports # NoValue}

Headers == [forwarded : Address \cup {NoValue}, realIp : Address \cup {NoValue},
            cfIp : Address \cup {NoValue}]

Workload == [actions : Seq(Action), trigger : [Requests -> Triggers \cup {NoValue}],
             headers : [Requests -> Headers], group : SUBSET Rule,
             overlap : BOOLEAN, outside : BOOLEAN]

ASSUME ExecAssumption ==
    /\ MaxPort \in Nat \ {0} /\ Tries \in Nat \ {0} /\ Deliveries \in Nat
    /\ NaN \notin Int
    /\ \A w \in Workloads : w \in Workload

VARIABLES
    group,         \* the rules of the security group
    exec,          \* the events
    work           \* the workload of this behaviour

execVars == <<group, exec, work>>

Idle == [step |-> "idle", todo |-> {}, rules |-> {}, tries |-> 0, deliveries |-> 0,
         before |-> {}, outage |-> FALSE, last |-> "none"]

\* `todo` are the positions of the actions still to do, `rules` are what the call in
\* flight is about, `last` is how the last action went, `before` is the group when the
\* event began.
Event == [step : {"idle", "lookup", "next", "authorize", "revoke", "describe", "revokeAll",
                  "ended"},
          todo : SUBSET Nat, rules : SUBSET Rule, tries : 0..(Tries - 1),
          deliveries : 0..Deliveries, before : SUBSET Rule, outage : BOOLEAN,
          last : {"none", "ok", "error"}]

----------------------------------------------------------------------------
\* Addresses and ports.

\* The definitions named Mutant... are faults of the code that the properties
\* below must detect; no specification uses them.

\* extractIpMiddleware; a job has the address that scheduleJob gave it.
CallerAddress(r) ==
    LET h == work.headers[r] IN
    IF work.trigger[r] = "scheduled_job" THEN JobAddress
    ELSE IF h.forwarded # NoValue THEN h.forwarded
    ELSE IF h.realIp # NoValue THEN h.realIp
    ELSE IF h.cfIp # NoValue THEN h.cfIp
    ELSE Localhost

\* parsePortRange: of more than two numbers the first two count.
FromPort(ports) == ports[1]
ToPort(ports) == ports[IF Len(ports) = 1 THEN 1 ELSE 2]

MutantValidPorts(ports) ==
    /\ FromPort(ports) # NaN /\ ToPort(ports) # NaN
    /\ FromPort(ports) \in 1..MaxPort
    /\ FromPort(ports) <= ToPort(ports)

ValidPorts(ports) ==
    /\ FromPort(ports) # NaN /\ ToPort(ports) # NaN
    /\ FromPort(ports) \in 1..MaxPort /\ ToPort(ports) \in 1..MaxPort
    /\ FromPort(ports) <= ToPort(ports)

\* ensureCidrFormat
Cidr(a) ==
    CASE a.form = "v4" -> [a EXCEPT !.form = "v4cidr"]
      [] a.form = "v6" -> [a EXCEPT !.form = "v6cidr"]
      [] OTHER -> a

RuleOf(action, address) ==
    [protocol |-> action.protocol, from |-> FromPort(action.ports),
     to |-> ToPort(action.ports), cidr |-> Cidr(address)]

RemovedAddress(action, caller) == IF action.ip # NoValue THEN action.ip ELSE caller

\* The filters of removeAllInboundRules.
Matches(action, rule) ==
    /\ action.protocol # NoValue => rule.protocol = action.protocol
    /\ action.ports # NoValue => /\ rule.from = FromPort(action.ports)
                                 /\ rule.to = ToPort(action.ports)

----------------------------------------------------------------------------
\* Events.

Doing(r) == work.actions[Min(exec[r].todo)]

\* An event goes on as x.
Continue(r, x) == exec' = [exec EXCEPT ![r] = x]

\* One more call to EC2 begins.
Send(r, step, rules) ==
    Continue(r, [exec[r] EXCEPT !.step = step, !.rules = rules, !.tries = 0])

MutantNextAction(r, how, lost) ==
    LET x == exec[r]
        rest == IF how = "ok" THEN x.todo \ {Min(x.todo)} ELSE {}
    IN  Continue(r, [x EXCEPT !.step = IF rest = {} THEN "ended" ELSE "next",
                       !.todo = rest, !.rules = {}, !.tries = 0, !.last = how,
                       !.outage = @ \/ lost])

\* The loops over actions catch the error of one and go on.
NextAction(r, how, lost) ==
    LET x == exec[r]
        rest == x.todo \ {Min(x.todo)}
    IN  Continue(r, [x EXCEPT !.step = IF rest = {} THEN "ended" ELSE "next",
                       !.todo = rest, !.rules = {}, !.tries = 0, !.last = how,
                       !.outage = @ \/ lost])

\* A job that fails, or cannot be marked as complete, is delivered again.
DeliverAgain(r, lost) ==
    /\ work.trigger[r] = "scheduled_job" /\ exec[r].deliveries < Deliveries
    /\ Continue(r, [exec[r] EXCEPT !.step = "lookup", !.todo = {}, !.rules = {}, !.tries = 0,
                      !.deliveries = @ + 1, !.last = "error", !.outage = @ \/ lost])

\* The end of an action.
Finish(r, how, lost) ==
    NextAction(r, how, lost) \/ DeliverAgain(r, lost)

Begins(r, trigger) ==
    /\ exec[r].step = "idle" /\ work.trigger[r] = trigger
    /\ ~work.overlap => \A q \in Requests : exec[q].step \in {"idle", "ended"}
    /\ Continue(r, [Idle EXCEPT !.step = "lookup", !.before = group])
    /\ UNCHANGED <<group, work>>

\* AuditLogHelper.create, with what follows a login.
AuditEvent(r) == Begins(r, "user_login")

\* ActionController.refresh
Refresh(r) == Begins(r, "page_refresh")

\* pg-boss delivers a job to handleScheduledAction.
ScheduledJob(r) == Begins(r, "scheduled_job")

\* getActive; for a job findOne, of an action that must be enabled.
Active(r) ==
    LET found == {i \in DOMAIN work.actions : /\ work.actions[i].enabled
                                              /\ work.actions[i].trigger = work.trigger[r]}
    IN  IF work.trigger[r] = "scheduled_job" /\ found # {} THEN {Min(found)} ELSE found

Lookup(r) ==
    /\ exec[r].step = "lookup"
    /\ Continue(r, [exec[r] EXCEPT !.step = IF Active(r) = {} THEN "ended" ELSE "next",
                                   !.todo = Active(r)])
    /\ UNCHANGED <<group, work>>

\* The log cannot be written, or the actions cannot be read: nothing is executed.
LookupFails(r) ==
    /\ exec[r].step = "lookup"
    /\ \/ Continue(r, [exec[r] EXCEPT !.step = "ended", !.outage = TRUE])
       \/ DeliverAgain(r, TRUE)
    /\ UNCHANGED <<group, work>>

MutantExecute(r) ==
    LET a == Doing(r)
        caller == CallerAddress(r)
    IN
    /\ exec[r].step = "next"
    /\ \/ a.type = "remove_all_inbound_rules" /\ Send(r, "describe", {})
       \/ a.type = "send_email_notification" /\ Finish(r, "ok", FALSE)
       \/ a.type \in OneRule /\ ~ValidPorts(a.ports) /\ Finish(r, "error", FALSE)
       \/ /\ a.type = "add_inbound_rule" /\ ValidPorts(a.ports)
          /\ Send(r, "authorize", {RuleOf(a, caller)})
       \/ /\ a.type = "remove_inbound_rule" /\ ValidPorts(a.ports)
          /\ Send(r, "revoke", {RuleOf(a, caller)})
    /\ UNCHANGED <<group, work>>

\* ActionHelper.execute; wrong ports fail the action, notifications are not sent.
Execute(r) ==
    LET a == Doing(r)
        caller == CallerAddress(r)
    IN
    /\ exec[r].step = "next"
    /\ \/ a.type = "remove_all_inbound_rules" /\ Send(r, "describe", {})
       \/ a.type = "send_email_notification" /\ Finish(r, "ok", FALSE)
       \/ a.type \in OneRule /\ ~ValidPorts(a.ports) /\ Finish(r, "error", FALSE)
       \/ /\ a.type = "add_inbound_rule" /\ ValidPorts(a.ports)
          /\ Send(r, "authorize", {RuleOf(a, caller)})
       \/ /\ a.type = "remove_inbound_rule" /\ ValidPorts(a.ports)
          /\ Send(r, "revoke", {RuleOf(a, RemovedAddress(a, caller))})
    /\ UNCHANGED <<group, work>>

----------------------------------------------------------------------------
\* Answers of EC2.

Accepted(rules) == \A x \in rules : x.cidr.form = "v4cidr"

\* addInboundRuleForClientIp: a rule that is there already is an error.
Authorize(r) ==
    LET rules == exec[r].rules IN
    /\ exec[r].step = "authorize"
    /\ IF rules \cap group = {} /\ Accepted(rules)
         THEN group' = group \cup rules /\ Finish(r, "ok", FALSE)
         ELSE UNCHANGED group /\ Finish(r, "error", FALSE)
    /\ UNCHANGED work

\* removeInboundRuleForClientIp: a rule that is not there is none.
Revoke(r) ==
    LET rules == exec[r].rules IN
    /\ exec[r].step = "revoke"
    /\ IF Accepted(rules)
         THEN group' = group \ rules /\ Finish(r, "ok", FALSE)
         ELSE UNCHANGED group /\ Finish(r, "error", FALSE)
    /\ UNCHANGED work

\* removeAllInboundRules: the rules of the group, filtered.
Describe(r) ==
    LET a == Doing(r)
        found == {x \in group : Matches(a, x)}
    IN
    /\ exec[r].step = "describe"
    /\ IF group # {} /\ a.ports # NoValue /\ ~ValidPorts(a.ports)
         THEN Finish(r, "error", FALSE)
         ELSE \/ found = {} /\ Finish(r, "ok", FALSE)
              \/ found # {} /\ Send(r, "revokeAll", found)
    /\ UNCHANGED <<group, work>>

MutantRevokeAll(r) ==
    LET rules == exec[r].rules IN
    /\ exec[r].step = "revokeAll"
    /\ group' = IF rules \subseteq group THEN group \ rules ELSE group
    /\ Finish(r, "ok", FALSE)
    /\ UNCHANGED work

\* All described rules are revoked, or none if one is not there any more.
RevokeAll(r) ==
    LET rules == exec[r].rules IN
    /\ exec[r].step = "revokeAll"
    /\ IF rules \subseteq group
         THEN group' = group \ rules /\ Finish(r, "ok", FALSE)
         ELSE UNCHANGED group /\ Finish(r, "error", FALSE)
    /\ UNCHANGED work

\* What a call does whose answer gets lost.
Effect(r) ==
    LET rules == exec[r].rules IN
    CASE exec[r].step = "authorize" /\ Accepted(rules) -> group \cup rules
      [] exec[r].step = "revoke" -> group \ rules
      [] exec[r].step = "revokeAll" /\ rules \subseteq group -> group \ rules
      [] OTHER -> group

MutantNoAnswer(r) ==
    /\ exec[r].step \in {"authorize", "revoke", "describe", "revokeAll"}
    /\ group' \in {group, Effect(r)}
    /\ UNCHANGED <<exec, work>>

\* No answer, or one that says to come back later: the call is sent again.
NoAnswer(r) ==
    /\ exec[r].step \in {"authorize", "revoke", "describe", "revokeAll"}
    /\ group' \in {group, Effect(r)}
    /\ IF exec[r].tries < Tries - 1
         THEN Continue(r, [exec[r] EXCEPT !.tries = @ + 1])
         ELSE Finish(r, "error", TRUE)
    /\ UNCHANGED work

\* The group is edited elsewhere.
EditedOutside ==
    /\ work.outside
    /\ \E x \in work.group \cup {RuleOf(a, CallerAddress(r)) :
                                   a \in {b \in ToSet(work.actions) :
                                            b.type = "add_inbound_rule" /\ ValidPorts(b.ports)},
                                   r \in Requests} :
         group' = IF x \in group THEN group \ {x} ELSE group \cup {x}
    /\ UNCHANGED <<exec, work>>

----------------------------------------------------------------------------

ExecInit ==
    /\ work \in Workloads
    /\ group = work.group
    /\ exec = [r \in Requests |-> Idle]

Step(r) ==
    \/ Lookup(r) \/ LookupFails(r) \/ Execute(r)
    \/ Authorize(r) \/ Revoke(r) \/ Describe(r) \/ RevokeAll(r) \/ NoAnswer(r)

ExecNext ==
    \/ \E r \in Requests : AuditEvent(r) \/ Refresh(r) \/ ScheduledJob(r) \/ Step(r)
    \/ EditedOutside

\* An event that has begun goes on, and calls are answered or given up.
ExecFairness == \A r \in Requests : WF_execVars(Step(r))

ExecSpec == ExecInit /\ [][ExecNext]_execVars /\ ExecFairness

----------------------------------------------------------------------------
\* Properties.

ExecTypeOK ==
    /\ work \in Workloads
    /\ group \subseteq Rule
    /\ exec \in [Requests -> Event]
    /\ \A r \in Requests : exec[r].todo \subseteq DOMAIN work.actions

\* What an action says, apart from how it is executed.
Configured(action, caller, rules) ==
    IF action.type = "send_email_notification" THEN rules
    ELSE IF action.ports # NoValue /\ ~ValidPorts(action.ports) THEN rules
    ELSE CASE action.type = "remove_all_inbound_rules" ->
                {x \in rules : ~Matches(action, x)}
           [] action.type = "add_inbound_rule" ->
                IF Cidr(caller).form = "v4cidr" THEN rules \cup {RuleOf(action, caller)}
                ELSE rules
           [] OTHER -> rules \ {RuleOf(action, RemovedAddress(action, caller))}

Chosen(r) ==
    SelectSeq(work.actions, LAMBDA a : a.enabled /\ a.trigger = work.trigger[r])

\* The actions of an event that nothing overlaps with leave the group as they say,
\* one after the other, although calls are sent again after they took effect and
\* then fail (AuditLogHelper.handleAuditEvent, ActionController.refresh,
\* ActionHelper.execute, EC2Service).
GroupAsConfigured ==
    [][\A r \in Requests :
         (/\ exec[r].step # "ended" /\ exec'[r].step = "ended" /\ ~exec'[r].outage
          /\ ~work.overlap /\ ~work.outside /\ work.trigger[r] # "scheduled_job")
         => group' = FoldLeft(LAMBDA rules, a : Configured(a, CallerAddress(r), rules),
                              exec[r].before, Chosen(r))]_execVars

\* An action that is reported as done was done, however other events and editors
\* interleave with its calls: its rule is there, or no rule it found is left
\* (ActionHelper.execute, removeAllInboundRules).
SuccessMeansDone ==
    [][\A r \in Requests :
         (/\ exec[r].step \in {"authorize", "revoke", "revokeAll"}
          /\ exec'[r].step \in {"next", "ended"} /\ exec'[r].last = "ok")
         => IF exec[r].step = "authorize" THEN exec[r].rules \subseteq group'
            ELSE exec[r].rules \cap group' = {}]_execVars

\* Where nothing closes rules, every event lets its caller in by every rule that its
\* actions name, also when other events of the same caller add the same rules and
\* when other actions of the list fail (handleAuditEvent, refresh).
OpensForCaller ==
    (~work.outside /\ \A a \in ToSet(work.actions) : a.type = "add_inbound_rule") =>
        \A r \in Requests :
            exec[r].step = "ended" /\ ~exec[r].outage =>
                \A a \in ToSet(work.actions) :
                    /\ a.enabled /\ a.trigger = work.trigger[r] /\ a.trigger # "scheduled_job"
                    /\ ValidPorts(a.ports) /\ Cidr(CallerAddress(r)).form = "v4cidr"
                    => RuleOf(a, CallerAddress(r)) \in group

\* Every event comes to its end, whatever EC2 answers.
EventsEnd ==
    \A r \in Requests : exec[r].step = "lookup" ~> exec[r].step = "ended"
=============================================================================
