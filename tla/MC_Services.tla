----------------------------- MODULE MC_Services -----------------------------
(***************************************************************************)
(* Small instances of the two components that talk to AWS, DataLoader and  *)
(* ActionExecution.  They share no state, so a behaviour exercises one of  *)
(* them.                                                                   *)
(***************************************************************************)
EXTENDS DataLoader, ActionExecution, TLC

MCClusterOf == [s \in 1..4 |-> IF s = 4 THEN "west" ELSE "east"]

Plan(kinds, loads, services) == [kinds |-> kinds, loads |-> loads, services |-> services]

\* Each kind of load alone, more services than a batch holds; legacy loads that
\* share the cache.
NoLoads == Plan({}, {}, {})
MCLoadPlans ==
    {NoLoads,
     Plan({"progressive"}, {1}, {1, 2, 4}),
     Plan({"legacy"}, {1}, {1, 4}),
     Plan({"legacy"}, {1, 2}, {}),
     Plan({"inventory", "services", "tasks"}, {1}, {1, 2, 3})}

V4(host) == [host |-> host, form |-> "v4"]
Home == V4("home")
From(address) == [forwarded |-> NoValue, realIp |-> address, cfIp |-> NoValue]
Opened(ports, address) ==
    [protocol |-> "tcp", from |-> ports[1], to |-> ports[2], cidr |-> [address EXCEPT !.form = "v4cidr"]]

Does(type, protocol, ports, ip) ==
    [type |-> type, trigger |-> "user_login", enabled |-> TRUE,
     protocol |-> protocol, ports |-> ports, ip |-> ip]
Adds(ports) == Does("add_inbound_rule", "tcp", ports, NoValue)
Removes(ports, ip) == Does("remove_inbound_rule", "tcp", ports, ip)
RemovesAll(protocol, ports) == Does("remove_all_inbound_rules", protocol, ports, NoValue)

Doings(actions, one, two, rules, overlap, outside) ==
    [actions |-> actions, trigger |-> [r \in Requests |-> "user_login"],
     headers |-> (1 :> one) @@ (2 :> two), group |-> rules,
     overlap |-> overlap, outside |-> outside]
On(trigger, w) ==
    [w EXCEPT !.trigger = [r \in Requests |-> IF r = 1 THEN trigger ELSE NoValue],
              !.actions = [i \in DOMAIN @ |-> [@[i] EXCEPT !.trigger = trigger]]]

Unknown == From(NoValue)
NoEvents == [Doings(<<>>, Unknown, Unknown, {}, FALSE, FALSE) EXCEPT
               !.trigger = [r \in Requests |-> NoValue]]
Standing == {Opened(<<1, 1>>, Home), Opened(<<1, 2>>, Home), Opened(<<2, 2>>, V4("any"))}

\* Events alone: all that the actions can say, ports that are wrong in each way.
\* Logins that overlap; an editor beside them; page refreshes; jobs.
MCExecPlans ==
    LET opens == <<Adds(<<2, 1>>), Adds(<<1, 2>>), Adds(<<1>>)>>
        renews == <<RemovesAll("tcp", <<1, 2>>), Removes(<<1>>, Home), Adds(<<2>>),
                    Does("send_email_notification", NoValue, NoValue, NoValue)>>
        closes == <<RemovesAll(NoValue, NoValue), Adds(<<2, 3>>), Removes(<<2>>, NoValue)>>
        six == [host |-> "home", form |-> "v6"]
    IN
    {NoEvents,
     Doings(renews, From(Home), Unknown, Standing, FALSE, FALSE),
     Doings(closes, From(Home), From(six), Standing, FALSE, FALSE),
     Doings(<<RemovesAll("udp", <<1>>), RemovesAll("tcp", <<NaN, 1>>), Adds(<<0>>), Adds(<<1, 2, 2>>),
              [Adds(<<2>>) EXCEPT !.enabled = FALSE]>>,
            From(six), From(Home), Standing, FALSE, FALSE),
     Doings(opens, From(Home), From(Home), {}, TRUE, FALSE),
     Doings(closes, From(Home), From(Home), Standing, TRUE, FALSE),
     Doings(<<RemovesAll(NoValue, NoValue), Adds(<<1>>)>>, From(Home), From(Home),
            {Opened(<<1, 1>>, Home), Opened(<<1, 2>>, Home)}, TRUE, TRUE),
     On("page_refresh", Doings(opens, From([Home EXCEPT !.form = "v4cidr"]), Unknown, {}, TRUE, FALSE)),
     On("scheduled_job", Doings(closes, Unknown, Unknown, Standing, TRUE, TRUE)),
     On("scheduled_job", Doings(<<Adds(<<1>>)>>, Unknown, Unknown, {}, TRUE, FALSE))}

Init ==
    /\ LoaderInit /\ ExecInit
    /\ plan = NoLoads \/ work = NoEvents

Next ==
    \/ LoaderNext /\ UNCHANGED execVars
    \/ ExecNext /\ UNCHANGED loaderVars

vars == <<loaderVars, execVars>>

Spec == Init /\ [][Next]_vars /\ LoaderFairness /\ ExecFairness
=============================================================================
