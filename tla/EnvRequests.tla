---------------------------- MODULE EnvRequests ----------------------------
(***************************************************************************)
(* Environment variables of ECS containers and the requests that change    *)
(* them: the data that EnvStore and EnvVars share.                         *)
(*                                                                         *)
(* A task definition gives every container of a service its variables and  *)
(* its image.  A variable has a name and a kind: plain ("env", the         *)
(* `environment` of the container) or secret (its `secrets`, where the     *)
(* value is the ARN of the secret).  Cluster and service name together     *)
(* identify a service; containers are identified across services.          *)
(***************************************************************************)
EXTENDS Naturals, Sequences

CONSTANTS
    Services,
    Containers,
    ServiceOf,     \* [Containers -> Services]
    Names,         \* names of variables
    Values,        \* values, and ARNs of secrets
    Absent,        \* the container has no such variable
    Images,
    Requests,      \* requests that may be served at the same time
    NoRequest,     \* none is
    Asks           \* what they may ask for, a subset of Asked

Keys == Names \X {"env", "secret"}
Vars == [Keys -> Values \cup {Absent}]

\* The part of a task definition that differs between revisions.
ContainerDef == [vars : Vars, image : Images]
ContainersOf(s) == {c \in Containers : ServiceOf[c] = s}
TaskDef(s) == [ContainersOf(s) -> ContainerDef]

NoVars == [k \in Keys |-> Absent]
Support(v) == {k \in Keys : v[k] # Absent}
Named(v, names) == [k \in Keys |-> IF k[1] \in names THEN v[k] ELSE Absent]

(***************************************************************************)
(* What a request asks for.  The container it changes is `target`; copy    *)
(* and move take variables from `source`, a rollback from an older         *)
(* revision of the target itself.                                          *)
(*   add, edit, remove   vars: the variables added, their new values, the  *)
(*                       ones removed                                      *)
(*   copy                names, or all of them when there are none, from   *)
(*                       `revision` or, if that is 0, the current one      *)
(*   move                names                                             *)
(*   rollback            revision                                          *)
(*   image               the new image                                     *)
(***************************************************************************)
Asked ==
    [op : {"add", "edit", "remove"}, source : Containers, target : Containers,
     vars : Vars \ {NoVars}]
    \cup [op : {"copy"}, source : Containers, target : Containers,
          names : SUBSET Names, revision : Nat]
    \cup [op : {"move"}, source : Containers, target : Containers,
          names : (SUBSET Names) \ {{}}]
    \cup [op : {"rollback"}, source : Containers, target : Containers,
          revision : Nat \ {0}]
    \cup [op : {"image"}, source : Containers, target : Containers, image : Images]

\* The services whose task definition the request reads or changes.
Uses(ask) == {ServiceOf[ask.source], ServiceOf[ask.target]}

ASSUME ContainersAssumption == ServiceOf \in [Containers -> Services]

ASSUME AbsentAssumption == Absent \notin Values

ASSUME AsksAssumption ==
    \A ask \in Asks :
        /\ ask \in Asked
        /\ ask.op \notin {"copy", "move"} => ask.source = ask.target
=============================================================================
