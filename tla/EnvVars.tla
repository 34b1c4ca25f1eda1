------------------------------ MODULE EnvVars ------------------------------
(***************************************************************************)
(* How the environment-variable API works: services/aws/environment-       *)
(* variable.service.ts and environment-variable-versioning.service.ts,     *)
(* with the update of a container's image, which writes the same task      *)
(* definitions.                                                            *)
(*                                                                         *)
(* Task definitions are immutable.  A request reads the variables of the   *)
(* containers from the revisions their services run, computes new ones,    *)
(* reads the definition of the service once more, registers a new revision *)
(* that differs from it in one container, and makes the service run it.    *)
(* Each of these calls to AWS is one action, and each may fail; there is   *)
(* no lock between them.  A call that reads a service and the definition   *)
(* it runs is one action, since only the first of its two steps can give   *)
(* different answers.                                                      *)
(*                                                                         *)
(* Bounds: MaxRevisions of each service (AWS has a limit as well).         *)
(***************************************************************************)
EXTENDS EnvRequests, FiniteSets

CONSTANTS
    MaxRevisions,
    InitialDefs,   \* what the containers may run at first
    Exclusive      \* no two requests use the same service at the same time

ASSUME RevisionsAssumption == MaxRevisions \in [Services -> Nat \ {0}]

ASSUME InitialAssumption == InitialDefs \subseteq [Containers -> ContainerDef]

VARIABLES
    revisions,     \* the task definitions registered for each service
    current,       \* the number of the revision each service runs
    req            \* the requests

vars == <<revisions, current, req>>

Sides == {"source", "target"}
Reads == {"sourceEnv", "sourceSecret", "targetEnv", "targetSecret"}

\* A request: the readings still to come, what it has read, the container it
\* writes now, and the definition it has read again and will change.
Request ==
    [ask : Asks, pc : {"read", "base", "register", "update", "answer"},
     toRead : SUBSET Reads, seen : [Sides -> Vars],
     writing : Sides, base : UNION {TaskDef(s) : s \in Services},
     revision : Nat, result : {"none", "ok", "error"}]

ASSUME NoRequestAssumption ==
    NoRequest \notin Request \cup [ask : Asks, stage : Sides \cup {"done", "failed"}]

Current(s) == revisions[s][current[s]]
Running(c) == Current(ServiceOf[c])[c]

Side(ask, side) == IF side = "source" THEN ask.source ELSE ask.target
Written(x) == Side(x.ask, x.writing)

Active(r) == req[r] # NoRequest
At(r, pc) == Active(r) /\ req[r].pc = pc

----------------------------------------------------------------------------
\* The computations on variables.

Added(old, new) == [k \in Keys |-> IF old[k] = Absent THEN new[k] ELSE old[k]]
Edited(old, new) == [k \in Keys |-> IF new[k] # Absent THEN new[k] ELSE old[k]]
Removed(old, gone) == [k \in Keys |-> IF gone[k] # Absent THEN Absent ELSE old[k]]

\* The definitions named Mutant... are faults of the code that the properties
\* below must detect; no specification uses them.

MutantMerged(source, target, names) ==
    [k \in Keys |-> IF k[1] \in names /\ k[2] = "env" THEN source[k] ELSE target[k]]

\* The variables `names` of the target give way to those of the source.
Merged(source, target, names) ==
    [k \in Keys |-> IF k[1] \in names THEN source[k] ELSE target[k]]

Remaining(source, names) ==
    [k \in Keys |-> IF k[1] \in names THEN Absent ELSE source[k]]

\* Every variable asked for is there.
HasNames(v, names) == \A n \in names : \E k \in Support(v) : k[1] = n

\* The definition of the container written, from the readings and the one of
\* the base revision.  A rollback keeps the secrets of the base.
Computed(x, old) ==
    LET op == x.ask.op
        source == x.seen["source"]
        target == x.seen["target"]
    IN  [vars |-> IF op = "add" THEN Added(target, x.ask.vars)
                  ELSE IF op = "edit" THEN Edited(target, x.ask.vars)
                  ELSE IF op = "remove" THEN Removed(target, x.ask.vars)
                  ELSE IF op = "copy" /\ x.ask.names = {} THEN source
                  ELSE IF op = "move" /\ x.writing = "source"
                         THEN Remaining(source, x.ask.names)
                  ELSE IF op \in {"copy", "move"}
                         THEN Merged(source, target, x.ask.names)
                  ELSE IF op = "rollback"
                         THEN [k \in Keys |-> IF k[2] = "env" THEN source[k] ELSE old.vars[k]]
                  ELSE old.vars,
         image |-> IF op = "image" THEN x.ask.image ELSE old.image]

\* The errors found once the readings `toRead` are all that is missing.
Refused(x) ==
    \/ /\ x.ask.op \in {"edit", "remove"}
       /\ x.toRead = {}
       /\ ~(Support(x.ask.vars) \subseteq Support(x.seen["target"]))
    \/ /\ x.ask.op \in {"copy", "move"}
       /\ x.toRead \cap {"sourceEnv", "sourceSecret"} = {}
       /\ \/ ~HasNames(x.seen["source"], x.ask.names)
          \/ Support(x.seen["source"]) = {}

----------------------------------------------------------------------------
\* The course of a request.

\* What each operation reads, apart from the base definition.
ReadsOf(op) ==
    IF op \in {"add", "edit", "remove"} THEN {"targetEnv", "targetSecret"}
    ELSE IF op \in {"copy", "move"} THEN Reads
    ELSE IF op = "rollback" THEN {"sourceEnv"}
    ELSE {}

Start(r, ask) ==
    /\ ~Active(r)
    /\ Exclusive => \A t \in Requests :
                       Active(t) => Uses(req[t].ask) \cap Uses(ask) = {}
    /\ req' = [req EXCEPT ![r] =
           [ask |-> ask, pc |-> IF ReadsOf(ask.op) = {} THEN "base" ELSE "read",
            toRead |-> ReadsOf(ask.op),
            seen |-> [side \in Sides |-> NoVars],
            writing |-> "target", base |-> Current(ServiceOf[ask.target]),
            revision |-> 0, result |-> "none"]]
    /\ UNCHANGED <<revisions, current>>

\* The request ends with an error, at a call to AWS that fails or a check.
FailWith(r) == req' = [req EXCEPT ![r].pc = "answer", ![r].result = "error"]

\* A call to AWS that changes nothing fails.
CallFails(r) ==
    /\ Active(r)
    /\ req[r].pc \in {"read", "base", "register", "update"}
    /\ FailWith(r)
    /\ UNCHANGED <<revisions, current>>

\* Copy and move read one after the other; the two readings of add, edit and
\* remove are under way at the same time.
Rank == [sourceEnv |-> 1, sourceSecret |-> 2, targetEnv |-> 3, targetSecret |-> 4]

Due(x, read) ==
    /\ read \in x.toRead
    /\ x.ask.op \in {"copy", "move"} => \A other \in x.toRead : Rank[read] <= Rank[other]

\* The revision that is read: an older one for a rollback or a copy that names
\* one, else the one the service runs.
RevisionRead(ask, s) ==
    IF ask.op \in {"copy", "rollback"} /\ ask.revision # 0
      THEN ask.revision ELSE current[s]

Read(r, read) ==
    LET x == req[r]
        side == IF read \in {"sourceEnv", "sourceSecret"} THEN "source" ELSE "target"
        kind == IF read \in {"sourceEnv", "targetEnv"} THEN "env" ELSE "secret"
        c == Side(x.ask, side)
        s == ServiceOf[c]
        n == IF side = "source" THEN RevisionRead(x.ask, s) ELSE current[s]
    IN
    /\ At(r, "read")
    /\ Due(x, read)
    /\ IF n \notin DOMAIN revisions[s]
         THEN FailWith(r)
         ELSE LET y == [x EXCEPT
                    !.toRead = @ \ {read},
                    !.seen[side] = [k \in Keys |-> IF k[2] = kind
                                                     THEN revisions[s][n][c].vars[k]
                                                     ELSE @[k]]]
              IN  IF Refused(y)
                    THEN FailWith(r)
                    ELSE req' = [req EXCEPT ![r] =
                             [y EXCEPT !.pc = IF y.toRead = {} THEN "base" ELSE "read"]]
    /\ UNCHANGED <<revisions, current>>

MutantReadBase(r) ==
    /\ At(r, "base")
    /\ req' = [req EXCEPT ![r].pc = "register",
                          ![r].base = revisions[ServiceOf[Written(req[r])]][1]]
    /\ UNCHANGED <<revisions, current>>

\* The definition is read again before it is changed.
ReadBase(r) ==
    /\ At(r, "base")
    /\ req' = [req EXCEPT ![r].pc = "register",
                          ![r].base = Current(ServiceOf[Written(req[r])])]
    /\ UNCHANGED <<revisions, current>>

MutantRegister(r) ==
    LET s == ServiceOf[Written(req[r])] IN
    /\ At(r, "register")
    /\ req' = [req EXCEPT ![r].pc = "update", ![r].revision = Len(revisions[s]) + 1]
    /\ UNCHANGED <<revisions, current>>

\* A new revision, equal to the base but for one container.  When the answer is
\* lost the call is sent again, or fails.
Register(r) ==
    LET x == req[r]
        c == Written(x)
        s == ServiceOf[c]
    IN
    /\ At(r, "register")
    /\ Len(revisions[s]) < MaxRevisions[s]
    /\ revisions' = [revisions EXCEPT ![s] =
                        Append(@, [x.base EXCEPT ![c] = Computed(x, @)])]
    /\ \/ req' = [req EXCEPT ![r].pc = "update",
                             ![r].revision = Len(revisions[s]) + 1]
       \/ UNCHANGED req
       \/ FailWith(r)
    /\ UNCHANGED current

\* The service runs the new revision.  A move goes on with its source.
UpdateService(r) ==
    LET x == req[r]
        s == ServiceOf[Written(x)]
    IN
    /\ At(r, "update")
    /\ current' = [current EXCEPT ![s] = x.revision]
    /\ \/ /\ x.ask.op = "move" /\ x.writing = "target"
          /\ req' = [req EXCEPT ![r].pc = "base", ![r].writing = "source"]
       \/ /\ ~(x.ask.op = "move" /\ x.writing = "target")
          /\ req' = [req EXCEPT ![r].pc = "answer", ![r].result = "ok"]
       \/ FailWith(r)
    /\ UNCHANGED revisions

\* The handler answers.
Answer(r) ==
    /\ At(r, "answer")
    /\ req' = [req EXCEPT ![r] = NoRequest]
    /\ UNCHANGED <<revisions, current>>

\* The process stops, by a crash or because the audit log could not be written:
\* the handler has answered then, answers again in its catch block, and throws.
Stop ==
    /\ req' = [r \in Requests |-> NoRequest]
    /\ UNCHANGED <<revisions, current>>

----------------------------------------------------------------------------

Init ==
    /\ \E d \in InitialDefs :
         revisions = [s \in Services |-> <<[c \in ContainersOf(s) |-> d[c]]>>]
    /\ current = [s \in Services |-> 1]
    /\ req = [r \in Requests |-> NoRequest]

Next ==
    \/ \E r \in Requests :
         \/ \E ask \in Asks : Start(r, ask)
         \/ \E read \in Reads : Read(r, read)
         \/ ReadBase(r) \/ Register(r) \/ UpdateService(r)
         \/ CallFails(r) \/ Answer(r)
    \/ Stop

Spec == Init /\ [][Next]_vars

----------------------------------------------------------------------------
\* Properties.

\* Every variable has its type.
TypeOK ==
    /\ revisions = [s \in Services |-> revisions[s]]
    /\ current = [s \in Services |-> current[s]]
    /\ \A s \in Services :
         /\ revisions[s] \in Seq(TaskDef(s))
         /\ Len(revisions[s]) <= MaxRevisions[s]
         /\ current[s] \in DOMAIN revisions[s]
    /\ req \in [Requests -> Request \cup {NoRequest}]

\* A move between two containers loses no variable, whatever fails and wherever
\* the process stops: from the reading of the source on, each variable it was
\* asked to move is in the source or in the target, with its value.
MoveLosesNothing ==
    \A r \in Requests :
        Active(r) /\ req[r].ask.op = "move"
                  /\ req[r].ask.source # req[r].ask.target =>
            \A k \in Support(Named(req[r].seen["source"], req[r].ask.names)) :
                req[r].seen["source"][k] \in {Running(req[r].ask.source).vars[k],
                                           Running(req[r].ask.target).vars[k]}

\* The API implements the store of EnvStore: when no two requests use the same
\* service at the same time, each takes effect at one moment, exactly as asked,
\* or not at all; the other containers of the service, the secrets a rollback
\* does not touch and the image stay what they are.
Stage(x) ==
    CASE x.result = "ok" -> "done"
      [] x.result = "error" -> "failed"
      [] OTHER -> x.writing

Store == INSTANCE EnvStore WITH
    store <- [c \in Containers |-> Running(c)],
    history <- revisions,
    pending <- [r \in Requests |->
                   IF Active(r) THEN [ask |-> req[r].ask, stage |-> Stage(req[r])]
                                ELSE NoRequest]

AtomicRequests == Store!Spec

----------------------------------------------------------------------------
\* What the comments of environment-variable-versioning.service.ts say.

\* "Move environment variables from one service to another (copy + delete from
\* source)": after a move that succeeded the target has the variables.
MoveDelivers ==
    \A r \in Requests :
        At(r, "answer") /\ req[r].result = "ok" /\ req[r].ask.op = "move" =>
            \A k \in Support(Named(req[r].seen["source"], req[r].ask.names)) :
                Running(req[r].ask.target).vars[k] = req[r].seen["source"][k]
=============================================================================
