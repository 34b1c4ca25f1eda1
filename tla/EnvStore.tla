------------------------------ MODULE EnvStore ------------------------------
(***************************************************************************)
(* What the environment-variable API promises: a store of variables in     *)
(* which every request takes effect at one moment, exactly as asked, on    *)
(* the variables of that moment, and on one container only.  A move takes  *)
(* effect twice, on its target and then on its source.  A request that     *)
(* fails has taken effect as far as it came, or not at all.                *)
(*                                                                         *)
(* Every state of a service is put on record before the service runs it.   *)
(***************************************************************************)
EXTENDS EnvRequests

VARIABLES
    store,     \* the definition each container runs
    history,   \* the task definitions of each service on record
    pending    \* [ask, stage] of each request: `stage` is the effect that is
               \* next, "done" or "failed"

vars == <<store, history, pending>>

Stages == {"target", "source", "done", "failed"}

Init ==
    /\ store \in [Containers -> ContainerDef]
    /\ history = [s \in Services |-> <<[c \in ContainersOf(s) |-> store[c]]>>]
    /\ pending = [r \in Requests |-> NoRequest]

----------------------------------------------------------------------------
\* The effect of one request.

\* The variables copied: of the current definition or of one on record.
Origin(ask) ==
    IF ask.op \in {"copy", "rollback"} /\ ask.revision # 0
      THEN history[ServiceOf[ask.source]][ask.revision][ask.source].vars
      ELSE store[ask.source].vars

\* The request can be carried out now.
Possible(ask) ==
    /\ ask.op \in {"edit", "remove"} => Support(ask.vars) \subseteq Support(store[ask.target].vars)
    /\ ask.op \in {"copy", "rollback"} => ask.revision <= Len(history[ServiceOf[ask.source]])
    /\ ask.op = "copy" => Support(Origin(ask)) # {}
    /\ ask.op \in {"copy", "move"} => \A n \in ask.names : \E k \in Support(Origin(ask)) : k[1] = n

\* The value of variable k of the target afterwards.
Value(ask, k) ==
    LET own == store[ask.target].vars IN
    CASE ask.op = "add" -> IF own[k] = Absent THEN ask.vars[k] ELSE own[k]
      [] ask.op = "edit" -> IF ask.vars[k] # Absent THEN ask.vars[k] ELSE own[k]
      [] ask.op = "remove" -> IF ask.vars[k] # Absent THEN Absent ELSE own[k]
      [] ask.op \in {"copy", "move"} ->
           IF k[1] \in ask.names \/ ask.names = {} THEN Origin(ask)[k] ELSE own[k]
      [] ask.op = "rollback" -> IF k[2] = "env" THEN Origin(ask)[k] ELSE own[k]
      [] OTHER -> own[k]

AfterTarget(ask) ==
    [store EXCEPT ![ask.target] =
        [vars |-> [k \in Keys |-> Value(ask, k)],
         image |-> IF ask.op = "image" THEN ask.image ELSE @.image]]

\* The second effect of a move.
AfterSource(ask) ==
    [store EXCEPT ![ask.source].vars =
        [k \in Keys |-> IF k[1] \in ask.names THEN Absent ELSE @[k]]]

\* The store that the next effect of request r makes, and its service.
After(r) ==
    IF pending[r].stage = "target" THEN AfterTarget(pending[r].ask)
                                   ELSE AfterSource(pending[r].ask)

Changed(r) ==
    ServiceOf[IF pending[r].stage = "target" THEN pending[r].ask.target
                                             ELSE pending[r].ask.source]

Version(r) == [c \in ContainersOf(Changed(r)) |-> After(r)[c]]

Waiting(r) ==
    /\ pending[r] # NoRequest
    /\ pending[r].stage \in {"target", "source"}
    /\ pending[r].stage = "target" => Possible(pending[r].ask)

----------------------------------------------------------------------------

Ask(r) ==
    /\ pending[r] = NoRequest
    /\ \E ask \in Asks :
         pending' = [pending EXCEPT ![r] = [ask |-> ask, stage |-> "target"]]
    /\ UNCHANGED <<store, history>>

\* The stage of r, or its failure at the same time.
GoesTo(r, stage) ==
    \E new \in {stage, "failed"} : pending' = [pending EXCEPT ![r].stage = new]

Record(r) ==
    /\ Waiting(r)
    /\ history' = [history EXCEPT ![Changed(r)] = Append(@, Version(r))]
    /\ GoesTo(r, pending[r].stage)
    /\ UNCHANGED store

TakeEffect(r) ==
    /\ Waiting(r)
    /\ \E i \in DOMAIN history[Changed(r)] : history[Changed(r)][i] = Version(r)
    /\ store' = After(r)
    /\ GoesTo(r, IF pending[r].ask.op = "move" /\ pending[r].stage = "target"
                   THEN "source" ELSE "done")
    /\ UNCHANGED history

Fail(r) ==
    /\ pending[r] # NoRequest
    /\ pending[r].stage \in {"target", "source"}
    /\ pending' = [pending EXCEPT ![r].stage = "failed"]
    /\ UNCHANGED <<store, history>>

Answer(r) ==
    /\ pending[r] # NoRequest
    /\ pending[r].stage \in {"done", "failed"}
    /\ pending' = [pending EXCEPT ![r] = NoRequest]
    /\ UNCHANGED <<store, history>>

\* The process stops.
Stop ==
    /\ pending' = [r \in Requests |-> NoRequest]
    /\ UNCHANGED <<store, history>>

Next ==
    \/ \E r \in Requests :
         Ask(r) \/ Record(r) \/ TakeEffect(r) \/ Fail(r) \/ Answer(r)
    \/ Stop

Spec == Init /\ [][Next]_vars
=============================================================================
