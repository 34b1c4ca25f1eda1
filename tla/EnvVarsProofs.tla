--------------------------- MODULE EnvVarsProofs ---------------------------
(***************************************************************************)
(* Proofs about EnvVars, for every set of services, containers, variables, *)
(* requests and whatever they ask for.                                     *)
(***************************************************************************)
EXTENDS EnvVars, TLAPS

\* What the request of each operation carries.
LEMMA AskTypes ==
    ASSUME NEW ask \in Asks
    PROVE  /\ ask.source \in Containers
           /\ ask.target \in Containers
           /\ ask.op \in {"add", "edit", "remove", "copy", "move", "rollback", "image"}
           /\ ask.op \in {"add", "edit", "remove"} => ask.vars \in Vars
           /\ ask.op \in {"copy", "move"} => ask.names \subseteq Names
           /\ ask.op = "image" => ask.image \in Images
<1>1. ask \in Asked
  BY AsksAssumption
<1>2. CASE ask \in [op : {"add", "edit", "remove"}, source : Containers,
                    target : Containers, vars : Vars \ {NoVars}]
  BY <1>2
<1>3. CASE ask \in [op : {"copy"}, source : Containers, target : Containers,
                    names : SUBSET Names, revision : Nat]
  BY <1>3
<1>4. CASE ask \in [op : {"move"}, source : Containers, target : Containers,
                    names : (SUBSET Names) \ {{}}]
  BY <1>4
<1>5. CASE ask \in [op : {"rollback"}, source : Containers, target : Containers,
                    revision : Nat \ {0}]
  BY <1>5
<1>6. CASE ask \in [op : {"image"}, source : Containers, target : Containers,
                    image : Images]
  BY <1>6
<1> QED
  BY <1>1, <1>2, <1>3, <1>4, <1>5, <1>6 DEF Asked

\* The container a request writes and its service.
LEMMA WrittenTypes ==
    ASSUME NEW x \in Request
    PROVE  /\ x.ask \in Asks
           /\ Written(x) \in Containers
           /\ ServiceOf[Written(x)] \in Services
           /\ ServiceOf[Written(x)] \in Uses(x.ask)
           /\ Written(x) \in ContainersOf(ServiceOf[Written(x)])
<1>1. x.ask \in Asks
  BY DEF Request
<1>2. x.ask.source \in Containers /\ x.ask.target \in Containers
  BY <1>1, AskTypes
<1>3. Written(x) \in {x.ask.source, x.ask.target}
  BY DEF Written, Side
<1> QED
  BY <1>1, <1>2, <1>3, ContainersAssumption DEF Uses, ContainersOf

\* The computations on variables stay within Vars.
LEMMA VarsTypes ==
    ASSUME NEW old \in Vars, NEW new \in Vars, NEW names
    PROVE  /\ Added(old, new) \in Vars
           /\ Edited(old, new) \in Vars
           /\ Removed(old, new) \in Vars
           /\ Merged(new, old, names) \in Vars
           /\ Remaining(old, names) \in Vars
           /\ [k \in Keys |-> IF k[2] = "env" THEN new[k] ELSE old[k]] \in Vars
<1>1. \A k \in Keys : old[k] \in Values \cup {Absent} /\ new[k] \in Values \cup {Absent}
  BY DEF Vars
<1>2. Absent \in Values \cup {Absent}
  OBVIOUS
<1> QED
  BY <1>1, <1>2 DEF Vars, Added, Edited, Removed, Merged, Remaining

\* A container may have no variables.
LEMMA NoVarsType == NoVars \in Vars
BY DEF NoVars, Vars

\* What a request writes is a container definition.
LEMMA ComputedType ==
    ASSUME NEW x \in Request, NEW old \in ContainerDef
    PROVE  Computed(x, old) \in ContainerDef
<1> DEFINE source == x.seen["source"]
           target == x.seen["target"]
<1>1. source \in Vars /\ target \in Vars /\ old.vars \in Vars /\ old.image \in Images
  BY DEF Request, Sides, ContainerDef
<1>2. x.ask \in Asks
  BY DEF Request
<1>3. Computed(x, old).vars \in Vars
  <2> HIDE DEF source, target
  <2>1. CASE x.ask.op \in {"add", "edit", "remove"}
    <3>1. x.ask.vars \in Vars
      BY <1>2, <2>1, AskTypes
    <3> QED
      BY <1>1, <2>1, <3>1, VarsTypes DEF Computed, source, target
  <2>2. CASE x.ask.op = "copy"
    BY <1>1, <2>2, VarsTypes DEF Computed, source, target
  <2>3. CASE x.ask.op = "move"
    BY <1>1, <2>3, VarsTypes DEF Computed, source, target
  <2>4. CASE x.ask.op = "rollback"
    BY <1>1, <2>4, VarsTypes DEF Computed, source, target
  <2>5. CASE x.ask.op = "image"
    BY <1>1, <2>5 DEF Computed
  <2> QED
    BY <1>2, <2>1, <2>2, <2>3, <2>4, <2>5, AskTypes
<1>4. Computed(x, old).image \in Images
  BY <1>1, <1>2, AskTypes DEF Computed
<1> QED
  BY <1>3, <1>4 DEF Computed, ContainerDef

----------------------------------------------------------------------------
\* Type correctness.  It needs that the definition a request changes is one of
\* the service it writes, and that the revision it makes the service run is
\* registered for it.

Prepared(r) ==
    /\ At(r, "register") => req[r].base \in TaskDef(ServiceOf[Written(req[r])])
    /\ At(r, "update") =>
           req[r].revision \in DOMAIN revisions[ServiceOf[Written(req[r])]]

TypeInv == TypeOK /\ \A r \in Requests : Prepared(r)

\* The revisions and the ones in use are functions.
LEMMA FunctionTypes ==
    ASSUME TypeOK
    PROVE  /\ revisions \in [Services -> Seq(UNION {TaskDef(s) : s \in Services})]
           /\ current \in [Services -> Nat]
<1> DEFINE Defs == UNION {TaskDef(s) : s \in Services}
<1>1. ASSUME NEW s \in Services
      PROVE  revisions[s] \in Seq(Defs) /\ current[s] \in Nat
  <2>1. revisions[s] \in Seq(TaskDef(s)) /\ current[s] \in DOMAIN revisions[s]
    BY DEF TypeOK
  <2>2. TaskDef(s) \subseteq Defs
    OBVIOUS
  <2> HIDE DEF Defs
  <2>3. revisions[s] \in Seq(Defs)
    BY <2>1, <2>2
  <2> QED
    BY <2>1, <2>3
<1>2. revisions = [s \in Services |-> revisions[s]] /\ current = [s \in Services |-> current[s]]
  BY DEF TypeOK
<1> HIDE DEF Defs
<1> QED
  BY <1>1, <1>2 DEF Defs

\* The definition a service runs.
LEMMA CurrentType ==
    ASSUME TypeOK, NEW s \in Services
    PROVE  /\ Current(s) \in TaskDef(s)
           /\ \A n \in DOMAIN revisions[s] : revisions[s][n] \in TaskDef(s)
<1>1. revisions[s] \in Seq(TaskDef(s)) /\ current[s] \in DOMAIN revisions[s]
  BY DEF TypeOK
<1>2. \A n \in DOMAIN revisions[s] : revisions[s][n] \in TaskDef(s)
  BY <1>1
<1> QED
  BY <1>1, <1>2 DEF Current

\* A container of a revision.
LEMMA ContainerType ==
    ASSUME NEW s \in Services, NEW d \in TaskDef(s), NEW c \in ContainersOf(s)
    PROVE  d[c] \in ContainerDef /\ d[c].vars \in Vars
BY DEF TaskDef, ContainerDef

\* The services start with one revision each, which they run.
LEMMA TypeInit == Init => TypeInv
<1> SUFFICES ASSUME Init PROVE TypeInv
  OBVIOUS
<1>1. ASSUME NEW s \in Services
      PROVE  /\ revisions[s] \in Seq(TaskDef(s))
             /\ Len(revisions[s]) = 1
             /\ current[s] = 1
  <2>1. PICK d \in InitialDefs :
            revisions = [t \in Services |-> <<[c \in ContainersOf(t) |-> d[c]]>>]
    BY DEF Init
  <2>2. [c \in ContainersOf(s) |-> d[c]] \in TaskDef(s)
    BY InitialAssumption DEF TaskDef, ContainersOf
  <2> QED
    BY <2>1, <2>2 DEF Init
<1>2. MaxRevisions \in [Services -> Nat \ {0}]
  BY RevisionsAssumption
<1>3. \A s \in Services : Len(revisions[s]) <= MaxRevisions[s] /\ current[s] \in DOMAIN revisions[s]
  <2> SUFFICES ASSUME NEW s \in Services
               PROVE  Len(revisions[s]) <= MaxRevisions[s] /\ current[s] \in DOMAIN revisions[s]
    OBVIOUS
  <2>1. DOMAIN revisions[s] = 1 .. 1
    BY <1>1
  <2>2. MaxRevisions[s] \in Nat /\ MaxRevisions[s] # 0
    BY <1>2
  <2>3. Len(revisions[s]) = 1 /\ current[s] = 1
    BY <1>1
  <2> QED
    BY <2>1, <2>2, <2>3
<1>4. \A r \in Requests : req[r] = NoRequest
  BY DEF Init
<1>5. revisions = [s \in Services |-> revisions[s]] /\ current = [s \in Services |-> current[s]]
  BY DEF Init
<1>6. TypeOK
  BY <1>1, <1>3, <1>4, <1>5 DEF Init, TypeOK
<1> QED
  BY <1>4, <1>6 DEF TypeInv, Prepared, At, Active

\* A step of request r that keeps the revisions there are.
LEMMA OnlyRequest ==
    ASSUME TypeInv, NEW r \in Requests,
           NEW x \in Request \cup {NoRequest}, req' = [req EXCEPT ![r] = x],
           \A s \in Services : DOMAIN revisions[s] \subseteq DOMAIN revisions'[s],
           x # NoRequest /\ x.pc = "register" =>
               x.base \in TaskDef(ServiceOf[Written(x)]),
           x # NoRequest /\ x.pc = "update" =>
               x.revision \in DOMAIN revisions'[ServiceOf[Written(x)]]
    PROVE  /\ req' \in [Requests -> Request \cup {NoRequest}]
           /\ \A t \in Requests : Prepared(t)'
<1>1. req \in [Requests -> Request \cup {NoRequest}]
  BY DEF TypeInv, TypeOK
<1>2. req'[r] = x /\ \A t \in Requests \ {r} : req'[t] = req[t]
  BY <1>1
<1>3. Prepared(r)'
  BY <1>2 DEF Prepared, At, Active
<1>4. ASSUME NEW t \in Requests \ {r} PROVE Prepared(t)'
  <2>1. CASE req[t] = NoRequest
    BY <1>2, <2>1 DEF Prepared, At, Active
  <2>2. CASE req[t] \in Request
    <3>1. ServiceOf[Written(req[t])] \in Services
      BY <2>2, WrittenTypes
    <3> QED
      BY <1>2, <3>1 DEF Prepared, At, Active, TypeInv
  <2> QED
    BY <1>1, <2>1, <2>2
<1> QED
  BY <1>1, <1>3, <1>4

\* The same for a request that ends with an error.
LEMMA OnlyFails ==
    ASSUME TypeInv, NEW r \in Requests, Active(r), FailWith(r),
           \A s \in Services : DOMAIN revisions[s] \subseteq DOMAIN revisions'[s]
    PROVE  /\ req' \in [Requests -> Request \cup {NoRequest}]
           /\ \A t \in Requests : Prepared(t)'
<1> DEFINE x == [req[r] EXCEPT !.pc = "answer", !.result = "error"]
<1>1. req[r] \in Request
  BY DEF TypeInv, TypeOK, Active
<1>2. x \in Request /\ x.pc = "answer"
  BY <1>1 DEF Request
<1>3. req' = [req EXCEPT ![r] = x]
  BY DEF FailWith
<1> HIDE DEF x
<1> QED
  BY <1>2, <1>3, OnlyRequest

\* Only Register and UpdateService change what is in AWS, each as Prepared allows.
LEMMA TypeStep == TypeInv /\ [Next]_vars => TypeInv'
<1> SUFFICES ASSUME TypeInv, [Next]_vars PROVE TypeInv'
  OBVIOUS
<1>1. /\ TypeOK
      /\ revisions \in [Services -> Seq(UNION {TaskDef(s) : s \in Services})]
      /\ current \in [Services -> Nat]
      /\ req \in [Requests -> Request \cup {NoRequest}]
      /\ \A s \in Services : /\ revisions[s] \in Seq(TaskDef(s))
                             /\ Len(revisions[s]) <= MaxRevisions[s]
                             /\ current[s] \in DOMAIN revisions[s]
  BY FunctionTypes DEF TypeInv, TypeOK
\* A step that changes neither the revisions nor the ones in use.
<1>2. ASSUME UNCHANGED <<revisions, current>>,
             req' \in [Requests -> Request \cup {NoRequest}],
             \A t \in Requests : Prepared(t)'
      PROVE  TypeInv'
  BY <1>1, <1>2 DEF TypeInv, TypeOK
<1>3. ASSUME UNCHANGED <<revisions, current>>, NEW r \in Requests,
             NEW x \in Request \cup {NoRequest}, req' = [req EXCEPT ![r] = x],
             x = NoRequest \/ x.pc \notin {"register", "update"}
      PROVE  TypeInv'
  BY <1>2, <1>3, OnlyRequest
<1>4. ASSUME UNCHANGED <<revisions, current>>, NEW r \in Requests, Active(r), FailWith(r)
      PROVE  TypeInv'
  BY <1>2, <1>4, OnlyFails
<1>5. ASSUME NEW r \in Requests, NEW ask \in Asks, Start(r, ask) PROVE TypeInv'
  <2> DEFINE x == [ask |-> ask, pc |-> IF ReadsOf(ask.op) = {} THEN "base" ELSE "read",
                   toRead |-> ReadsOf(ask.op), seen |-> [side \in Sides |-> NoVars],
                   writing |-> "target", base |-> Current(ServiceOf[ask.target]),
                   revision |-> 0, result |-> "none"]
  <2>1. ServiceOf[ask.target] \in Services
    BY AskTypes, ContainersAssumption
  <2>2. Current(ServiceOf[ask.target]) \in UNION {TaskDef(s) : s \in Services}
    BY <1>1, <2>1, CurrentType
  <2>3. ReadsOf(ask.op) \in SUBSET Reads
    BY DEF ReadsOf, Reads
  <2>4. [side \in Sides |-> NoVars] \in [Sides -> Vars]
    BY NoVarsType
  <2>5. x \in Request
    BY <2>2, <2>3, <2>4 DEF Request, Sides
  <2>6. req' = [req EXCEPT ![r] = x] /\ UNCHANGED <<revisions, current>>
    BY <1>5 DEF Start
  <2>7. x.pc \notin {"register", "update"}
    OBVIOUS
  <2> HIDE DEF x
  <2> QED
    BY <1>3, <2>5, <2>6, <2>7
<1>6. ASSUME NEW r \in Requests, NEW read \in Reads, Read(r, read) PROVE TypeInv'
  <2> DEFINE x == req[r]
             side == IF read \in {"sourceEnv", "sourceSecret"} THEN "source" ELSE "target"
             kind == IF read \in {"sourceEnv", "targetEnv"} THEN "env" ELSE "secret"
             c == Side(x.ask, side)
             s == ServiceOf[c]
             n == IF side = "source" THEN RevisionRead(x.ask, s) ELSE current[s]
             found == revisions[s][n][c].vars
             y == [x EXCEPT !.toRead = @ \ {read},
                            !.seen[side] = [k \in Keys |-> IF k[2] = kind THEN found[k] ELSE @[k]]]
             z == [y EXCEPT !.pc = IF y.toRead = {} THEN "base" ELSE "read"]
  <2>1. Active(r) /\ x \in Request /\ x.pc = "read"
    BY <1>1, <1>6 DEF Read, At, Active
  <2>2. UNCHANGED <<revisions, current>>
    BY <1>6 DEF Read
  <2>3. FailWith(r) \/ (n \in DOMAIN revisions[s] /\ req' = [req EXCEPT ![r] = z])
    BY <1>6 DEF Read
  <2>4. ASSUME n \in DOMAIN revisions[s], req' = [req EXCEPT ![r] = z] PROVE TypeInv'
    <3>1. c \in Containers /\ s \in Services /\ c \in ContainersOf(s)
      BY <2>1, AskTypes, ContainersAssumption DEF Request, Side, ContainersOf
    <3>2. found \in Vars
      BY <1>1, <2>4, <3>1, CurrentType, ContainerType
    <3>3. x.seen \in [Sides -> Vars] /\ side \in Sides
      BY <2>1 DEF Request, Sides
    <3>4. [k \in Keys |-> IF k[2] = kind THEN found[k] ELSE x.seen[side][k]] \in Vars
      <4> HIDE DEF found, kind, side
      <4>1. x.seen[side] \in Vars
        BY <3>3
      <4> QED
        BY <3>2, <4>1 DEF Vars
    <3>5. y \in Request
      <4> DEFINE w == [k \in Keys |-> IF k[2] = kind THEN found[k] ELSE x.seen[side][k]]
                 q == [x.seen EXCEPT ![side] = w]
      <4>1. q \in [Sides -> Vars]
        <5> HIDE DEF w, side
        <5> QED  BY <3>3, <3>4 DEF w
      <4>2. y = [x EXCEPT !.toRead = @ \ {read}, !.seen = q]
        OBVIOUS
      <4> HIDE DEF q, y, x
      <4> QED
        BY <2>1, <4>1, <4>2 DEF Request
    <3>6. z \in Request /\ z.pc \in {"base", "read"}
      <4> HIDE DEF y
      <4> QED
        BY <3>5 DEF Request
    <3> HIDE DEF z
    <3> QED
      BY <1>3, <2>2, <2>4, <3>6
  <2> QED
    BY <1>4, <2>1, <2>2, <2>3, <2>4
<1>7. ASSUME NEW r \in Requests, ReadBase(r) PROVE TypeInv'
  <2> DEFINE s == ServiceOf[Written(req[r])]
             x == [req[r] EXCEPT !.pc = "register", !.base = Current(s)]
  <2>1. req[r] \in Request
    BY <1>1, <1>7 DEF ReadBase, At, Active
  <2>2. s \in Services /\ Current(s) \in TaskDef(s)
    BY <1>1, <2>1, WrittenTypes, CurrentType
  <2>3. x \in Request /\ x.pc = "register" /\ x.base \in TaskDef(ServiceOf[Written(x)])
    <3> HIDE DEF s
    <3>1. Current(s) \in UNION {TaskDef(t) : t \in Services}
      BY <2>2
    <3>2. x \in Request /\ x.pc = "register" /\ x.base = Current(s)
          /\ x.ask = req[r].ask /\ x.writing = req[r].writing
      BY <2>1, <3>1 DEF Request
    <3> QED
      BY <2>2, <3>2 DEF Written, s
  <2>4. req' = [req EXCEPT ![r] = x] /\ UNCHANGED <<revisions, current>>
    BY <1>7 DEF ReadBase
  <2> HIDE DEF x
  <2> QED
    BY <1>2, <2>3, <2>4, OnlyRequest
<1>8. ASSUME NEW r \in Requests, Register(r) PROVE TypeInv'
  <2> DEFINE x == req[r]
             c == Written(x)
             s == ServiceOf[c]
             d == [x.base EXCEPT ![c] = Computed(x, @)]
  <2>1. Active(r) /\ x \in Request /\ x.pc = "register"
    BY <1>1, <1>8 DEF Register, At, Active
  <2>2. s \in Services /\ c \in ContainersOf(s) /\ x.base \in TaskDef(s)
    BY <2>1, WrittenTypes DEF TypeInv, Prepared, At
  <2>3. d \in TaskDef(s)
    <3>1. Computed(x, x.base[c]) \in ContainerDef
      BY <2>1, <2>2, ContainerType, ComputedType
    <3> HIDE DEF c, s, x
    <3> QED
      BY <2>2, <3>1 DEF TaskDef
  <2>4. /\ Len(revisions[s]) < MaxRevisions[s]
        /\ revisions' = [revisions EXCEPT ![s] = Append(@, d)]
        /\ UNCHANGED current
    BY <1>8 DEF Register
  <2>5. \A t \in Services : /\ revisions'[t] \in Seq(TaskDef(t))
                           /\ Len(revisions'[t]) <= MaxRevisions[t]
                           /\ DOMAIN revisions[t] \subseteq DOMAIN revisions'[t]
    <3> SUFFICES ASSUME NEW t \in Services
                 PROVE  /\ revisions'[t] \in Seq(TaskDef(t))
                        /\ Len(revisions'[t]) <= MaxRevisions[t]
                        /\ DOMAIN revisions[t] \subseteq DOMAIN revisions'[t]
      OBVIOUS
    <3>1. MaxRevisions[t] \in Nat
      BY RevisionsAssumption
    <3> HIDE DEF d, s
    <3>2. CASE t = s
      BY <1>1, <2>3, <2>4, <3>1, <3>2
    <3>3. CASE t # s
      BY <1>1, <2>4, <3>3
    <3> QED
      BY <3>2, <3>3
  <2>7. revisions' \in [Services -> Seq(UNION {TaskDef(t) : t \in Services})]
    <3> DEFINE Defs == UNION {TaskDef(t) : t \in Services}
    <3>1. d \in Defs
      BY <2>2, <2>3
    <3> HIDE DEF d, s, Defs
    <3>2. Append(revisions[s], d) \in Seq(Defs)
      BY <1>1, <2>2, <3>1 DEF Defs
    <3> QED
      BY <1>1, <2>4, <3>2 DEF Defs
  <2>6. /\ req' \in [Requests -> Request \cup {NoRequest}]
        /\ \A t \in Requests : Prepared(t)'
    <3>1. CASE req' = [req EXCEPT ![r].pc = "update",
                                  ![r].revision = Len(revisions[s]) + 1]
      <4> DEFINE z == [x EXCEPT !.pc = "update", !.revision = Len(revisions[s]) + 1]
      <4>1. Len(revisions[s]) + 1 \in DOMAIN revisions'[s]
        <5> HIDE DEF d, s
        <5>1. revisions'[s] = Append(revisions[s], d) /\ revisions[s] \in Seq(TaskDef(s))
          BY <1>1, <2>2, <2>4
        <5>2. Len(revisions'[s]) = Len(revisions[s]) + 1 /\ revisions'[s] \in Seq(TaskDef(s))
          BY <2>3, <5>1
        <5> QED
          BY <5>1, <5>2
      <4>2. z \in Request /\ z.pc = "update" /\ z.revision = Len(revisions[s]) + 1
            /\ z.ask = x.ask /\ z.writing = x.writing
        <5>1. Len(revisions[s]) + 1 \in Nat
          <6> HIDE DEF s
          <6> QED  BY <1>1, <2>2
        <5> HIDE DEF s, x
        <5> QED  BY <2>1, <5>1 DEF Request
      <4>3. ServiceOf[Written(z)] = s
        BY <4>2 DEF Written
      <4>4. req' = [req EXCEPT ![r] = z]
        BY <3>1
      <4> HIDE DEF z, s
      <4> QED
        BY <2>5, <4>1, <4>2, <4>3, <4>4, OnlyRequest
    <3>2. CASE UNCHANGED req
      <4>1. req' = [req EXCEPT ![r] = x]
        BY <1>1, <3>2
      <4> HIDE DEF x
      <4> QED
        BY <2>1, <2>2, <2>5, <4>1, OnlyRequest
    <3>3. CASE FailWith(r)
      BY <2>1, <2>5, <3>3, OnlyFails
    <3> QED
      BY <1>8, <3>1, <3>2, <3>3 DEF Register
  <2> QED
    BY <1>1, <2>4, <2>5, <2>6, <2>7 DEF TypeInv, TypeOK
<1>9. ASSUME NEW r \in Requests, UpdateService(r) PROVE TypeInv'
  <2> DEFINE x == req[r]
             s == ServiceOf[Written(x)]
  <2>1. Active(r) /\ x \in Request /\ x.pc = "update"
    BY <1>1, <1>9 DEF UpdateService, At, Active
  <2>2. s \in Services /\ x.revision \in DOMAIN revisions[s]
    BY <2>1, WrittenTypes DEF TypeInv, Prepared, At
  <2>3. current' = [current EXCEPT ![s] = x.revision] /\ UNCHANGED revisions
    BY <1>9 DEF UpdateService
  <2>4. /\ \A t \in Services : current'[t] \in DOMAIN revisions'[t]
        /\ current' \in [Services -> Nat]
    <3>1. x.revision \in Nat
      BY <2>1 DEF Request
    <3> HIDE DEF s, x
    <3> QED  BY <1>1, <2>2, <2>3, <3>1
  <2>5. /\ req' \in [Requests -> Request \cup {NoRequest}]
        /\ \A t \in Requests : Prepared(t)'
    <3>1. CASE req' = [req EXCEPT ![r].pc = "base", ![r].writing = "source"]
      <4> DEFINE z == [x EXCEPT !.pc = "base", !.writing = "source"]
      <4>1. z \in Request /\ z.pc = "base" /\ req' = [req EXCEPT ![r] = z]
        BY <2>1, <3>1 DEF Request, Sides
      <4> HIDE DEF z
      <4> QED
        BY <2>3, <4>1, OnlyRequest
    <3>2. CASE req' = [req EXCEPT ![r].pc = "answer", ![r].result = "ok"]
      <4> DEFINE z == [x EXCEPT !.pc = "answer", !.result = "ok"]
      <4>1. z \in Request /\ z.pc = "answer" /\ req' = [req EXCEPT ![r] = z]
        BY <2>1, <3>2 DEF Request
      <4> HIDE DEF z
      <4> QED
        BY <2>3, <4>1, OnlyRequest
    <3>3. CASE FailWith(r)
      BY <2>1, <2>3, <3>3, OnlyFails
    <3> QED
      BY <1>9, <3>1, <3>2, <3>3 DEF UpdateService
  <2> QED
    BY <1>1, <2>3, <2>4, <2>5 DEF TypeInv, TypeOK
<1>10. ASSUME NEW r \in Requests, CallFails(r) PROVE TypeInv'
  BY <1>4, <1>10 DEF CallFails
<1>11. ASSUME NEW r \in Requests, Answer(r) PROVE TypeInv'
  BY <1>3, <1>11 DEF Answer
<1>12. ASSUME Stop PROVE TypeInv'
  <2>1. \A t \in Requests : req'[t] = NoRequest
    BY <1>12 DEF Stop
  <2> QED
    BY <1>2, <1>12, <2>1 DEF Stop, Prepared, At, Active
<1>13. CASE UNCHANGED vars
  BY <1>13 DEF vars, TypeInv, TypeOK, Prepared, At, Active
<1> QED
  BY <1>5, <1>6, <1>7, <1>8, <1>9, <1>10, <1>11, <1>12, <1>13 DEF Next

\* The variables keep their types, with any number of requests at the same time.
THEOREM TypeCorrect == Spec => []TypeOK
<1>1. Spec => []TypeInv
  BY TypeInit, TypeStep, PTL DEF Spec
<1> QED
  BY <1>1, PTL DEF TypeInv

----------------------------------------------------------------------------
\* MoveLosesNothing.  It is not inductive: it needs that nothing happens to the
\* services of a request behind its back (Alone), so that what the request has
\* read is still what the services run (Snapshot).

\* The variables container c runs, when the revisions are `revs` and the ones
\* in use `cur`.
Runs(revs, cur, c) == revs[ServiceOf[c]][cur[ServiceOf[c]]][c].vars

Home(x) == ServiceOf[Written(x)]
IsMove(x) == x.ask.op = "move" /\ x.ask.source # x.ask.target
Moved(x, k) == k[1] \in x.ask.names /\ x.seen["source"][k] # Absent

Kept(x, revs, cur) ==
    \A k \in Keys : Moved(x, k) =>
        x.seen["source"][k] \in {Runs(revs, cur, x.ask.source)[k],
                                Runs(revs, cur, x.ask.target)[k]}

\* What a move has read stays true: of the source while it writes the target,
\* of the target while it writes the source, of one of them afterwards.
Held(x, revs, cur) ==
    IsMove(x) =>
        /\ x.result = "none" /\ x.writing = "target" =>
               \A k \in Keys : x.seen["source"][k] # Absent =>
                   x.seen["source"][k] = Runs(revs, cur, x.ask.source)[k]
        /\ x.result = "none" /\ x.writing = "source" =>
               \A k \in Keys : Moved(x, k) =>
                   x.seen["source"][k] = Runs(revs, cur, x.ask.target)[k]
        /\ Kept(x, revs, cur)

\* What request x knows about the services.
Snapshot(x, revs, cur) ==
    /\ x.result = "none" <=> x.pc # "answer"
    /\ x.pc = "read" => x.writing = "target"
    /\ x.pc \in {"register", "update"} => x.base = revs[Home(x)][cur[Home(x)]]
    /\ x.pc = "update" =>
           revs[Home(x)][x.revision] =
               [x.base EXCEPT ![Written(x)] = Computed(x, @)]
    /\ Held(x, revs, cur)

Alone ==
    \A r, t \in Requests :
        Active(r) /\ Active(t) /\ r # t => Uses(req[r].ask) \cap Uses(req[t].ask) = {}

MoveInv ==
    /\ TypeInv
    /\ Alone
    /\ \A r \in Requests : Active(r) => Snapshot(req[r], revisions, current)

\* What happens to services a request does not use does not concern it.
LEMMA Undisturbed ==
    ASSUME NEW x \in Request, NEW revs, NEW cur, NEW revs2, NEW cur2,
           Snapshot(x, revs, cur),
           \A s \in Uses(x.ask) : revs2[s] = revs[s] /\ cur2[s] = cur[s]
    PROVE  Snapshot(x, revs2, cur2)
<1>1. Home(x) \in Uses(x.ask)
  BY WrittenTypes DEF Home
<1>2. /\ Runs(revs2, cur2, x.ask.source) = Runs(revs, cur, x.ask.source)
      /\ Runs(revs2, cur2, x.ask.target) = Runs(revs, cur, x.ask.target)
  BY DEF Runs, Uses
<1>3. Held(x, revs, cur) => Held(x, revs2, cur2)
  BY <1>2 DEF Held, Kept
<1> QED
  BY <1>1, <1>2, <1>3 DEF Snapshot

\* A step of request r on its own services leaves the others as they are.
LEMMA OthersUndisturbed ==
    ASSUME MoveInv, NEW r \in Requests, Active(r),
           NEW x \in Request \cup {NoRequest}, req' = [req EXCEPT ![r] = x],
           \A s \in Services \ Uses(req[r].ask) :
               revisions'[s] = revisions[s] /\ current'[s] = current[s],
           x # NoRequest => /\ x.ask = req[r].ask
                            /\ Snapshot(x, revisions', current')
    PROVE  /\ Alone'
           /\ \A t \in Requests : Active(t)' => Snapshot(req[t], revisions, current)'
<1>1. req \in [Requests -> Request \cup {NoRequest}]
  BY FunctionTypes DEF MoveInv, TypeInv, TypeOK
<1>2. req'[r] = x /\ \A t \in Requests \ {r} : req'[t] = req[t]
  BY <1>1
<1>3. \A t \in Requests : Active(t)' => Active(t) /\ req'[t].ask = req[t].ask
  BY <1>2 DEF Active
<1>4. Alone'
  <2> SUFFICES ASSUME NEW p \in Requests, NEW q \in Requests,
                      Active(p)', Active(q)', p # q
               PROVE  Uses(req'[p].ask) \cap Uses(req'[q].ask) = {}
    BY DEF Alone
  <2> QED
    BY <1>3 DEF MoveInv, Alone
<1>5. ASSUME NEW t \in Requests, Active(t)'
      PROVE  Snapshot(req'[t], revisions', current')
  <2>1. CASE t = r
    BY <1>2, <1>5, <2>1 DEF Active
  <2>2. CASE t # r
    <3>1. Active(t) /\ req'[t] = req[t] /\ req[t] \in Request
      BY <1>1, <1>2, <1>5, <2>2 DEF Active
    <3>2. Uses(req[t].ask) \cap Uses(req[r].ask) = {}
      BY <2>2, <3>1 DEF MoveInv, Alone
    <3>3. req[t].ask.source \in Containers /\ req[t].ask.target \in Containers
      BY <3>1, AskTypes DEF Request
    <3>4. Uses(req[t].ask) \subseteq Services
      BY <3>3, ContainersAssumption DEF Uses
    <3>5. \A s \in Uses(req[t].ask) :
              revisions'[s] = revisions[s] /\ current'[s] = current[s]
      BY <3>2, <3>4
    <3>6. Snapshot(req[t], revisions, current)
      BY <3>1 DEF MoveInv
    <3> QED
      BY <3>1, <3>5, <3>6, Undisturbed
  <2> QED
    BY <2>1, <2>2
<1> QED
  BY <1>4, <1>5

\* A request that fails without an effect keeps what a move must keep.
LEMMA FailedSnapshot ==
    ASSUME NEW x \in Request, NEW revs, NEW cur, Kept(x, revs, cur) \/ ~IsMove(x),
           NEW z, z = [x EXCEPT !.pc = "answer", !.result = "error"]
    PROVE  z \in Request /\ z.ask = x.ask /\ Snapshot(z, revs, cur)
<1>1. /\ z \in Request /\ z.ask = x.ask /\ z.seen = x.seen
      /\ z.pc = "answer" /\ z.result = "error"
  BY DEF Request
<1>2. Held(z, revs, cur)
  BY <1>1 DEF Held, Kept, IsMove, Moved
<1> QED
  BY <1>1, <1>2 DEF Snapshot

\* What a move holds depends on what it has read and what its services run.
LEMMA HeldOn ==
    ASSUME NEW x, NEW z, NEW revs, NEW cur, NEW revs2, NEW cur2,
           z.ask = x.ask, z.seen = x.seen, z.writing = x.writing,
           z.result \in {x.result, "error"},
           \A s \in Uses(x.ask) : revs2[s][cur2[s]] = revs[s][cur[s]],
           Held(x, revs, cur)
    PROVE  Held(z, revs2, cur2)
<1>1. /\ Runs(revs2, cur2, x.ask.source) = Runs(revs, cur, x.ask.source)
      /\ Runs(revs2, cur2, x.ask.target) = Runs(revs, cur, x.ask.target)
  BY DEF Runs, Uses
<1> QED
  BY <1>1 DEF Held, Kept, IsMove, Moved

\* There are no requests at first.
LEMMA MoveInit == Init => MoveInv
BY TypeInit DEF Init, MoveInv, Alone, Active

\* A step of request r, which stays active, on its own services.
LEMMA OwnStep ==
    ASSUME MoveInv, Next, NEW r \in Requests, Active(r), NEW z,
           req' = [req EXCEPT ![r] = z],
           z.ask = req[r].ask,
           \A s \in Services \ Uses(req[r].ask) :
               revisions'[s] = revisions[s] /\ current'[s] = current[s],
           Snapshot(z, revisions', current')
    PROVE  /\ Alone'
           /\ \A t \in Requests : Active(t)' => Snapshot(req[t], revisions, current)'
<1>1. TypeInv'
  BY TypeStep DEF MoveInv
<1>2. req'[r] = z
  BY FunctionTypes DEF MoveInv, TypeInv, TypeOK
<1>3. z \in Request \cup {NoRequest}
  BY <1>1, <1>2 DEF TypeInv, TypeOK
<1> QED
  BY <1>3, OthersUndisturbed

\* The same for a step with which the request fails.
LEMMA FailingStep ==
    ASSUME MoveInv, Next, NEW r \in Requests, Active(r), FailWith(r),
           \A s \in Services \ Uses(req[r].ask) :
               revisions'[s] = revisions[s] /\ current'[s] = current[s],
           Kept(req[r], revisions', current') \/ ~IsMove(req[r])
    PROVE  /\ Alone'
           /\ \A t \in Requests : Active(t)' => Snapshot(req[t], revisions, current)'
<1> DEFINE z == [req[r] EXCEPT !.pc = "answer", !.result = "error"]
<1>1. req[r] \in Request
  BY DEF MoveInv, TypeInv, TypeOK, Active
<1>2. z.ask = req[r].ask /\ Snapshot(z, revisions', current')
  BY <1>1, FailedSnapshot
<1>3. req' = [req EXCEPT ![r] = z]
  BY DEF FailWith
<1> HIDE DEF z
<1> QED
  BY <1>2, <1>3, OwnStep

\* A request that starts has read nothing, and is alone if the guard says so.
LEMMA MoveStart ==
    ASSUME Exclusive = TRUE, MoveInv, NEW r \in Requests, NEW ask \in Asks,
           Start(r, ask)
    PROVE  /\ Alone'
           /\ \A t \in Requests : Active(t)' => Snapshot(req[t], revisions, current)'
<1> DEFINE x == [ask |-> ask, pc |-> IF ReadsOf(ask.op) = {} THEN "base" ELSE "read",
                 toRead |-> ReadsOf(ask.op), seen |-> [side \in Sides |-> NoVars],
                 writing |-> "target", base |-> Current(ServiceOf[ask.target]),
                 revision |-> 0, result |-> "none"]
<1>1. req \in [Requests -> Request \cup {NoRequest}]
  BY FunctionTypes DEF MoveInv, TypeInv, TypeOK
<1>2. /\ req'[r] = x /\ x.ask = ask
      /\ \A t \in Requests \ {r} : req'[t] = req[t]
      /\ revisions' = revisions /\ current' = current
  BY <1>1 DEF Start
<1>3. \A t \in Requests : Active(t) => Uses(req[t].ask) \cap Uses(ask) = {}
  BY DEF Start
<1>4. Snapshot(x, revisions, current)
  BY DEF Snapshot, Held, Kept, Moved, Sides, NoVars
<1> HIDE DEF x
<1>5. Alone'
  <2> SUFFICES ASSUME NEW p \in Requests, NEW q \in Requests,
                      Active(p)', Active(q)', p # q
               PROVE  Uses(req'[p].ask) \cap Uses(req'[q].ask) = {}
    BY DEF Alone
  <2>1. CASE p = r
    BY <1>2, <1>3, <2>1 DEF Active
  <2>2. CASE q = r
    BY <1>2, <1>3, <2>2 DEF Active
  <2>3. CASE p # r /\ q # r
    BY <1>2, <2>3 DEF Active, MoveInv, Alone
  <2> QED
    BY <2>1, <2>2, <2>3
<1>6. ASSUME NEW t \in Requests, Active(t)'
      PROVE  Snapshot(req'[t], revisions', current')
  BY <1>2, <1>4, <1>6 DEF Active, MoveInv
<1> QED
  BY <1>5, <1>6

\* A reading of the source finds what the source runs.
LEMMA MoveRead ==
    ASSUME MoveInv, NEW r \in Requests, NEW read \in Reads, Read(r, read)
    PROVE  /\ Alone'
           /\ \A t \in Requests : Active(t)' => Snapshot(req[t], revisions, current)'
<1> DEFINE x == req[r]
           side == IF read \in {"sourceEnv", "sourceSecret"} THEN "source" ELSE "target"
           kind == IF read \in {"sourceEnv", "targetEnv"} THEN "env" ELSE "secret"
           c == Side(x.ask, side)
           s == ServiceOf[c]
           n == IF side = "source" THEN RevisionRead(x.ask, s) ELSE current[s]
           found == revisions[s][n][c].vars
           y == [x EXCEPT !.toRead = @ \ {read},
                          !.seen[side] = [k \in Keys |-> IF k[2] = kind THEN found[k] ELSE @[k]]]
           z == [y EXCEPT !.pc = IF y.toRead = {} THEN "base" ELSE "read"]
<1>1. req \in [Requests -> Request \cup {NoRequest}]
  BY FunctionTypes DEF MoveInv, TypeInv, TypeOK
<1>2. Active(r) /\ x \in Request /\ x.pc = "read" /\ Snapshot(x, revisions, current)
  BY <1>1 DEF Read, At, Active, MoveInv
<1>3. revisions' = revisions /\ current' = current
  BY DEF Read
<1>4. FailWith(r) \/ req' = [req EXCEPT ![r] = z]
  BY DEF Read
<1>5. CASE FailWith(r)
  <2> DEFINE w == [x EXCEPT !.pc = "answer", !.result = "error"]
  <2>1. req' = [req EXCEPT ![r] = w]
    BY <1>5 DEF FailWith
  <2>2. w \in Request /\ w.ask = x.ask /\ Snapshot(w, revisions, current)
    <3> HIDE DEF x
    <3> QED  BY <1>2, FailedSnapshot DEF Snapshot, Held
  <2> HIDE DEF w
  <2> QED
    BY <1>2, <1>3, <2>1, <2>2, OthersUndisturbed
<1>6. CASE req' = [req EXCEPT ![r] = z]
  <2>1. x.seen \in [Sides -> Vars] /\ side \in Sides
    BY <1>2 DEF Request, Sides
  <2>2. /\ z.ask = x.ask /\ z.writing = x.writing /\ z.result = x.result
        /\ z.pc \in {"base", "read"}
        /\ z.seen = [x.seen EXCEPT ![side] =
                        [k \in Keys |-> IF k[2] = kind THEN found[k] ELSE x.seen[side][k]]]
    <3> HIDE DEF found, kind, side
    <3> QED  BY <1>2 DEF Request
  <2>3. ASSUME IsMove(x), NEW k \in Keys
        PROVE  z.seen["source"][k] \in {x.seen["source"][k],
                                       Runs(revisions, current, x.ask.source)[k]}
    <3>1. CASE side = "source"
      <4>1. found = Runs(revisions, current, x.ask.source)
        BY <2>3, <3>1 DEF Runs, IsMove, RevisionRead, Side
      <4> HIDE DEF found, kind, side, z, x
      <4> QED  BY <2>1, <2>2, <2>3, <3>1, <4>1
    <3>2. CASE side # "source"
      <4> HIDE DEF found, kind, side, z, x
      <4> QED  BY <2>1, <2>2, <3>2
    <3> QED
      BY <3>1, <3>2
  <2>4. /\ x.result = "none"
        /\ x.writing = "target"
    BY <1>2 DEF Snapshot
  <2>5. Held(z, revisions, current)
    <3> HIDE DEF z, x
    <3> QED  BY <1>2, <2>2, <2>3, <2>4 DEF Snapshot, Held, IsMove, Kept, Moved
  <2>6. Snapshot(z, revisions, current)
    <3> HIDE DEF z, x
    <3> QED  BY <1>2, <2>2, <2>4, <2>5 DEF Snapshot
  <2>7. z \in Request \cup {NoRequest}
    <3>1. TypeInv'
      BY TypeStep DEF MoveInv, Next
    <3>2. req'[r] = z
      <4> HIDE DEF z
      <4> QED  BY <1>1, <1>6
    <3> HIDE DEF z
    <3> QED  BY <3>1, <3>2 DEF TypeInv, TypeOK
  <2> HIDE DEF z
  <2> QED
    BY <1>2, <1>3, <1>6, <2>2, <2>6, <2>7, OthersUndisturbed
<1> QED
  BY <1>4, <1>5, <1>6

\* The base is the definition the service runs.
LEMMA MoveReadBase ==
    ASSUME MoveInv, NEW r \in Requests, ReadBase(r)
    PROVE  /\ Alone'
           /\ \A t \in Requests : Active(t)' => Snapshot(req[t], revisions, current)'
<1> DEFINE x == req[r]
           s == ServiceOf[Written(x)]
           z == [x EXCEPT !.pc = "register", !.base = Current(s)]
<1>1. Active(r) /\ x \in Request /\ x.pc = "base" /\ Snapshot(x, revisions, current)
  BY DEF ReadBase, At, Active, MoveInv, TypeInv, TypeOK
<1>2. revisions' = revisions /\ current' = current /\ req' = [req EXCEPT ![r] = z]
  BY DEF ReadBase
<1>3. /\ z.ask = x.ask /\ z.seen = x.seen /\ z.writing = x.writing
      /\ z.result = x.result /\ z.pc = "register"
      /\ z.base = revisions[Home(x)][current[Home(x)]]
  <2> HIDE DEF x
  <2> QED  BY <1>1 DEF Request, Current, s, Home
<1> HIDE DEF z
<1>4. Home(z) = Home(x)
  BY <1>3 DEF Home, Written
<1>5. Held(z, revisions, current)
  BY <1>1, <1>3, HeldOn DEF Snapshot
<1>6. Snapshot(z, revisions, current)
  BY <1>1, <1>3, <1>4, <1>5 DEF Snapshot
<1> QED
  BY <1>1, <1>2, <1>3, <1>6, OwnStep DEF Next

\* A new revision leaves what the services run as it is.
LEMMA MoveRegister ==
    ASSUME MoveInv, NEW r \in Requests, Register(r)
    PROVE  /\ Alone'
           /\ \A t \in Requests : Active(t)' => Snapshot(req[t], revisions, current)'
<1> DEFINE x == req[r]
           c == Written(x)
           s == ServiceOf[c]
           d == [x.base EXCEPT ![c] = Computed(x, @)]
           n == Len(revisions[s]) + 1
           z == [x EXCEPT !.pc = "update", !.revision = n]
<1>1. /\ Active(r) /\ x \in Request /\ x.pc = "register" /\ Snapshot(x, revisions, current)
      /\ req \in [Requests -> Request \cup {NoRequest}]
  BY DEF Register, At, Active, MoveInv, TypeInv, TypeOK
<1>2. revisions' = [revisions EXCEPT ![s] = Append(@, d)] /\ current' = current
  BY DEF Register
<1>3. s \in Services /\ s \in Uses(x.ask) /\ Uses(x.ask) \subseteq Services
  BY <1>1, WrittenTypes, AskTypes, ContainersAssumption DEF Uses
<1>4. \A t \in Services \ Uses(x.ask) : revisions'[t] = revisions[t] /\ current'[t] = current[t]
  <2> HIDE DEF x, s, d
  <2> QED  BY <1>2, <1>3 DEF MoveInv, TypeInv, TypeOK
<1>5. /\ \A t \in Services : revisions'[t][current'[t]] = revisions[t][current[t]]
      /\ revisions'[s][n] = d
  <2>1. /\ revisions \in [Services -> Seq(UNION {TaskDef(t) : t \in Services})]
        /\ \A t \in Services : current[t] \in DOMAIN revisions[t]
    BY FunctionTypes DEF MoveInv, TypeInv, TypeOK
  <2>2. revisions'[s] = Append(revisions[s], d) /\ \A t \in Services \ {s} : revisions'[t] = revisions[t]
    <3> HIDE DEF x, s, d
    <3> QED  BY <1>2, <1>3, <2>1
  <2>3. revisions[s] \in Seq(UNION {TaskDef(t) : t \in Services})
    BY <1>3, <2>1
  <2>4. \A m \in DOMAIN revisions[s] : Append(revisions[s], d)[m] = revisions[s][m]
    <3> HIDE DEF s, d
    <3> QED  BY <2>3
  <2>5. Append(revisions[s], d)[Len(revisions[s]) + 1] = d
    <3> HIDE DEF s, d
    <3> QED  BY <2>3
  <2> HIDE DEF x, s, d
  <2> QED  BY <1>2, <1>3, <2>1, <2>2, <2>4, <2>5
<1>6. Held(x, revisions', current')
  BY <1>1, <1>3, <1>5, HeldOn DEF Snapshot
<1>7. x.base = revisions'[Home(x)][current'[Home(x)]]
  BY <1>1, <1>3, <1>5 DEF Snapshot, Home
<1>8. CASE req' = [req EXCEPT ![r].pc = "update", ![r].revision = n]
  <2>1. req' = [req EXCEPT ![r] = z]
    BY <1>8
  <2>2. /\ z.ask = x.ask /\ z.seen = x.seen /\ z.writing = x.writing
        /\ z.result = x.result /\ z.pc = "update" /\ z.base = x.base /\ z.revision = n
    <3> HIDE DEF x, n
    <3> QED  BY <1>1 DEF Request
  <2> HIDE DEF z
  <2>3. Written(z) = c /\ Home(z) = s
    BY <2>2 DEF Home, Written
  <2>4. \A old : Computed(z, old) = Computed(x, old)
    BY <2>2 DEF Computed
  <2>5. Held(z, revisions', current')
    BY <1>6, <2>2, HeldOn
  <2>6. revisions'[Home(z)][z.revision] = [z.base EXCEPT ![Written(z)] = Computed(z, @)]
    <3>1. d = [z.base EXCEPT ![c] = Computed(z, z.base[c])]
      BY <2>2, <2>4
    <3> HIDE DEF d, c, n
    <3> QED  BY <1>5, <2>2, <2>3, <3>1
  <2>7. Snapshot(z, revisions', current')
    <3> HIDE DEF x, n
    <3> QED
      BY <1>1, <1>7, <2>2, <2>3, <2>5, <2>6 DEF Snapshot, Home
  <2> QED
    BY <1>1, <1>4, <2>1, <2>2, <2>7, OwnStep DEF Next
<1>9. CASE UNCHANGED req
  <2>1. req' = [req EXCEPT ![r] = x]
    BY <1>1, <1>9
  <2>2. Snapshot(x, revisions', current')
    BY <1>1, <1>6, <1>7 DEF Snapshot
  <2> HIDE DEF x
  <2> QED
    BY <1>1, <1>4, <2>1, <2>2, OwnStep DEF Next, x
<1>10. CASE FailWith(r)
  BY <1>1, <1>4, <1>6, <1>10, FailingStep DEF Next, Held
<1> QED
  BY <1>8, <1>9, <1>10 DEF Register

\* The container written runs what was computed, the others what they ran; so
\* the target has the variables before the source gives them up.
LEMMA MoveUpdate ==
    ASSUME MoveInv, NEW r \in Requests, UpdateService(r)
    PROVE  /\ Alone'
           /\ \A t \in Requests : Active(t)' => Snapshot(req[t], revisions, current)'
<1> DEFINE x == req[r]
           c == Written(x)
           s == ServiceOf[c]
           from == x.ask.source
           to == x.ask.target
<1>1. /\ Active(r) /\ x \in Request /\ x.pc = "update" /\ Snapshot(x, revisions, current)
      /\ x.result = "none"
  BY DEF UpdateService, At, Active, MoveInv, TypeInv, TypeOK, Snapshot
<1>2. current' = [current EXCEPT ![s] = x.revision] /\ revisions' = revisions
  BY DEF UpdateService
<1>3. /\ s \in Services /\ s \in Uses(x.ask) /\ c \in ContainersOf(s)
      /\ from \in Containers /\ to \in Containers
      /\ ServiceOf[from] \in Services /\ ServiceOf[to] \in Services
      /\ x.base \in TaskDef(s) /\ x.base = revisions[s][current[s]]
      /\ revisions[s][x.revision] = [x.base EXCEPT ![c] = Computed(x, @)]
  <2>1. x.ask \in Asks
    BY <1>1 DEF Request
  <2>2. from \in Containers /\ to \in Containers
    BY <2>1, AskTypes
  <2>3. /\ s \in Services /\ s \in Uses(x.ask) /\ c \in ContainersOf(s)
    BY <1>1, WrittenTypes
  <2>4. /\ x.base = revisions[s][current[s]]
        /\ revisions[s][x.revision] = [x.base EXCEPT ![c] = Computed(x, @)]
    BY <1>1 DEF Snapshot, Home
  <2>5. Current(s) \in TaskDef(s)
    BY <2>3, CurrentType DEF MoveInv, TypeInv
  <2> QED
    BY <2>2, <2>3, <2>4, <2>5, ContainersAssumption DEF Current
<1>4. /\ current'[s] = x.revision
      /\ \A t \in Services \ {s} : current'[t] = current[t]
  <2> HIDE DEF x, s
  <2> QED  BY <1>2, <1>3 DEF MoveInv, TypeInv, TypeOK
<1>5. \A t \in Services \ Uses(x.ask) : revisions'[t] = revisions[t] /\ current'[t] = current[t]
  BY <1>2, <1>3, <1>4
<1>6. Runs(revisions', current', c) = Computed(x, x.base[c]).vars
  <2>1. [x.base EXCEPT ![c] = Computed(x, @)][c] = Computed(x, x.base[c])
    <3> HIDE DEF x, c, s
    <3> QED  BY <1>3 DEF TaskDef
  <2> QED
    BY <1>2, <1>3, <1>4, <2>1 DEF Runs
<1>7. \A o \in Containers \ {c} :
          Runs(revisions', current', o) = Runs(revisions, current, o)
  <2> SUFFICES ASSUME NEW o \in Containers \ {c}
               PROVE  Runs(revisions', current', o) = Runs(revisions, current, o)
    OBVIOUS
  <2>1. ServiceOf[o] \in Services
    BY ContainersAssumption
  <2>2. CASE ServiceOf[o] = s
    <3>1. o \in ContainersOf(s)
      BY <2>2 DEF ContainersOf
    <3>2. revisions[s][x.revision][o] = revisions[s][current[s]][o]
      <4> HIDE DEF x, c, s
      <4> QED  BY <1>3, <3>1 DEF TaskDef
    <3> QED
      BY <1>2, <1>4, <2>2, <3>2 DEF Runs
  <2>3. CASE ServiceOf[o] # s
    BY <1>2, <1>4, <2>1, <2>3 DEF Runs
  <2> QED
    BY <2>2, <2>3
\* What the step makes of a move.
<1>8. ASSUME IsMove(x), x.writing = "target", NEW k \in Keys, Moved(x, k)
      PROVE  x.seen["source"][k] = Runs(revisions', current', to)[k]
  <2>1. c = to
    BY <1>8 DEF Written, Side
  <2>2. Computed(x, x.base[c]).vars = Merged(x.seen["source"], x.seen["target"], x.ask.names)
    BY <1>8 DEF Computed, IsMove
  <2>3. Merged(x.seen["source"], x.seen["target"], x.ask.names)[k] = x.seen["source"][k]
    BY <1>8 DEF Merged, Moved
  <2> QED
    BY <1>6, <2>1, <2>2, <2>3
<1>9. ASSUME IsMove(x), x.writing = "source", NEW k \in Keys, Moved(x, k)
      PROVE  x.seen["source"][k] = Runs(revisions', current', to)[k]
  <2>1. c = from /\ to # c
    BY <1>9 DEF Written, Side, IsMove
  <2>2. x.seen["source"][k] = Runs(revisions, current, to)[k]
    BY <1>1, <1>9 DEF Snapshot, Held
  <2> QED
    BY <1>3, <1>7, <2>1, <2>2
<1>10. IsMove(x) => \A k \in Keys : Moved(x, k) =>
            x.seen["source"][k] = Runs(revisions', current', to)[k]
  <2>1. x.writing \in {"source", "target"}
    BY <1>1 DEF Request, Sides
  <2> QED
    BY <1>8, <1>9, <2>1
<1>11. ASSUME NEW z, z.ask = x.ask, z.seen = x.seen,
              \/ z.pc = "base" /\ z.writing = "source" /\ z.result = "none"
              \/ z.pc = "answer" /\ z.result = "ok"
       PROVE  Snapshot(z, revisions', current')
  BY <1>10, <1>11 DEF Snapshot, Held, Kept, IsMove, Moved
<1>12. CASE req' = [req EXCEPT ![r].pc = "base", ![r].writing = "source"]
  <2> DEFINE z == [x EXCEPT !.pc = "base", !.writing = "source"]
  <2>1. req' = [req EXCEPT ![r] = z]
    BY <1>12
  <2>2. /\ z.ask = x.ask /\ z.seen = x.seen
        /\ z.pc = "base" /\ z.writing = "source" /\ z.result = "none"
    <3> HIDE DEF x
    <3> QED  BY <1>1 DEF Request
  <2> HIDE DEF z
  <2>3. Snapshot(z, revisions', current')
    <3> HIDE DEF x
    <3> QED  BY <1>11, <2>2
  <2> QED
    BY <1>1, <1>5, <2>1, <2>2, <2>3, OwnStep DEF Next
<1>13. CASE req' = [req EXCEPT ![r].pc = "answer", ![r].result = "ok"]
  <2> DEFINE z == [x EXCEPT !.pc = "answer", !.result = "ok"]
  <2>1. req' = [req EXCEPT ![r] = z]
    BY <1>13
  <2>2. /\ z.ask = x.ask /\ z.seen = x.seen /\ z.pc = "answer" /\ z.result = "ok"
    <3> HIDE DEF x
    <3> QED  BY <1>1 DEF Request
  <2> HIDE DEF z
  <2>3. Snapshot(z, revisions', current')
    <3> HIDE DEF x
    <3> QED  BY <1>11, <2>2
  <2> QED
    BY <1>1, <1>5, <2>1, <2>2, <2>3, OwnStep DEF Next
<1>14. CASE FailWith(r)
  <2>1. Kept(x, revisions', current') \/ ~IsMove(x)
    BY <1>10 DEF Kept
  <2> QED
    BY <1>1, <1>5, <1>14, <2>1, FailingStep DEF Next
<1> QED
  BY <1>12, <1>13, <1>14 DEF UpdateService

\* Every step keeps MoveInv; only the guard of Start needs Exclusive.
LEMMA MoveStep ==
    ASSUME Exclusive = TRUE
    PROVE  MoveInv /\ [Next]_vars => MoveInv'
<1> SUFFICES ASSUME MoveInv, [Next]_vars PROVE MoveInv'
  OBVIOUS
<1> DEFINE Goal == /\ Alone'
                   /\ \A t \in Requests : Active(t)' => Snapshot(req[t], revisions, current)'
<1>1. TypeInv'
  BY TypeStep DEF MoveInv
<1>2. ASSUME NEW r \in Requests, CallFails(r) PROVE Goal
  <2>1. Active(r) /\ FailWith(r) /\ revisions' = revisions /\ current' = current
    BY <1>2 DEF CallFails
  <2>2. Kept(req[r], revisions', current') \/ ~IsMove(req[r])
    BY <2>1 DEF MoveInv, Snapshot, Held
  <2> QED
    BY <1>2, <2>1, <2>2, FailingStep DEF Next
<1>3. ASSUME NEW r \in Requests, Answer(r) PROVE Goal
  <2>1. Active(r) /\ revisions' = revisions /\ current' = current
    BY <1>3 DEF Answer, At
  <2>2. req' = [req EXCEPT ![r] = NoRequest]
    BY <1>3 DEF Answer
  <2> QED
    BY <2>1, <2>2, OthersUndisturbed
<1>4. ASSUME Stop PROVE Goal
  BY <1>4 DEF Stop, Alone, Active
<1>5. ASSUME UNCHANGED vars PROVE Goal
  BY <1>5 DEF vars, MoveInv, Alone, Active
<1>6. Goal
  BY <1>2, <1>3, <1>4, <1>5, MoveStart, MoveRead, MoveReadBase, MoveRegister, MoveUpdate
     DEF Next
<1> QED
  BY <1>1, <1>6 DEF MoveInv

\* What a move holds is what MoveLosesNothing asks.
LEMMA MoveKeeps == MoveInv => MoveLosesNothing
<1> SUFFICES ASSUME MoveInv, NEW r \in Requests, Active(r), IsMove(req[r]),
                    NEW k \in Support(Named(req[r].seen["source"], req[r].ask.names))
             PROVE  req[r].seen["source"][k] \in
                        {Running(req[r].ask.source).vars[k], Running(req[r].ask.target).vars[k]}
  BY DEF MoveLosesNothing, IsMove
<1>1. k \in Keys /\ Moved(req[r], k)
  BY DEF Support, Named, Moved
<1>2. Kept(req[r], revisions, current)
  BY DEF MoveInv, Snapshot, Held
<1> QED
  BY <1>1, <1>2 DEF Kept, Runs, Running, Current

\* When no two requests use the same service at the same time, a move loses no
\* variable.
THEOREM MovesLoseNothing ==
    ASSUME Exclusive = TRUE
    PROVE  Spec => []MoveLosesNothing
<1>1. MoveInv /\ [Next]_vars => MoveInv'
  BY MoveStep
<1>2. Spec => []MoveInv
  BY <1>1, MoveInit, PTL DEF Spec
<1> QED
  BY <1>2, MoveKeeps, PTL

----------------------------------------------------------------------------
\* AtomicRequests.  A request takes effect in the store when its service runs the
\* new revision; until then what it has read is what the store holds (Fits), so what
\* it computes is what the store asks for.

SideOf(read) == IF read \in {"sourceEnv", "sourceSecret"} THEN "source" ELSE "target"
KindOf(read) == IF read \in {"sourceEnv", "targetEnv"} THEN "env" ELSE "secret"

Older(ask) == ask.op \in {"copy", "rollback"} /\ ask.revision # 0

\* The variables that are read on each side.
Origin(ask, revs, cur) ==
    IF Older(ask) THEN revs[ServiceOf[ask.source]][ask.revision][ask.source].vars
                  ELSE Runs(revs, cur, ask.source)
There(ask, side, revs, cur) ==
    IF side = "source" THEN Origin(ask, revs, cur) ELSE Runs(revs, cur, ask.target)

Knows(x, read, revs, cur) ==
    /\ \A k \in Keys : k[2] = KindOf(read) =>
         x.seen[SideOf(read)][k] = There(x.ask, SideOf(read), revs, cur)[k]
    /\ SideOf(read) = "source" /\ Older(x.ask) =>
         x.ask.revision \in DOMAIN revs[ServiceOf[x.ask.source]]

\* What request x has read of the containers it still writes is so, and it has not
\* been refused.
Fits(x, revs, cur) ==
    x.result = "none" =>
        /\ x.writing = "source" => x.ask.op = "move"
        /\ x.pc # "read" => x.toRead = {}
        /\ \A read \in ReadsOf(x.ask.op) \ x.toRead :
             x.writing = "target" \/ SideOf(read) = "source" => Knows(x, read, revs, cur)
        /\ x.writing = "target" /\ x.pc # "read" => ~Refused(x)

AtomInv ==
    /\ MoveInv
    /\ \A r \in Requests : Active(r) => Fits(req[r], revisions, current)

\* Older revisions stay, whatever is registered after them.
Extends(revs, cur, revs2, cur2, s) ==
    /\ revs2[s][cur2[s]] = revs[s][cur[s]]
    /\ DOMAIN revs[s] \subseteq DOMAIN revs2[s]
    /\ \A n \in DOMAIN revs[s] : revs2[s][n] = revs[s][n]

LEMMA KnowsOn ==
    ASSUME NEW x, NEW z, NEW revs, NEW cur, NEW revs2, NEW cur2, NEW read,
           z.ask = x.ask, z.seen = x.seen,
           \A s \in Uses(x.ask) : Extends(revs, cur, revs2, cur2, s),
           Knows(x, read, revs, cur)
    PROVE  Knows(z, read, revs2, cur2)
<1>1. /\ Extends(revs, cur, revs2, cur2, ServiceOf[x.ask.source])
      /\ Extends(revs, cur, revs2, cur2, ServiceOf[x.ask.target])
  BY DEF Uses
<1>2. CASE SideOf(read) = "source"
  <2>1. There(x.ask, SideOf(read), revs2, cur2) = There(x.ask, SideOf(read), revs, cur)
    BY <1>1, <1>2 DEF There, Origin, Extends, Runs, Knows
  <2> QED  BY <1>1, <2>1 DEF Knows, Extends
<1>3. CASE SideOf(read) # "source"
  <2>1. There(x.ask, SideOf(read), revs2, cur2) = There(x.ask, SideOf(read), revs, cur)
    BY <1>1, <1>3 DEF There, Extends, Runs
  <2> QED  BY <1>3, <2>1 DEF Knows
<1> QED  BY <1>2, <1>3

\* What a request knows depends on what it has read and on its services.
LEMMA FitsOn ==
    ASSUME NEW x, NEW z, NEW revs, NEW cur, NEW revs2, NEW cur2,
           z.ask = x.ask, z.seen = x.seen, z.writing = x.writing, z.toRead = x.toRead,
           z.result = x.result, z.pc = "read" <=> x.pc = "read",
           \A s \in Uses(x.ask) : Extends(revs, cur, revs2, cur2, s),
           Fits(x, revs, cur)
    PROVE  Fits(z, revs2, cur2)
<1>1. \A read : Knows(x, read, revs, cur) => Knows(z, read, revs2, cur2)
  BY KnowsOn
<1>2. Refused(z) <=> Refused(x)
  BY DEF Refused
<1> QED  BY <1>1, <1>2 DEF Fits

\* A step of request r, which stays active, leaves the others as they are.
LEMMA OthersFit ==
    ASSUME AtomInv, MoveInv', NEW r \in Requests,
           NEW x \in Request \cup {NoRequest}, req' = [req EXCEPT ![r] = x],
           \A s \in Services : \/ Active(r) /\ s \in Uses(req[r].ask)
                               \/ Extends(revisions, current, revisions', current', s),
           x # NoRequest => Fits(x, revisions', current')
    PROVE  AtomInv'
<1>1. req \in [Requests -> Request \cup {NoRequest}]
  BY DEF AtomInv, MoveInv, TypeInv, TypeOK
<1>2. req'[r] = x /\ \A t \in Requests \ {r} : req'[t] = req[t]
  BY <1>1
<1>3. ASSUME NEW t \in Requests, Active(t)'
      PROVE  Fits(req'[t], revisions', current')
  <2>1. CASE t = r
    BY <1>2, <1>3, <2>1 DEF Active
  <2>2. CASE t # r
    <3>1. Active(t) /\ req'[t] = req[t] /\ req[t] \in Request
      BY <1>1, <1>2, <1>3, <2>2 DEF Active
    <3>2. Active(r) => Uses(req[t].ask) \cap Uses(req[r].ask) = {}
      BY <2>2, <3>1 DEF AtomInv, MoveInv, Alone
    <3>3. req[t].ask.source \in Containers /\ req[t].ask.target \in Containers
      BY <3>1, AskTypes DEF Request
    <3>4. Uses(req[t].ask) \subseteq Services
      BY <3>3, ContainersAssumption DEF Uses
    <3>5. \A s \in Uses(req[t].ask) : Extends(revisions, current, revisions', current', s)
      BY <3>2, <3>4
    <3>6. Fits(req[t], revisions, current)
      BY <3>1 DEF AtomInv
    <3> QED
      BY <3>1, <3>5, <3>6, FitsOn
  <2> QED  BY <2>1, <2>2
<1> QED  BY <1>3 DEF AtomInv

\* Nothing that the services run or have on record changes.
LEMMA SameServices ==
    ASSUME revisions' = revisions, current' = current
    PROVE  \A s : Extends(revisions, current, revisions', current', s)
  BY DEF Extends

LEMMA FailureFits ==
    ASSUME AtomInv, MoveInv', NEW r \in Requests, Active(r), FailWith(r),
           \A s \in Services : \/ Active(r) /\ s \in Uses(req[r].ask)
                               \/ Extends(revisions, current, revisions', current', s)
    PROVE  AtomInv'
<1> DEFINE z == [req[r] EXCEPT !.pc = "answer", !.result = "error"]
<1>1. req[r] \in Request
  BY DEF AtomInv, MoveInv, TypeInv, TypeOK, Active
<1>2. z \in Request /\ z.result = "error"
  BY <1>1 DEF Request
<1>3. req' = [req EXCEPT ![r] = z]
  BY DEF FailWith
<1>4. Fits(z, revisions', current')
  BY <1>2 DEF Fits
<1> QED  BY <1>2, <1>3, <1>4, OthersFit

LEMMA StartFits ==
    ASSUME AtomInv, MoveInv', NEW r \in Requests, NEW ask \in Asks, Start(r, ask)
    PROVE  AtomInv'
<1> DEFINE z == [ask |-> ask, pc |-> IF ReadsOf(ask.op) = {} THEN "base" ELSE "read",
                 toRead |-> ReadsOf(ask.op),
                 seen |-> [side \in Sides |-> NoVars],
                 writing |-> "target", base |-> Current(ServiceOf[ask.target]),
                 revision |-> 0, result |-> "none"]
<1>1. /\ req' = [req EXCEPT ![r] = z] /\ revisions' = revisions /\ current' = current
  BY DEF Start
<1>2. req \in [Requests -> Request \cup {NoRequest}] /\ req' \in [Requests -> Request \cup {NoRequest}]
  BY DEF AtomInv, MoveInv, TypeInv, TypeOK
<1>3. z \in Request \cup {NoRequest} /\ req'[r] = z
  BY <1>1, <1>2
<1>4. Fits(z, revisions', current')
  <2>1. ReadsOf(ask.op) = {} => ask.op \in {"image"}
    BY AskTypes DEF ReadsOf, Reads
  <2>2. ReadsOf(ask.op) = {} => ~Refused(z)
    BY <2>1 DEF Refused
  <2> QED  BY <2>2 DEF Fits
<1> HIDE DEF z
<1> QED  BY <1>1, <1>3, <1>4, SameServices, OthersFit

\* One more reading, of the revision that is there now.
LEMMA ReadFits ==
    ASSUME AtomInv, MoveInv', NEW r \in Requests, NEW read \in Reads, Read(r, read)
    PROVE  AtomInv'
<1> DEFINE x == req[r]
           side == SideOf(read)
           kind == KindOf(read)
           c == Side(x.ask, side)
           s == ServiceOf[c]
           n == IF side = "source" THEN RevisionRead(x.ask, s) ELSE current[s]
           y == [x EXCEPT
                   !.toRead = @ \ {read},
                   !.seen[side] = [k \in Keys |-> IF k[2] = kind
                                                    THEN revisions[s][n][c].vars[k]
                                                    ELSE @[k]]]
           z == [y EXCEPT !.pc = IF y.toRead = {} THEN "base" ELSE "read"]
<1>1. /\ revisions' = revisions /\ current' = current /\ Active(r) /\ x.pc = "read"
      /\ read \in x.toRead
      /\ \/ FailWith(r)
         \/ n \in DOMAIN revisions[s] /\ ~Refused(y) /\ req' = [req EXCEPT ![r] = z]
  BY DEF Read, At, SideOf, KindOf, Due
<1>2. /\ x \in Request /\ req' \in [Requests -> Request \cup {NoRequest}]
      /\ req \in [Requests -> Request \cup {NoRequest}] /\ Fits(x, revisions, current)
  BY <1>1 DEF AtomInv, MoveInv, TypeInv, TypeOK, Active
<1>3. CASE FailWith(r)
  BY <1>1, <1>3, SameServices, FailureFits
<1>4. CASE n \in DOMAIN revisions[s] /\ ~Refused(y) /\ req' = [req EXCEPT ![r] = z]
  <2>1. z \in Request \cup {NoRequest}
    <3>1. req'[r] = z
      BY <1>2, <1>4
    <3> QED  BY <1>2, <3>1
  <2>2. /\ x.seen \in [Sides -> Vars] /\ x.toRead \subseteq Reads /\ side \in Sides
        /\ x.writing = "target" /\ x.result = "none"
    BY <1>1, <1>2 DEF Request, AtomInv, MoveInv, Snapshot, SideOf, Sides
  <2>3. /\ z.ask = x.ask /\ z.writing = x.writing /\ z.result = x.result
        /\ z.toRead = x.toRead \ {read} /\ z.pc = IF z.toRead = {} THEN "base" ELSE "read"
        /\ \A k \in Keys : z.seen[side][k] = IF k[2] = kind THEN revisions[s][n][c].vars[k]
                                                            ELSE x.seen[side][k]
        /\ \A other \in Sides \ {side} : z.seen[other] = x.seen[other]
        /\ z.seen = y.seen /\ z.toRead = y.toRead
    BY <1>2, <2>2 DEF Request
  <2>4. Refused(z) <=> Refused(y)
    BY <1>2, <2>3 DEF Refused, Request
  <2> HIDE DEF z, y
  <2>5. Knows(z, read, revisions, current)
    <3>1. CASE side = "source"
      <4>1. c = x.ask.source /\ n = IF Older(x.ask) THEN x.ask.revision ELSE current[s]
        BY <3>1 DEF Side, RevisionRead, Older
      <4>2. \A k \in Keys : revisions[s][n][c].vars[k] = There(x.ask, side, revisions, current)[k]
        BY <3>1, <4>1 DEF There, Origin, Runs
      <4> QED  BY <1>4, <2>3, <3>1, <4>1, <4>2 DEF Knows
    <3>2. CASE side # "source"
      <4>1. c = x.ask.target /\ n = current[s] /\ side = "target"
        BY <3>2 DEF Side, SideOf
      <4>2. \A k \in Keys : revisions[s][n][c].vars[k] = There(x.ask, side, revisions, current)[k]
        BY <3>2, <4>1 DEF There, Runs
      <4> QED  BY <2>3, <3>2, <4>1, <4>2 DEF Knows
    <3> QED  BY <3>1, <3>2
  <2>6. ASSUME NEW other \in ReadsOf(x.ask.op) \ x.toRead
        PROVE  Knows(z, other, revisions, current)
    <3>1. Knows(x, other, revisions, current)
      BY <1>2, <2>2, <2>6 DEF Fits
    <3>2. other # read /\ other \in Reads
      BY <1>1, <2>6 DEF ReadsOf, Reads
    <3>3. SideOf(other) # side \/ KindOf(other) # kind
      BY <3>2 DEF SideOf, KindOf, Reads
    <3>4. SideOf(other) \in Sides
      BY DEF SideOf, Sides
    <3>5. \A k \in Keys : k[2] = KindOf(other) => z.seen[SideOf(other)][k] = x.seen[SideOf(other)][k]
      BY <2>3, <3>3, <3>4
    <3> QED  BY <2>3, <3>1, <3>5 DEF Knows
  <2>7. Fits(z, revisions', current')
    BY <1>1, <1>4, <2>2, <2>3, <2>4, <2>5, <2>6 DEF Fits
  <2>8. req' = [req EXCEPT ![r] = z]
    BY <1>4 DEF z
  <2> QED  BY <1>1, <2>1, <2>7, <2>8, SameServices, OthersFit
<1> QED  BY <1>1, <1>3, <1>4

LEMMA ReadBaseFits ==
    ASSUME AtomInv, MoveInv', NEW r \in Requests, ReadBase(r)
    PROVE  AtomInv'
<1> DEFINE x == req[r]
           z == [x EXCEPT !.pc = "register", !.base = Current(ServiceOf[Written(x)])]
<1>1. /\ revisions' = revisions /\ current' = current /\ Active(r) /\ x.pc = "base"
      /\ req' = [req EXCEPT ![r] = z]
  BY DEF ReadBase, At
<1>2. /\ x \in Request /\ req' \in [Requests -> Request \cup {NoRequest}]
      /\ req \in [Requests -> Request \cup {NoRequest}] /\ Fits(x, revisions, current)
  BY <1>1 DEF AtomInv, MoveInv, TypeInv, TypeOK, Active
<1>3. z \in Request \cup {NoRequest}
  <2>1. req'[r] = z
    BY <1>1, <1>2
  <2> QED  BY <1>2, <2>1
<1>4. /\ z.ask = x.ask /\ z.seen = x.seen /\ z.writing = x.writing /\ z.toRead = x.toRead
      /\ z.result = x.result /\ z.pc = "register"
  BY <1>2 DEF Request
<1> HIDE DEF z
<1>5. Fits(z, revisions', current')
  BY <1>1, <1>2, <1>4, SameServices, FitsOn
<1> QED  BY <1>1, <1>3, <1>5, SameServices, OthersFit

\* A registered revision comes after the others.
LEMMA RegisterExtends ==
    ASSUME AtomInv, NEW r \in Requests, Register(r)
    PROVE  /\ \A s \in Services : Extends(revisions, current, revisions', current', s)
           /\ \A s \in Services \ {Home(req[r])} : revisions'[s] = revisions[s]
           /\ revisions'[Home(req[r])] =
                Append(revisions[Home(req[r])],
                       [req[r].base EXCEPT ![Written(req[r])] = Computed(req[r], @)])
           /\ revisions' = [s \in Services |-> revisions'[s]]
<1> DEFINE x == req[r]
           home == Home(x)
           d == [x.base EXCEPT ![Written(x)] = Computed(x, @)]
<1>1. /\ revisions' = [revisions EXCEPT ![home] = Append(@, d)] /\ current' = current
      /\ Active(r)
  BY DEF Register, Home, At
<1>2. x \in Request /\ TypeOK
  BY <1>1 DEF AtomInv, MoveInv, TypeInv, TypeOK, Active
<1>3. home \in Services
  BY <1>2, WrittenTypes DEF Home
<1> HIDE DEF d, home
<1>4. revisions = [s \in Services |-> revisions[s]]
  BY <1>2 DEF TypeOK
<1>5. /\ revisions'[home] = Append(revisions[home], d)
      /\ \A s \in Services \ {home} : revisions'[s] = revisions[s]
      /\ revisions' = [s \in Services |-> revisions'[s]]
  BY <1>1, <1>3, <1>4
<1>6. Extends(revisions, current, revisions', current', home)
  <2>1. revisions[home] \in Seq(TaskDef(home)) /\ current[home] \in DOMAIN revisions[home]
    BY <1>2, <1>3 DEF TypeOK
  <2> HIDE DEF home
  <2> DEFINE q == revisions[home]
  <2>2. /\ DOMAIN q = 1..Len(q) /\ Len(q) \in Nat /\ DOMAIN Append(q, d) = 1..Len(q) + 1
        /\ \A n \in 1..Len(q) : Append(q, d)[n] = q[n]
    BY <2>1
  <2> QED  BY <1>1, <1>5, <2>1, <2>2 DEF Extends
<1>7. \A s \in Services \ {home} : Extends(revisions, current, revisions', current', s)
  BY <1>1, <1>5 DEF Extends
<1> QED  BY <1>5, <1>6, <1>7 DEF d, home

LEMMA RegisterFits ==
    ASSUME AtomInv, MoveInv', NEW r \in Requests, Register(r)
    PROVE  AtomInv'
<1> DEFINE x == req[r]
           z == [x EXCEPT !.pc = "update", !.revision = Len(revisions[ServiceOf[Written(x)]]) + 1]
<1>1. /\ Active(r) /\ x.pc = "register"
      /\ req' = [req EXCEPT ![r] = z] \/ UNCHANGED req \/ FailWith(r)
  BY DEF Register, At
<1>2. /\ x \in Request /\ req' \in [Requests -> Request \cup {NoRequest}]
      /\ req \in [Requests -> Request \cup {NoRequest}] /\ Fits(x, revisions, current)
  BY <1>1 DEF AtomInv, MoveInv, TypeInv, TypeOK, Active
<1>3. \A s \in Services : Extends(revisions, current, revisions', current', s)
  BY RegisterExtends
<1>4. \A s \in Uses(x.ask) : Extends(revisions, current, revisions', current', s)
  <2>1. x.ask.source \in Containers /\ x.ask.target \in Containers
    BY <1>2, AskTypes DEF Request
  <2> QED  BY <1>3, <2>1, ContainersAssumption DEF Uses
<1>5. CASE req' = [req EXCEPT ![r] = z]
  <2>1. z \in Request \cup {NoRequest}
    <3>1. req'[r] = z
      BY <1>2, <1>5
    <3> QED  BY <1>2, <3>1
  <2>2. /\ z.ask = x.ask /\ z.seen = x.seen /\ z.writing = x.writing /\ z.toRead = x.toRead
        /\ z.result = x.result /\ z.pc = "update"
    BY <1>2 DEF Request
  <2> HIDE DEF z
  <2>3. Fits(z, revisions', current')
    BY <1>1, <1>2, <1>4, <2>2, FitsOn
  <2> QED  BY <1>3, <1>5, <2>1, <2>3, OthersFit
<1>6. CASE UNCHANGED req
  <2>1. Fits(x, revisions', current')
    BY <1>2, <1>4, FitsOn
  <2>2. req' = [req EXCEPT ![r] = x]
    BY <1>2, <1>6
  <2> QED  BY <1>2, <1>3, <2>1, <2>2, OthersFit
<1>7. CASE FailWith(r)
  BY <1>1, <1>3, <1>7, FailureFits
<1> QED  BY <1>1, <1>5, <1>6, <1>7

\* What a request that writes has read, of its containers as they are.
LEMMA Readings ==
    ASSUME AtomInv, NEW r \in Requests, Active(r), req[r].result = "none", req[r].pc # "read"
    PROVE  /\ req[r].ask.op \in {"add", "edit", "remove", "copy", "move"} /\ req[r].writing = "target"
                => req[r].seen["target"] = Running(req[r].ask.target).vars
           /\ req[r].ask.op \in {"copy", "move"}
                => req[r].seen["source"] = Origin(req[r].ask, revisions, current)
           /\ req[r].ask.op = "rollback" =>
                \A k \in Keys : k[2] = "env" =>
                   req[r].seen["source"][k] = Origin(req[r].ask, revisions, current)[k]
           /\ req[r].ask.op \in {"copy", "rollback"} /\ req[r].ask.revision # 0 =>
                req[r].ask.revision \in DOMAIN revisions[ServiceOf[req[r].ask.source]]
<1> DEFINE x == req[r]
           target == x.ask.target
           source == x.ask.source
<1>1. /\ x \in Request /\ TypeOK /\ Fits(x, revisions, current)
      /\ x.seen["source"] \in Vars /\ x.seen["target"] \in Vars
  BY DEF AtomInv, MoveInv, TypeInv, TypeOK, Active, Request, Sides
<1>2. /\ source \in ContainersOf(ServiceOf[source]) /\ ServiceOf[source] \in Services
      /\ target \in ContainersOf(ServiceOf[target]) /\ ServiceOf[target] \in Services
  BY <1>1, AskTypes, ContainersAssumption DEF Request, ContainersOf
<1>3. \A k \in Keys : k[2] \in {"env", "secret"}
  BY DEF Keys
<1>4. \A read \in ReadsOf(x.ask.op) :
         x.writing = "target" \/ SideOf(read) = "source" => Knows(x, read, revisions, current)
  BY <1>1 DEF Fits
<1>5. x.writing = "source" => x.ask.op = "move"
  BY <1>1 DEF Fits
<1>6. ASSUME x.ask.op \in {"add", "edit", "remove", "copy", "move"}, x.writing = "target"
      PROVE  x.seen["target"] = Running(target).vars
  <2>1. Knows(x, "targetEnv", revisions, current) /\ Knows(x, "targetSecret", revisions, current)
    BY <1>4, <1>6 DEF ReadsOf, Reads
  <2>2. Running(target).vars \in Vars /\ Running(target).vars = Runs(revisions, current, target)
    BY <1>1, <1>2, CurrentType, ContainerType DEF Running, Runs, Current
  <2>3. \A k \in Keys : x.seen["target"][k] = Running(target).vars[k]
    BY <1>3, <2>1, <2>2 DEF Knows, SideOf, KindOf, There
  <2> QED  BY <1>1, <2>2, <2>3 DEF Vars
<1>7. ASSUME x.ask.op \in {"copy", "move"}
      PROVE  /\ x.seen["source"] = Origin(x.ask, revisions, current)
             /\ Older(x.ask) => x.ask.revision \in DOMAIN revisions[ServiceOf[source]]
  <2>1. Knows(x, "sourceEnv", revisions, current) /\ Knows(x, "sourceSecret", revisions, current)
    BY <1>4, <1>7 DEF ReadsOf, Reads, SideOf
  <2>2. Older(x.ask) => x.ask.revision \in DOMAIN revisions[ServiceOf[source]]
    BY <2>1 DEF Knows, SideOf
  <2>3. Origin(x.ask, revisions, current) \in Vars
    BY <1>1, <1>2, <2>2, CurrentType, ContainerType DEF Origin, Runs, Current
  <2>4. \A k \in Keys : x.seen["source"][k] = Origin(x.ask, revisions, current)[k]
    BY <1>3, <2>1 DEF Knows, SideOf, KindOf, There
  <2> QED  BY <1>1, <2>2, <2>3, <2>4 DEF Vars
<1>8. ASSUME x.ask.op = "rollback"
      PROVE  /\ \A k \in Keys : k[2] = "env" =>
                  x.seen["source"][k] = Origin(x.ask, revisions, current)[k]
             /\ Older(x.ask) => x.ask.revision \in DOMAIN revisions[ServiceOf[source]]
  <2>1. Knows(x, "sourceEnv", revisions, current)
    BY <1>4, <1>8 DEF ReadsOf, SideOf
  <2> QED  BY <2>1 DEF Knows, SideOf, KindOf, There
<1> QED  BY <1>6, <1>7, <1>8 DEF Older

\* What is registered, and then run, is the running definition with what was computed
\* for one container.
LEMMA Computes ==
    ASSUME AtomInv, NEW r \in Requests, Active(r), req[r].pc \in {"register", "update"}
    PROVE  LET x == req[r]
               home == Home(x)
               d == [x.base EXCEPT ![Written(x)] = Computed(x, @)]
           IN  /\ x \in Request /\ x.result = "none" /\ Fits(x, revisions, current)
               /\ home \in Services /\ Written(x) \in ContainersOf(home)
               /\ Written(x) \in Containers /\ ServiceOf[Written(x)] = home
               /\ d = [c \in ContainersOf(home) |->
                         IF c = Written(x) THEN Computed(x, Running(c)) ELSE Running(c)]
               /\ x.pc = "update" => /\ x.revision \in DOMAIN revisions[home]
                                     /\ revisions[home][x.revision] = d
<1> DEFINE x == req[r]
           home == Home(x)
           d == [x.base EXCEPT ![Written(x)] = Computed(x, @)]
<1>1. /\ x \in Request /\ Fits(x, revisions, current) /\ Snapshot(x, revisions, current)
      /\ TypeOK /\ Prepared(r)
  BY DEF AtomInv, MoveInv, TypeInv, TypeOK, Active
<1>2. /\ home \in Services /\ Written(x) \in ContainersOf(home)
      /\ Written(x) \in Containers /\ ServiceOf[Written(x)] = home
  BY <1>1, WrittenTypes DEF Home, ContainersOf
<1>3. /\ x.result = "none" /\ x.base = Current(home)
      /\ x.pc = "update" => /\ x.revision \in DOMAIN revisions[home]
                            /\ revisions[home][x.revision] = d
  BY <1>1 DEF Snapshot, Prepared, At, Home, Current
<1>4. x.base \in [ContainersOf(home) -> ContainerDef]
  BY <1>1, <1>2, <1>3, CurrentType DEF TaskDef
<1>5. \A c \in ContainersOf(home) : x.base[c] = Running(c)
  BY <1>3 DEF Running, ContainersOf
<1>6. d = [c \in ContainersOf(home) |->
             IF c = Written(x) THEN Computed(x, Running(c)) ELSE Running(c)]
  BY <1>2, <1>4, <1>5
<1> QED  BY <1>1, <1>2, <1>3, <1>6

\* The containers after a service has been updated.
LEMMA UpdateRuns ==
    ASSUME AtomInv, NEW r \in Requests, UpdateService(r)
    PROVE  /\ revisions' = revisions
           /\ \A s \in Services \ {Home(req[r])} : current'[s] = current[s]
           /\ current'[Home(req[r])] = req[r].revision
           /\ \A c \in Containers : Running(c)' = IF c = Written(req[r])
                                                  THEN Computed(req[r], Running(c))
                                                  ELSE Running(c)
<1> DEFINE x == req[r]
           home == Home(x)
<1>1. /\ revisions' = revisions /\ current' = [current EXCEPT ![home] = x.revision]
      /\ Active(r) /\ x.pc = "update" /\ TypeOK
  BY DEF UpdateService, At, Home, AtomInv, MoveInv, TypeInv
<1>2. /\ home \in Services /\ Written(x) \in ContainersOf(home)
      /\ revisions[home][x.revision] =
           [c \in ContainersOf(home) |->
              IF c = Written(x) THEN Computed(x, Running(c)) ELSE Running(c)]
  BY <1>1, Computes
<1>3. current \in [Services -> Nat]
  BY <1>1, FunctionTypes
<1>4. /\ current'[home] = x.revision
      /\ \A s \in Services \ {home} : current'[s] = current[s]
  BY <1>1, <1>2, <1>3
<1>5. ASSUME NEW c \in Containers
      PROVE  Running(c)' = IF c = Written(x) THEN Computed(x, Running(c)) ELSE Running(c)
  <2>1. Running(c)' = revisions[ServiceOf[c]][current'[ServiceOf[c]]][c]
    BY <1>1 DEF Running, Current
  <2>2. CASE ServiceOf[c] = home
    <3>1. c \in ContainersOf(home)
      BY <2>2 DEF ContainersOf
    <3> QED  BY <1>2, <1>4, <2>1, <2>2, <3>1
  <2>3. CASE ServiceOf[c] # home
    <3>1. ServiceOf[c] \in Services /\ c # Written(x)
      BY <1>2, <2>3, ContainersAssumption DEF ContainersOf
    <3> QED  BY <1>4, <2>1, <2>3, <3>1 DEF Running, Current
  <2> QED  BY <2>2, <2>3
<1> QED  BY <1>1, <1>4, <1>5

LEMMA UpdateFits ==
    ASSUME AtomInv, MoveInv', NEW r \in Requests, UpdateService(r)
    PROVE  AtomInv'
<1> DEFINE x == req[r]
<1>1. /\ Active(r) /\ x.pc = "update" /\ x.result = "none" /\ x \in Request
      /\ Fits(x, revisions, current) /\ TypeOK
      /\ \/ /\ x.ask.op = "move" /\ x.writing = "target"
            /\ req' = [req EXCEPT ![r].pc = "base", ![r].writing = "source"]
         \/ req' = [req EXCEPT ![r].pc = "answer", ![r].result = "ok"]
         \/ FailWith(r)
  BY Computes DEF UpdateService, At, AtomInv, MoveInv, TypeInv
<1>2. /\ req' \in [Requests -> Request \cup {NoRequest}]
      /\ req \in [Requests -> Request \cup {NoRequest}]
  BY DEF AtomInv, MoveInv, TypeInv, TypeOK
<1>3. \A s \in Services : \/ Active(r) /\ s \in Uses(x.ask)
                          \/ Extends(revisions, current, revisions', current', s)
  <2>1. Home(x) \in Uses(x.ask)
    BY <1>1, WrittenTypes DEF Home
  <2> QED  BY <1>1, <2>1, UpdateRuns DEF Extends
<1>4. CASE /\ x.ask.op = "move" /\ x.writing = "target"
           /\ req' = [req EXCEPT ![r].pc = "base", ![r].writing = "source"]
  <2> DEFINE z == [x EXCEPT !.pc = "base", !.writing = "source"]
  <2> PICK source : source = x.ask.source
    OBVIOUS
  <2>1. /\ z.ask = x.ask /\ z.seen = x.seen /\ z.toRead = x.toRead /\ z.result = "none"
        /\ z.writing = "source" /\ req' = [req EXCEPT ![r] = z]
    BY <1>1, <1>4 DEF Request
  <2>2. z \in Request \cup {NoRequest}
    <3>1. req'[r] = z
      BY <1>2, <2>1
    <3> QED  BY <1>2, <3>1
  <2> HIDE DEF z
  <2>3. Running(source)'.vars = Running(source).vars
    <3>1. source \in Containers /\ x.ask.target = Written(x)
      BY <1>1, <1>4, AskTypes DEF Request, Written, Side
    <3>2. CASE source # Written(x)
      BY <3>1, <3>2, UpdateRuns
    <3>3. CASE source = Written(x)
      <4>1. x.seen["target"] = Running(source).vars
        BY <1>1, <1>4, <3>1, <3>3, Readings
      <4>2. x.seen["source"] = Origin(x.ask, revisions, current)
        BY <1>1, <1>4, Readings
      <4>3. Origin(x.ask, revisions, current) = Running(source).vars
        BY <1>4 DEF Origin, Older, Runs, Running, Current
      <4>4. Running(source).vars \in Vars
        BY <1>1, <3>1, <4>1 DEF Request, Sides
      <4>5. Merged(x.seen["source"], x.seen["target"], x.ask.names) = Running(source).vars
        BY <4>1, <4>2, <4>3, <4>4 DEF Merged, Vars
      <4>6. Computed(x, Running(source)).vars = Running(source).vars
        BY <1>4, <4>5 DEF Computed
      <4> QED  BY <3>1, <3>3, <4>6, UpdateRuns
    <3> QED  BY <3>2, <3>3
  <2>4. ASSUME NEW read \in ReadsOf(x.ask.op), SideOf(read) = "source"
        PROVE  Knows(z, read, revisions', current')
    <3>1. Knows(x, read, revisions, current)
      BY <1>1, <1>4, <2>4 DEF Fits
    <3>2. /\ There(x.ask, "source", revisions, current) = Running(source).vars
          /\ There(x.ask, "source", revisions', current') = Running(source)'.vars
      BY <1>4 DEF There, Origin, Older, Runs, Running, Current
    <3> QED  BY <1>4, <2>1, <2>3, <2>4, <3>1, <3>2 DEF Knows, Older
  <2>5. Fits(z, revisions', current')
    BY <1>1, <1>4, <2>1, <2>4 DEF Fits
  <2> QED  BY <1>3, <2>1, <2>2, <2>5, OthersFit
<1>5. CASE req' = [req EXCEPT ![r].pc = "answer", ![r].result = "ok"]
  <2> DEFINE z == [x EXCEPT !.pc = "answer", !.result = "ok"]
  <2>1. req' = [req EXCEPT ![r] = z] /\ z.result = "ok"
    BY <1>1, <1>5 DEF Request
  <2>2. z \in Request \cup {NoRequest}
    <3>1. req'[r] = z
      BY <1>2, <2>1
    <3> QED  BY <1>2, <3>1
  <2>3. Fits(z, revisions', current')
    BY <2>1 DEF Fits
  <2> QED  BY <1>3, <2>1, <2>2, <2>3, OthersFit
<1>6. CASE FailWith(r)
  BY <1>1, <1>3, <1>6, FailureFits
<1> QED  BY <1>1, <1>4, <1>5, <1>6

\* Every step keeps what requests know.
LEMMA AtomStep ==
    ASSUME Exclusive = TRUE
    PROVE  AtomInv /\ [Next]_vars => AtomInv'
<1> SUFFICES ASSUME AtomInv, [Next]_vars PROVE AtomInv'
  OBVIOUS
<1>1. MoveInv'
  BY MoveStep DEF AtomInv
<1>2. ASSUME NEW r \in Requests, CallFails(r) PROVE AtomInv'
  BY <1>1, <1>2, SameServices, FailureFits DEF CallFails
<1>3. ASSUME NEW r \in Requests, Answer(r) PROVE AtomInv'
  BY <1>1, <1>3, SameServices, OthersFit DEF Answer
<1>4. CASE Stop
  BY <1>1, <1>4 DEF Stop, AtomInv, Active
<1>5. CASE UNCHANGED vars
  BY <1>1, <1>5 DEF vars, AtomInv, Active
<1> QED  BY <1>1, <1>2, <1>3, <1>4, <1>5, StartFits, ReadFits, ReadBaseFits, RegisterFits,
            UpdateFits DEF Next

LEMMA AtomInit == Init => AtomInv
  BY MoveInit DEF Init, AtomInv, Active

\* The containers and the requests as EnvStore sees them.
Defs == [c \in Containers |-> Running(c)]
Seen == [r \in Requests |->
           IF Active(r) THEN [ask |-> req[r].ask, stage |-> Stage(req[r])] ELSE NoRequest]

LEMMA StoreReads ==
    ASSUME NEW ask \in Asks
    PROVE  /\ Store!Origin(ask) = Origin(ask, revisions, current)
           /\ ask.target \in Containers /\ ask.source \in Containers
<1>1. ask.target \in Containers /\ ask.source \in Containers
  BY AskTypes
<1> QED  BY <1>1 DEF Store!Origin, Origin, Older, Runs, Running, Current

LEMMA StoreSupport ==
    /\ Store!Keys = Keys /\ \A v : Store!Support(v) = Support(v)
    /\ \A s : Store!ContainersOf(s) = ContainersOf(s)
  BY DEF Store!Support, Support, Store!Keys, Keys, Store!ContainersOf, ContainersOf

\* A request that was not refused is possible.
LEMMA StorePossible ==
    ASSUME AtomInv, NEW r \in Requests, Active(r), req[r].result = "none",
           req[r].pc # "read", req[r].writing = "target"
    PROVE  Store!Possible(req[r].ask)
<1> DEFINE x == req[r]
           ask == x.ask
<1>1. /\ x \in Request /\ Fits(x, revisions, current) /\ ask \in Asks /\ TypeOK
  BY DEF AtomInv, MoveInv, TypeInv, TypeOK, Active, Request
<1>2. ~Refused(x) /\ x.toRead = {}
  BY <1>1 DEF Fits
<1>3. /\ Store!Origin(ask) = Origin(ask, revisions, current)
      /\ ask.target \in Containers /\ ask.source \in Containers
  BY <1>1, StoreReads
<1>4. CASE ask.op \in {"edit", "remove"}
  <2>1. Support(ask.vars) \subseteq Support(Running(ask.target).vars)
    BY <1>2, <1>4, Readings DEF Refused
  <2> QED  BY <1>3, <1>4, <2>1, StoreSupport DEF Store!Possible
<1>5. CASE ask.op \in {"copy", "rollback"} /\ ask.revision # 0
  <2>1. ask.revision \in DOMAIN revisions[ServiceOf[ask.source]]
    BY <1>5, Readings
  <2>2. /\ DOMAIN revisions[ServiceOf[ask.source]] = 1..Len(revisions[ServiceOf[ask.source]])
        /\ Len(revisions[ServiceOf[ask.source]]) \in Nat
    BY <1>1, <1>3, ContainersAssumption DEF TypeOK
  <2>3. ask.revision <= Len(revisions[ServiceOf[ask.source]])
    BY <2>1, <2>2
  <2>4. CASE ask.op = "rollback"
    BY <2>3, <2>4 DEF Store!Possible
  <2>5. CASE ask.op = "copy"
    <3>1. /\ HasNames(Origin(ask, revisions, current), ask.names)
          /\ Support(Origin(ask, revisions, current)) # {}
      BY <1>2, <2>5, Readings DEF Refused
    <3> QED  BY <1>3, <2>3, <2>5, <3>1, StoreSupport DEF Store!Possible, HasNames
  <2> QED  BY <1>5, <2>4, <2>5
<1>6. CASE ask.op = "copy" /\ ask.revision = 0
  <2>1. /\ HasNames(Origin(ask, revisions, current), ask.names)
        /\ Support(Origin(ask, revisions, current)) # {}
    BY <1>2, <1>6, Readings DEF Refused
  <2>2. 0 <= Len(revisions[ServiceOf[ask.source]])
    <3>1. Len(revisions[ServiceOf[ask.source]]) \in Nat
      BY <1>1, <1>3, ContainersAssumption DEF TypeOK
    <3> QED  BY <3>1
  <2> QED  BY <1>3, <1>6, <2>1, <2>2, StoreSupport DEF Store!Possible, HasNames
<1>7. CASE ask.op = "move"
  <2>1. HasNames(Origin(ask, revisions, current), ask.names)
    BY <1>2, <1>7, Readings DEF Refused
  <2> QED  BY <1>3, <1>7, <2>1, StoreSupport DEF Store!Possible, HasNames
<1>8. CASE ask.op \in {"add", "image"}
  BY <1>8 DEF Store!Possible
<1>9. ask.op = "rollback" => ask.revision # 0
  <2>1. ask \in Asked
    BY <1>1, AsksAssumption
  <2> QED  BY <2>1 DEF Asked
<1> QED  BY <1>1, <1>4, <1>5, <1>6, <1>7, <1>8, <1>9, AskTypes

\* What is computed for the target is what the request asks for.
LEMMA StoreValue ==
    ASSUME AtomInv, NEW r \in Requests, Active(r), req[r].result = "none",
           req[r].pc # "read", req[r].writing = "target"
    PROVE  LET old == Running(req[r].ask.target)
           IN  Computed(req[r], old) =
                 [vars |-> [k \in Keys |-> Store!Value(req[r].ask, k)],
                  image |-> IF req[r].ask.op = "image" THEN req[r].ask.image ELSE old.image]
<1> DEFINE x == req[r]
           ask == x.ask
           old == Running(ask.target)
           value == [k \in Keys |-> Store!Value(ask, k)]
<1>1. /\ x \in Request /\ ask \in Asks /\ TypeOK
  BY DEF AtomInv, MoveInv, TypeInv, TypeOK, Active, Request
<1>2. /\ Store!Origin(ask) = Origin(ask, revisions, current)
      /\ ask.target \in Containers /\ ask.source \in Containers
      /\ Defs[ask.target] = old
  BY <1>1, StoreReads DEF Defs
<1>3. old \in ContainerDef /\ old.vars \in Vars
  <2>1. /\ ask.target \in ContainersOf(ServiceOf[ask.target])
        /\ ServiceOf[ask.target] \in Services
    BY <1>2, ContainersAssumption DEF ContainersOf
  <2> QED  BY <1>1, <2>1, CurrentType, ContainerType DEF Running
<1>4. x.seen["source"] \in Vars /\ x.seen["target"] \in Vars
  BY <1>1 DEF Request, Sides
<1>5. Computed(x, old).vars = value
  <2>1. CASE ask.op \in {"add", "edit", "remove"}
    <3>1. x.seen["target"] = Defs[ask.target].vars
      BY <1>2, <2>1, Readings
    <3>2. CASE ask.op = "add"
      BY <1>2, <3>1, <3>2 DEF Computed, Added, Store!Value, Defs
    <3>3. CASE ask.op = "edit"
      BY <1>2, <3>1, <3>3 DEF Computed, Edited, Store!Value, Defs
    <3>4. CASE ask.op = "remove"
      BY <1>2, <3>1, <3>4 DEF Computed, Removed, Store!Value, Defs
    <3> QED  BY <2>1, <3>2, <3>3, <3>4
  <2>2. CASE ask.op \in {"copy", "move"}
    <3>1. /\ x.seen["target"] = Defs[ask.target].vars
          /\ x.seen["source"] = Store!Origin(ask)
      BY <1>2, <2>2, Readings
    <3>2. CASE ask.op = "copy" /\ ask.names = {}
      <4>1. \A k \in Keys : Store!Value(ask, k) = x.seen["source"][k]
        BY <3>1, <3>2 DEF Store!Value
      <4>2. Computed(x, old).vars = x.seen["source"]
        BY <3>2 DEF Computed
      <4> QED  BY <1>4, <4>1, <4>2 DEF Vars
    <3>3. CASE ~(ask.op = "copy" /\ ask.names = {})
      <4>0. ask.names # {}
        <5>1. ask \in Asked
          BY <1>1, AsksAssumption
        <5> QED  BY <2>2, <3>3, <5>1 DEF Asked
      <4>1. \A k \in Keys : Store!Value(ask, k) =
                IF k[1] \in ask.names THEN x.seen["source"][k] ELSE x.seen["target"][k]
        BY <1>2, <2>2, <3>1, <4>0 DEF Store!Value, Defs
      <4>2. Computed(x, old).vars = Merged(x.seen["source"], x.seen["target"], ask.names)
        BY <2>2, <3>3 DEF Computed
      <4> QED  BY <4>1, <4>2 DEF Merged
    <3> QED  BY <3>2, <3>3
  <2>3. CASE ask.op = "rollback"
    <3>1. \A k \in Keys : k[2] = "env" => x.seen["source"][k] = Store!Origin(ask)[k]
      BY <1>2, <2>3, Readings
    <3>2. \A k \in Keys : Store!Value(ask, k) =
              IF k[2] = "env" THEN x.seen["source"][k] ELSE old.vars[k]
      BY <1>2, <2>3, <3>1 DEF Store!Value, Defs
    <3>3. Computed(x, old).vars =
            [k \in Keys |-> IF k[2] = "env" THEN x.seen["source"][k] ELSE old.vars[k]]
      BY <2>3 DEF Computed
    <3> QED  BY <3>2, <3>3
  <2>4. CASE ask.op = "image"
    <3>1. \A k \in Keys : Store!Value(ask, k) = old.vars[k]
      BY <1>2, <2>4 DEF Store!Value, Defs
    <3>2. Computed(x, old).vars = old.vars
      BY <2>4 DEF Computed
    <3> QED  BY <1>3, <3>1, <3>2 DEF Vars
  <2> QED  BY <1>1, <2>1, <2>2, <2>3, <2>4, AskTypes
<1> HIDE DEF value
<1> QED  BY <1>5 DEF Computed, value

\* A move takes its variables out of its source.
LEMMA SourceValue ==
    ASSUME AtomInv, NEW r \in Requests, Active(r), req[r].result = "none",
           req[r].pc # "read", req[r].writing = "source"
    PROVE  LET old == Running(req[r].ask.source)
           IN  Computed(req[r], old) =
                 [old EXCEPT !.vars = [k \in Keys |-> IF k[1] \in req[r].ask.names THEN Absent
                                                                                   ELSE @[k]]]
<1> DEFINE x == req[r]
           ask == x.ask
           old == Running(ask.source)
<1>1. x \in Request /\ ask.op = "move" /\ Fits(x, revisions, current) /\ TypeOK
  BY DEF AtomInv, MoveInv, TypeInv, TypeOK, Active, Fits
<1>2. old \in ContainerDef
  <2>1. ask.source \in ContainersOf(ServiceOf[ask.source]) /\ ServiceOf[ask.source] \in Services
    BY <1>1, AskTypes, ContainersAssumption DEF ContainersOf, Request
  <2> QED  BY <1>1, <2>1, CurrentType, ContainerType DEF Running
<1>3. x.seen["source"] = old.vars
  <2>1. x.seen["source"] = Origin(ask, revisions, current)
    BY <1>1, Readings
  <2> QED  BY <1>1, <2>1 DEF Origin, Older, Runs, Running, Current
<1>4. Computed(x, old) = [vars |-> Remaining(old.vars, ask.names), image |-> old.image]
  BY <1>1, <1>3 DEF Computed
<1> HIDE DEF old
<1> QED  BY <1>2, <1>4 DEF Remaining, ContainerDef, old

\* The next effect of a request that registers or updates.
LEMMA StoreEffect ==
    ASSUME AtomInv, NEW r \in Requests, Active(r), req[r].pc \in {"register", "update"}
    PROVE  /\ Store!Waiting(r) /\ Store!Changed(r) = Home(req[r])
           /\ Store!After(r) =
                [c \in Containers |-> IF c = Written(req[r]) THEN Computed(req[r], Running(c))
                                                             ELSE Running(c)]
           /\ Store!Version(r) = [req[r].base EXCEPT ![Written(req[r])] = Computed(req[r], @)]
<1> DEFINE x == req[r]
           ask == x.ask
           after == [c \in Containers |-> IF c = Written(x) THEN Computed(x, Running(c))
                                                            ELSE Running(c)]
<1>1. /\ x \in Request /\ x.result = "none" /\ ask \in Asks
      /\ x.writing \in {"source", "target"} /\ Stage(x) = x.writing
      /\ Written(x) \in Containers
  BY Computes, WrittenTypes DEF Request, Sides, Stage
<1>2. /\ Seen[r] = [ask |-> ask, stage |-> x.writing]
      /\ Seen[r] # NoRequest
  BY <1>1, NoRequestAssumption DEF Seen, Sides
<1>3. Store!Waiting(r)
  <2>1. x.writing = "target" => Store!Possible(ask)
    BY <1>1, StorePossible
  <2> QED  BY <1>1, <1>2, <2>1 DEF Store!Waiting, Seen
<1>4. Store!Changed(r) = Home(x)
  BY <1>1, <1>2 DEF Store!Changed, Seen, Home, Written, Side
<1>5. Store!After(r) = after
  <2>1. CASE x.writing = "target"
    <3>1. Written(x) = ask.target
      BY <2>1 DEF Written, Side
    <3>2. Store!After(r) = Store!AfterTarget(ask)
      BY <1>1, <1>2, <2>1 DEF Store!After, Seen
    <3>3. Computed(x, Running(ask.target)) =
             [vars |-> [k \in Keys |-> Store!Value(ask, k)],
              image |-> IF ask.op = "image" THEN ask.image ELSE Running(ask.target).image]
      BY <1>1, <2>1, StoreValue
    <3>4. Store!AfterTarget(ask) =
             [Defs EXCEPT ![ask.target] = Computed(x, Running(ask.target))]
      BY <1>1, <3>1, <3>3, StoreSupport DEF Store!AfterTarget, Defs
    <3> QED  BY <1>1, <3>1, <3>2, <3>4 DEF Defs
  <2>2. CASE x.writing = "source"
    <3>1. Written(x) = ask.source
      BY <2>2 DEF Written, Side
    <3>2. Store!After(r) = Store!AfterSource(ask)
      BY <1>1, <1>2, <2>2 DEF Store!After, Seen
    <3>3. Computed(x, Running(ask.source)) =
             [Running(ask.source) EXCEPT
                !.vars = [k \in Keys |-> IF k[1] \in ask.names THEN Absent ELSE @[k]]]
      BY <1>1, <2>2, SourceValue
    <3>4. Store!AfterSource(ask) =
             [Defs EXCEPT ![ask.source] = Computed(x, Running(ask.source))]
      BY <1>1, <3>1, <3>3, StoreSupport DEF Store!AfterSource, Defs
    <3> QED  BY <1>1, <3>1, <3>2, <3>4 DEF Defs
  <2> QED  BY <1>1, <2>1, <2>2
<1>6. Store!Version(r) = [x.base EXCEPT ![Written(x)] = Computed(x, @)]
  <2>1. Store!Version(r) = [c \in ContainersOf(Home(x)) |-> after[c]]
    BY <1>4, <1>5, StoreSupport DEF Store!Version
  <2>2. ContainersOf(Home(x)) \subseteq Containers
    BY DEF ContainersOf
  <2>3. [x.base EXCEPT ![Written(x)] = Computed(x, @)] =
          [c \in ContainersOf(Home(x)) |->
             IF c = Written(x) THEN Computed(x, Running(c)) ELSE Running(c)]
    BY Computes
  <2> QED  BY <2>1, <2>2, <2>3
<1> QED  BY <1>3, <1>4, <1>5, <1>6

\* A step of one request, as EnvStore sees it.
LEMMA SeenOf ==
    ASSUME AtomInv, NEW r \in Requests
    PROVE  /\ Active(r) => /\ req[r] \in Request
                           /\ Seen[r] = [ask |-> req[r].ask, stage |-> Stage(req[r])]
                           /\ Seen[r] # NoRequest
           /\ ~Active(r) => Seen[r] = NoRequest
<1>1. ASSUME Active(r) PROVE req[r] \in Request /\ Stage(req[r]) \in Sides \cup {"done", "failed"}
  BY <1>1 DEF Active, AtomInv, MoveInv, TypeInv, TypeOK, Stage, Request
<1>2. ASSUME Active(r) PROVE req[r].ask \in Asks
  BY <1>1, <1>2 DEF Request
<1> QED  BY <1>1, <1>2, NoRequestAssumption DEF Seen

LEMMA SeenChanges ==
    ASSUME AtomInv, NEW r \in Requests, Active(r), NEW x \in Request,
           x.ask = req[r].ask, req' = [req EXCEPT ![r] = x]
    PROVE  Seen' = [Seen EXCEPT ![r].stage = Stage(x)]
<1>1. req \in [Requests -> Request \cup {NoRequest}] /\ NoRequest \notin Request
  BY NoRequestAssumption DEF AtomInv, MoveInv, TypeInv, TypeOK
<1>2. req'[r] = x /\ Active(r)' /\ \A t \in Requests \ {r} : req'[t] = req[t]
  BY <1>1 DEF Active
<1>3. Seen' = [t \in Requests |-> IF t = r THEN [ask |-> x.ask, stage |-> Stage(x)] ELSE Seen[t]]
  BY <1>2 DEF Seen, Active, Stage
<1>4. Seen[r] = [ask |-> req[r].ask, stage |-> Stage(req[r])]
  BY SeenOf
<1>5. [Seen[r] EXCEPT !.stage = Stage(x)] = [ask |-> x.ask, stage |-> Stage(x)]
  BY <1>4
<1>6. Seen = [t \in Requests |-> Seen[t]]
  BY DEF Seen
<1> QED  BY <1>3, <1>5, <1>6

\* The end of a request with an error.
LEMMA SeenFails ==
    ASSUME AtomInv, NEW r \in Requests, Active(r), FailWith(r)
    PROVE  Seen' = [Seen EXCEPT ![r].stage = "failed"]
<1> DEFINE z == [req[r] EXCEPT !.pc = "answer", !.result = "error"]
<1>1. z \in Request /\ z.ask = req[r].ask /\ Stage(z) = "failed"
  BY SeenOf DEF Request, Stage
<1>2. req' = [req EXCEPT ![r] = z]
  BY DEF FailWith
<1> QED  BY <1>1, <1>2, SeenChanges

\* The stage of a request that has not ended.
LEMMA SeenWorking ==
    ASSUME AtomInv, NEW r \in Requests, Active(r), req[r].pc # "answer"
    PROVE  req[r].result = "none" /\ Stage(req[r]) = req[r].writing
           /\ req[r].writing \in {"target", "source"}
  BY SeenOf DEF AtomInv, MoveInv, Snapshot, Stage, Request, Sides

\* A failure, as EnvStore sees it.
LEMMA FailsInStore ==
    ASSUME AtomInv, NEW r \in Requests, Active(r), req[r].pc # "answer", FailWith(r),
           revisions' = revisions, current' = current
    PROVE  Store!Fail(r)
<1>1. Seen' = [Seen EXCEPT ![r].stage = "failed"]
  BY SeenFails
<1>2. Seen[r] # NoRequest /\ Seen[r].stage \in {"target", "source"}
  <2>1. /\ Seen[r] = [ask |-> req[r].ask, stage |-> Stage(req[r])]
        /\ Seen[r] # NoRequest
    BY SeenOf
  <2>2. Stage(req[r]) \in {"target", "source"}
    BY SeenWorking
  <2> QED  BY <2>1, <2>2
<1>3. Defs' = Defs
  BY DEF Defs, Running, Current
<1> QED  BY <1>1, <1>2, <1>3 DEF Store!Fail, Seen, Defs

LEMMA SeenSame ==
    ASSUME AtomInv, NEW r \in Requests, Active(r)
    PROVE  [Seen EXCEPT ![r].stage = Stage(req[r])] = Seen
<1>1. Seen[r] = [ask |-> req[r].ask, stage |-> Stage(req[r])]
  BY SeenOf
<1>2. [Seen[r] EXCEPT !.stage = Stage(req[r])] = Seen[r]
  BY <1>1
<1>3. Seen = [t \in Requests |-> Seen[t]]
  BY DEF Seen
<1> QED  BY <1>2, <1>3

\* A step that EnvStore does not see.
LEMMA Stutters ==
    ASSUME Seen' = Seen, revisions' = revisions, current' = current
    PROVE  UNCHANGED Store!vars
<1>1. Defs' = Defs
  BY DEF Defs, Running, Current
<1> QED  BY <1>1 DEF Store!vars, Seen, Defs

LEMMA StartInStore ==
    ASSUME AtomInv, NEW r \in Requests, NEW ask \in Asks, Start(r, ask)
    PROVE  Store!Ask(r)
<1>1. /\ ~Active(r) /\ revisions' = revisions /\ current' = current
      /\ req'[r].ask = ask /\ Stage(req'[r]) = "target" /\ req'[r] # NoRequest
      /\ \A t \in Requests \ {r} : req'[t] = req[t]
  <2> DEFINE z == [ask |-> ask, pc |-> IF ReadsOf(ask.op) = {} THEN "base" ELSE "read",
                   toRead |-> ReadsOf(ask.op),
                   seen |-> [side \in Sides |-> NoVars],
                   writing |-> "target", base |-> Current(ServiceOf[ask.target]),
                   revision |-> 0, result |-> "none"]
  <2>1. /\ ~Active(r) /\ revisions' = revisions /\ current' = current
        /\ req' = [req EXCEPT ![r] = z]
    BY DEF Start
  <2>2. req \in [Requests -> Request \cup {NoRequest}] /\ TypeOK
    BY DEF AtomInv, MoveInv, TypeInv, TypeOK
  <2>3. z.ask = ask /\ Stage(z) = "target"
    BY DEF Stage
  <2>4. z # NoRequest
    <3>1. ServiceOf[ask.target] \in Services
      BY AskTypes, ContainersAssumption
    <3>2. Current(ServiceOf[ask.target]) \in UNION {TaskDef(s) : s \in Services}
      BY <2>2, <3>1, CurrentType
    <3>3. ReadsOf(ask.op) \subseteq Reads
      BY DEF ReadsOf, Reads
    <3>4. [side \in Sides |-> NoVars] \in [Sides -> Vars]
      BY NoVarsType
    <3>5. z \in Request
      BY <3>2, <3>3, <3>4 DEF Request, Sides
    <3> QED  BY <3>5, NoRequestAssumption
  <2> HIDE DEF z
  <2>5. req'[r] = z /\ \A t \in Requests \ {r} : req'[t] = req[t]
    BY <2>1, <2>2
  <2> QED  BY <2>1, <2>3, <2>4, <2>5
<1>2. Seen' = [Seen EXCEPT ![r] = [ask |-> ask, stage |-> "target"]]
  BY <1>1 DEF Seen, Active, Stage
<1>3. Seen[r] = NoRequest
  BY <1>1, SeenOf
<1>4. Defs' = Defs
  BY <1>1 DEF Defs, Running, Current
<1> QED  BY <1>1, <1>2, <1>3, <1>4 DEF Store!Ask, Seen, Defs

\* What a request reads, EnvStore does not see.
LEMMA ReadInStore ==
    ASSUME AtomInv, NEW r \in Requests, NEW read \in Reads, Read(r, read)
    PROVE  UNCHANGED Store!vars \/ Store!Fail(r)
<1> DEFINE x == req[r]
           side == SideOf(read)
           kind == KindOf(read)
           c == Side(x.ask, side)
           s == ServiceOf[c]
           n == IF side = "source" THEN RevisionRead(x.ask, s) ELSE current[s]
           found == [k \in Keys |-> IF k[2] = kind THEN revisions[s][n][c].vars[k]
                                                   ELSE x.seen[side][k]]
           y == [x EXCEPT !.toRead = @ \ {read},
                          !.seen[side] = [k \in Keys |-> IF k[2] = kind
                                                           THEN revisions[s][n][c].vars[k]
                                                           ELSE @[k]]]
           z == [y EXCEPT !.pc = IF y.toRead = {} THEN "base" ELSE "read"]
<1>1. /\ revisions' = revisions /\ current' = current /\ Active(r) /\ x.pc = "read"
      /\ \/ FailWith(r)
         \/ n \in DOMAIN revisions[s] /\ req' = [req EXCEPT ![r] = z]
  BY DEF Read, At, SideOf, KindOf
<1>2. CASE FailWith(r)
  BY <1>1, <1>2, FailsInStore
<1>3. CASE n \in DOMAIN revisions[s] /\ req' = [req EXCEPT ![r] = z]
  <2>1. /\ x \in Request /\ x.ask \in Asks /\ TypeOK
        /\ x.seen \in [Sides -> Vars] /\ x.toRead \subseteq Reads /\ side \in Sides
    BY <1>1, SeenOf DEF AtomInv, MoveInv, TypeInv, Request, SideOf, Sides
  <2>2. c \in ContainersOf(s) /\ s \in Services
    BY <2>1, AskTypes, ContainersAssumption DEF Side, ContainersOf
  <2>3. revisions[s][n][c].vars \in Vars
    BY <1>3, <2>1, <2>2, CurrentType, ContainerType
  <2>4. found \in Vars
    BY <2>1, <2>3 DEF Vars
  <2>5. z = [x EXCEPT !.toRead = @ \ {read}, !.seen = [@ EXCEPT ![side] = found],
                      !.pc = IF x.toRead \ {read} = {} THEN "base" ELSE "read"]
    <3> HIDE DEF side, kind, c, s, n
    <3> QED  BY <2>1 DEF Request
  <2> HIDE DEF found, z, y
  <2>6. /\ z \in Request /\ z.ask = x.ask /\ z.result = x.result /\ z.writing = x.writing
    <3> HIDE DEF side
    <3>1. [x.seen EXCEPT ![side] = found] \in [Sides -> Vars]
      BY <2>1, <2>4
    <3>2. x.toRead \ {read} \in SUBSET Reads
      BY <2>1
    <3> QED  BY <2>1, <2>5, <3>1, <3>2 DEF Request
  <2>7. Stage(z) = Stage(x)
    BY <2>6 DEF Stage
  <2>8. Seen' = [Seen EXCEPT ![r].stage = Stage(x)]
    <3>1. Seen' = [Seen EXCEPT ![r].stage = Stage(z)]
      BY <1>1, <1>3, <2>6, SeenChanges
    <3> QED  BY <2>7, <3>1
  <2> QED  BY <1>1, <2>8, SeenSame, Stutters
<1> QED  BY <1>1, <1>2, <1>3

LEMMA ReadBaseInStore ==
    ASSUME AtomInv, NEW r \in Requests, ReadBase(r)
    PROVE  UNCHANGED Store!vars
<1> DEFINE x == req[r]
           z == [x EXCEPT !.pc = "register", !.base = Current(ServiceOf[Written(x)])]
<1>1. /\ revisions' = revisions /\ current' = current /\ Active(r)
      /\ req' = [req EXCEPT ![r] = z]
  BY DEF ReadBase, At
<1>2. x \in Request /\ TypeOK
  BY <1>1, SeenOf DEF AtomInv, MoveInv, TypeInv
<1>3. Current(ServiceOf[Written(x)]) \in UNION {TaskDef(s) : s \in Services}
  BY <1>2, WrittenTypes, CurrentType
<1>4. z \in Request /\ z.ask = x.ask /\ z.result = x.result /\ z.writing = x.writing
  BY <1>2, <1>3 DEF Request
<1>5. Stage(z) = Stage(x)
  BY <1>4 DEF Stage
<1> HIDE DEF z
<1>6. Seen' = [Seen EXCEPT ![r].stage = Stage(x)]
  <2>1. Seen' = [Seen EXCEPT ![r].stage = Stage(z)]
    BY <1>1, <1>4, SeenChanges
  <2> QED  BY <1>5, <2>1
<1> QED  BY <1>1, <1>6, SeenSame, Stutters

\* The new revision is the version EnvStore puts on record.
LEMMA RegisterInStore ==
    ASSUME AtomInv, NEW r \in Requests, Register(r)
    PROVE  Store!Record(r)
<1> DEFINE x == req[r]
           z == [x EXCEPT !.pc = "update", !.revision = Len(revisions[ServiceOf[Written(x)]]) + 1]
           d == [x.base EXCEPT ![Written(x)] = Computed(x, @)]
<1>1. /\ Active(r) /\ x.pc = "register"
      /\ revisions' = [revisions EXCEPT ![Home(x)] = Append(@, d)]
      /\ req' = [req EXCEPT ![r] = z] \/ UNCHANGED req \/ FailWith(r)
  BY DEF Register, At, Home
<1>2. Store!Waiting(r) /\ Store!Changed(r) = Home(x) /\ Store!Version(r) = d
  BY <1>1, StoreEffect
<1>3. Defs' = Defs
  BY RegisterExtends, ContainersAssumption DEF Extends, Defs, Running, Current
<1>4. /\ x \in Request /\ Seen[r] = [ask |-> x.ask, stage |-> Stage(x)] /\ TypeOK
  BY <1>1, SeenOf DEF AtomInv, MoveInv, TypeInv
<1>5. \/ Seen' = [Seen EXCEPT ![r].stage = Stage(x)]
      \/ Seen' = [Seen EXCEPT ![r].stage = "failed"]
  <2>1. CASE req' = [req EXCEPT ![r] = z]
    <3>1. Len(revisions[ServiceOf[Written(x)]]) + 1 \in Nat
      BY <1>4, WrittenTypes DEF TypeOK
    <3>2. z \in Request /\ z.ask = x.ask /\ z.result = x.result /\ z.writing = x.writing
      BY <1>4, <3>1 DEF Request
    <3>3. Stage(z) = Stage(x)
      BY <3>2 DEF Stage
    <3> HIDE DEF z
    <3>4. Seen' = [Seen EXCEPT ![r].stage = Stage(z)]
      BY <1>1, <2>1, <3>2, SeenChanges
    <3> QED  BY <3>3, <3>4
  <2>2. CASE UNCHANGED req
    <3>1. Seen' = Seen
      BY <2>2 DEF Seen, Active, Stage
    <3>2. [Seen EXCEPT ![r].stage = Stage(x)] = Seen
      BY <1>1, SeenSame
    <3> QED  BY <3>1, <3>2
  <2>3. CASE FailWith(r)
    BY <1>1, <2>3, SeenFails
  <2> QED  BY <1>1, <2>1, <2>2, <2>3
<1>6. Store!GoesTo(r, Seen[r].stage)
  <2>1. \E new \in {Seen[r].stage, "failed"} : Seen' = [Seen EXCEPT ![r].stage = new]
    BY <1>4, <1>5
  <2> QED  BY <2>1 DEF Store!GoesTo, Seen
<1>7. Store!Record(r) <=> /\ Store!Waiting(r)
                          /\ revisions' = [revisions EXCEPT ![Store!Changed(r)] =
                                              Append(@, Store!Version(r))]
                          /\ Store!GoesTo(r, Seen[r].stage)
                          /\ Defs' = Defs
  BY DEF Store!Record, Seen, Defs
<1> QED  BY <1>1, <1>2, <1>3, <1>6, <1>7

\* When the service runs the new revision, the request takes effect.
LEMMA UpdateInStore ==
    ASSUME AtomInv, NEW r \in Requests, UpdateService(r)
    PROVE  Store!TakeEffect(r)
<1> DEFINE x == req[r]
           moving == x.ask.op = "move" /\ x.writing = "target"
           d == [x.base EXCEPT ![Written(x)] = Computed(x, @)]
<1>1. /\ Active(r) /\ x.pc = "update" /\ revisions' = revisions
      /\ \/ moving /\ req' = [req EXCEPT ![r].pc = "base", ![r].writing = "source"]
         \/ ~moving /\ req' = [req EXCEPT ![r].pc = "answer", ![r].result = "ok"]
         \/ FailWith(r)
  BY DEF UpdateService, At
<1>2. /\ Store!Waiting(r) /\ Store!Changed(r) = Home(x) /\ Store!Version(r) = d
      /\ Store!After(r) = [c \in Containers |-> IF c = Written(x) THEN Computed(x, Running(c))
                                                                  ELSE Running(c)]
  BY <1>1, StoreEffect
<1>3. /\ x \in Request /\ x.result = "none" /\ x.revision \in DOMAIN revisions[Home(x)]
      /\ revisions[Home(x)][x.revision] = d
  BY <1>1, Computes
<1>4. Defs' = Store!After(r)
  <2>1. Defs' = [c \in Containers |-> Running(c)']
    BY DEF Defs
  <2> QED  BY <1>2, <2>1, UpdateRuns
<1>5. Seen[r] = [ask |-> x.ask, stage |-> x.writing]
  BY <1>1, SeenOf, SeenWorking
<1>6. \E new \in {IF moving THEN "source" ELSE "done", "failed"} :
         Seen' = [Seen EXCEPT ![r].stage = new]
  <2>1. CASE moving /\ req' = [req EXCEPT ![r].pc = "base", ![r].writing = "source"]
    <3> DEFINE z == [x EXCEPT !.pc = "base", !.writing = "source"]
    <3>1. z \in Request /\ z.ask = x.ask /\ Stage(z) = "source"
      BY <1>3 DEF Request, Stage, Sides
    <3>2. req' = [req EXCEPT ![r] = z]
      BY <2>1
    <3> HIDE DEF z
    <3>3. Seen' = [Seen EXCEPT ![r].stage = Stage(z)]
      BY <1>1, <3>1, <3>2, SeenChanges
    <3> QED  BY <2>1, <3>1, <3>3
  <2>2. CASE ~moving /\ req' = [req EXCEPT ![r].pc = "answer", ![r].result = "ok"]
    <3> DEFINE z == [x EXCEPT !.pc = "answer", !.result = "ok"]
    <3>1. z \in Request /\ z.ask = x.ask /\ Stage(z) = "done"
      BY <1>3 DEF Request, Stage
    <3>2. req' = [req EXCEPT ![r] = z]
      BY <2>2
    <3> HIDE DEF z
    <3>3. Seen' = [Seen EXCEPT ![r].stage = Stage(z)]
      BY <1>1, <3>1, <3>2, SeenChanges
    <3> QED  BY <2>2, <3>1, <3>3
  <2>3. CASE FailWith(r)
    BY <1>1, <2>3, SeenFails
  <2> QED  BY <1>1, <2>1, <2>2, <2>3
<1>7. Store!GoesTo(r, IF Seen[r].ask.op = "move" /\ Seen[r].stage = "target"
                        THEN "source" ELSE "done")
  <2>1. moving <=> Seen[r].ask.op = "move" /\ Seen[r].stage = "target"
    BY <1>5
  <2> HIDE DEF moving
  <2> QED  BY <1>6, <2>1 DEF Store!GoesTo, Seen
<1>8. \E i \in DOMAIN revisions[Store!Changed(r)] :
         revisions[Store!Changed(r)][i] = Store!Version(r)
  BY <1>2, <1>3
<1> QED  BY <1>1, <1>2, <1>4, <1>7, <1>8 DEF Store!TakeEffect, Seen, Defs

LEMMA AnswerInStore ==
    ASSUME AtomInv, NEW r \in Requests, Answer(r)
    PROVE  Store!Answer(r)
<1>1. /\ Active(r) /\ req[r].pc = "answer" /\ req' = [req EXCEPT ![r] = NoRequest]
      /\ revisions' = revisions /\ current' = current
  BY DEF Answer, At
<1>2. Seen[r] = [ask |-> req[r].ask, stage |-> Stage(req[r])] /\ Seen[r] # NoRequest
  BY <1>1, SeenOf
<1>3. Stage(req[r]) \in {"done", "failed"}
  BY <1>1, SeenOf DEF AtomInv, MoveInv, Snapshot, Stage, Request
<1>4. Seen' = [Seen EXCEPT ![r] = NoRequest]
  <2>1. req \in [Requests -> Request \cup {NoRequest}]
    BY DEF AtomInv, MoveInv, TypeInv, TypeOK
  <2>2. req'[r] = NoRequest /\ \A t \in Requests \ {r} : req'[t] = req[t]
    BY <1>1, <2>1
  <2> QED  BY <2>2 DEF Seen, Active, Stage
<1>5. Defs' = Defs
  BY <1>1 DEF Defs, Running, Current
<1> QED  BY <1>1, <1>2, <1>3, <1>4, <1>5 DEF Store!Answer, Seen, Defs

LEMMA StopInStore == Stop => Store!Stop
<1> SUFFICES ASSUME Stop PROVE Store!Stop
  OBVIOUS
<1>1. Seen' = [r \in Requests |-> NoRequest]
  BY DEF Stop, Seen, Active
<1>2. Defs' = Defs
  BY DEF Stop, Defs, Running, Current
<1> QED  BY <1>1, <1>2 DEF Stop, Store!Stop, Seen, Defs

LEMMA InitInStore == Init => Store!Init
<1> SUFFICES ASSUME Init PROVE Store!Init
  OBVIOUS
<1>1. TypeOK
  BY TypeInit DEF TypeInv
<1>2. Seen = [r \in Requests |-> NoRequest]
  BY DEF Init, Seen, Active
<1>3. ASSUME NEW c \in Containers PROVE Running(c) \in ContainerDef
  <2>1. c \in ContainersOf(ServiceOf[c]) /\ ServiceOf[c] \in Services
    BY ContainersAssumption DEF ContainersOf
  <2> QED  BY <1>1, <2>1, CurrentType, ContainerType DEF Running
<1>4. Defs \in [Containers -> ContainerDef]
  BY <1>3 DEF Defs
<1>5. revisions = [s \in Services |-> <<[c \in ContainersOf(s) |-> Defs[c]]>>]
  <2>1. PICK d \in InitialDefs :
            revisions = [s \in Services |-> <<[c \in ContainersOf(s) |-> d[c]]>>]
    BY DEF Init
  <2>2. ASSUME NEW s \in Services, NEW c \in ContainersOf(s) PROVE Defs[c] = d[c]
    BY <2>1, <2>2 DEF Init, Defs, Running, Current, ContainersOf
  <2>3. \A s \in Services : [c \in ContainersOf(s) |-> Defs[c]] = [c \in ContainersOf(s) |-> d[c]]
    BY <2>2
  <2> QED  BY <2>1, <2>3
<1>6. Store!Init <=> /\ Defs \in [Containers -> ContainerDef]
                     /\ revisions = [s \in Services |-> <<[c \in ContainersOf(s) |-> Defs[c]]>>]
                     /\ Seen = [r \in Requests |-> NoRequest]
  BY DEF Store!Init, Store!ContainerDef, ContainerDef, Store!Vars, Vars, Store!Keys, Keys,
         Store!ContainersOf, ContainersOf, Defs, Seen
<1> QED  BY <1>2, <1>4, <1>5, <1>6

LEMMA StepInStore == AtomInv /\ [Next]_vars => [Store!Next]_(Store!vars)
<1> SUFFICES ASSUME AtomInv, [Next]_vars PROVE Store!Next \/ UNCHANGED Store!vars
  OBVIOUS
<1>1. ASSUME NEW r \in Requests, CallFails(r) PROVE Store!Fail(r)
  BY <1>1, FailsInStore DEF CallFails
<1>2. CASE UNCHANGED vars
  <2>1. Seen' = Seen
    BY <1>2 DEF vars, Seen, Active, Stage
  <2> QED  BY <1>2, <2>1, Stutters DEF vars
<1>3. ASSUME NEW r \in Requests,
             Store!Ask(r) \/ Store!Record(r) \/ Store!TakeEffect(r) \/ Store!Fail(r) \/ Store!Answer(r)
      PROVE  Store!Next
  BY <1>3 DEF Store!Next
<1>4. CASE Stop
  BY <1>4, StopInStore DEF Store!Next
<1>5. ASSUME NEW r \in Requests, NEW ask \in Asks, Start(r, ask)
      PROVE  Store!Next
  BY <1>3, <1>5, StartInStore
<1>6. ASSUME NEW r \in Requests, NEW read \in Reads, Read(r, read)
      PROVE  Store!Next \/ UNCHANGED Store!vars
  BY <1>3, <1>6, ReadInStore
<1>7. ASSUME NEW r \in Requests, ReadBase(r) PROVE UNCHANGED Store!vars
  BY <1>7, ReadBaseInStore
<1>8. ASSUME NEW r \in Requests, Register(r) PROVE Store!Next
  BY <1>3, <1>8, RegisterInStore
<1>9. ASSUME NEW r \in Requests, UpdateService(r) PROVE Store!Next
  BY <1>3, <1>9, UpdateInStore
<1>10. ASSUME NEW r \in Requests, Answer(r) PROVE Store!Next
  BY <1>3, <1>10, AnswerInStore
<1> QED  BY <1>1, <1>2, <1>3, <1>4, <1>5, <1>6, <1>7, <1>8, <1>9, <1>10 DEF Next

\* The API implements EnvStore (environment-variable.service.ts 70-420 and
\* environment-variable-versioning.service.ts): as long as no two requests use the
\* same service at the same time, each one takes effect at one moment, exactly as
\* asked, or not at all, whichever call to AWS fails and wherever the process stops.
THEOREM RequestsAreAtomic ==
    ASSUME Exclusive = TRUE
    PROVE  Spec => AtomicRequests
<1>1. Spec => []AtomInv
  BY AtomInit, AtomStep, PTL DEF Spec
<1>2. AtomInv /\ [Next]_vars => [Store!Next]_(Store!vars)
  BY StepInStore
<1>3. Init => Store!Init
  BY InitInStore
<1> QED  BY <1>1, <1>2, <1>3, PTL DEF Spec, AtomicRequests, Store!Spec
=============================================================================
