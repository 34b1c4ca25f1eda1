----------------------------- MODULE MC_EnvVars -----------------------------
(***************************************************************************)
(* Constants for TLC: service s1 with the containers k1 and k2, service s2 *)
(* with k3; two names; requests that name few variables.                   *)
(***************************************************************************)
EXTENDS EnvVars, TLC

CONSTANTS s1, s2, k1, k2, k3, n1, n2, v1, v2, i1, i2

TwoServices == [c \in {k1, k2, k3} |-> IF c = k3 THEN s2 ELSE s1]

\* Some variables as a member of Vars: f gives a few of them a value.
With(f) == [k \in Keys |-> IF k \in DOMAIN f THEN f[k] ELSE Absent]
One(k, v) == With([x \in {k} |-> v])

EnvKey == <<n1, "env">>
SecretKey == <<n2, "secret">>

\* k1 has a plain variable and a secret, the others have a secret or nothing.
Start1 == [c \in {k1, k2, k3} |->
    [vars |-> CASE c = k1 -> With([k \in {EnvKey, SecretKey} |-> v1])
                [] c = k2 -> NoVars
                [] c = k3 -> One(<<n1, "secret">>, v2),
     image |-> i1]]
OneStart == {Start1}

Single(o, c, v) == [op |-> o, source |-> c, target |-> c, vars |-> v]
Copy(a, b, names, n) ==
    [op |-> "copy", source |-> a, target |-> b, names |-> names, revision |-> n]
Move(a, b, names) == [op |-> "move", source |-> a, target |-> b, names |-> names]
Rollback(c, n) == [op |-> "rollback", source |-> c, target |-> c, revision |-> n]
Image(c) == [op |-> "image", source |-> c, target |-> c, image |-> i2]

AllAsks ==
    { Single("add", k1, With([k \in {EnvKey, <<n2, "env">>} |-> v2])),
      Single("edit", k1, With([k \in {EnvKey, SecretKey} |-> v2])),
      Single("remove", k1, One(SecretKey, v1)),
      Copy(k1, k3, {}, 2), Copy(k3, k2, {n1}, 0),
      Move(k1, k3, {n1}), Move(k1, k2, {n1, n2}),
      Rollback(k1, 1), Image(k2),
      Single("edit", k3, One(<<n1, "secret">>, v1)) }

Revisions == [s \in {s1, s2} |-> IF s = s1 THEN 3 ELSE 2]

Symmetry == Permutations(Requests)

\* A move of a container's variables to itself is not refused.
SelfMove == {Move(k1, k1, {n1})}
=============================================================================
