SPECIFICATION Spec
CONSTANTS
    s1 = s1
    s2 = s2
    k1 = k1
    k2 = k2
    k3 = k3
    n1 = n1
    n2 = n2
    v1 = v1
    v2 = v2
    i1 = i1
    i2 = i2
    Services = {s1, s2}
    Containers = {k1, k2, k3}
    ServiceOf <- TwoServices
    Names = {n1, n2}
    Values = {v1, v2}
    Absent = Absent
    Images = {i1, i2}
    Requests = {r1}
    Asks <- SelfMove
    MaxRevisions <- Revisions
    InitialDefs <- OneStart
    NoRequest = NoRequest
    Exclusive = TRUE
INVARIANTS
    MoveDelivers
