SPECIFICATION Spec
CONSTANTS
    Users = {u1, u2}
    Sockets = {s1, s2}
    Owner <- OwnSocket
    Clients = {c1, c2}
    NoClient = NoClient
    Execs = {e1, e2}
    Idle = Idle
    MinInterval = 12
    MaxInterval = 24
    DefaultInterval = 12
    HealthCheckWindow = 2
    ManualIntervals = {20}
    RequestedModes <- AllModes
SYMMETRY Symmetry
INVARIANTS
    SharedInterval
    OneTimer
