--------------------------- MODULE MC_AutoRefresh ---------------------------
(***************************************************************************)
(* Small instances of AutoRefresh for TLC.  Intervals in quarter-seconds:  *)
(* 20 is the 5 s of the allowed list and 28 (7 s) is not in the list.      *)
(***************************************************************************)
EXTENDS AutoRefresh, TLC

\* One user opens every socket.
OneOwner == [s \in Sockets |-> CHOOSE u \in Users : TRUE]

\* Every user has one socket.
OwnSocket == CHOOSE f \in [Sockets -> Users] :
                 \A s, t \in Sockets : f[s] = f[t] => s = t

\* Manual mode, automatic mode and one allowed interval.
ValidModes == {0, -1} \cup ManualIntervals

\* ... and an interval the server rejects.
AllModes == ValidModes \cup {28}

\* Automatic mode only.
AutomaticMode == {-1}

\* Objects and callbacks are interchangeable.
Symmetry == Permutations(Clients) \cup Permutations(Execs)
=============================================================================
