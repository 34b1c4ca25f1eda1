------------------------ MODULE MC_ScheduledActions ------------------------
(***************************************************************************)
(* Small instances of ScheduledActions for TLC.                            *)
(***************************************************************************)
EXTENDS ScheduledActions, TLC

\* Handlers and executions are interchangeable.
Symmetry == Permutations(Requests) \cup Permutations(Runs)
=============================================================================
