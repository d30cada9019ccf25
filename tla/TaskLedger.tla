----------------------------- MODULE TaskLedger -----------------------------
(***************************************************************************)
(* What the headless worker pool promises its caller, with no workers in   *)
(* sight: runTasksOnPool "returns one result per task, keyed by task id",  *)
(* with "no duplicates and no omissions".  Results are written once each,  *)
(* the promise resolves at most once and only when every task has its      *)
(* result, and a settled promise never changes again.                      *)
(***************************************************************************)
EXTENDS Naturals

CONSTANTS
  NumTasks,     \* how many tasks the caller passed in
  Verdicts      \* what a task's result may say

NoResult == "none"

Tasks == 1 .. NumTasks

VARIABLES
  results,      \* the caller's map, NoResult where it has no entry yet
  outcome       \* the promise: running, resolved or rejected

ledger == <<results, outcome>>

Complete(res) == \A t \in Tasks : res[t] # NoResult

Init ==
  /\ results = [t \in Tasks |-> NoResult]
  /\ outcome \in {"running", "rejected"}

\* One task gets its one result, and the result that completes the map may
\* resolve the promise in the same step.
Record(t, v) ==
  /\ outcome = "running"
  /\ results[t] = NoResult
  /\ results' = [results EXCEPT ![t] = v]
  /\ \/ UNCHANGED outcome
     \/ Complete(results') /\ outcome' = "resolved"

\* A pool that cannot start a worker gives up; what was recorded with the
\* failure that made it try stays in the map nobody will read.
Reject ==
  /\ outcome = "running"
  /\ \/ UNCHANGED results
     \/ \E t \in Tasks, v \in Verdicts :
          /\ results[t] = NoResult
          /\ results' = [results EXCEPT ![t] = v]
  /\ outcome' = "rejected"

Next == (\E t \in Tasks, v \in Verdicts : Record(t, v)) \/ Reject

Spec == Init /\ [][Next]_ledger
=============================================================================
