---------------------------- MODULE WorkflowRun ----------------------------
(***************************************************************************)
(* What WorkflowEngine.run promises its caller, with the thread pool       *)
(* hidden: the steps of a definition are settled unit by unit, in declared *)
(* order, each unit in one indivisible step.  A unit either settles every  *)
(* one of its steps, or leaves some unsettled because one of them failed   *)
(* and stops the workflow.                                                 *)
(***************************************************************************)
EXTENDS WorkflowOptions

VARIABLES groups,    \* parallel_groups of this run
          cont,      \* the steps with continue_on_failure
          past,      \* the steps of the units already settled
          results,   \* WorkflowResult.step_results
          status     \* how the run stands

runVars == <<groups, cont, past, results, status>>

RunInit ==
  /\ groups \in {gs \in GroupOptions : WellFormed(gs)}
  /\ cont \in SUBSET Steps
  /\ past = {}
  /\ results = [s \in Steps |-> "none"]
  /\ status = "new"

Accept ==
  /\ status = "new"
  /\ status' = IF Accepted(groups) THEN "running" ELSE "rejected"
  /\ UNCHANGED <<groups, cont, past, results>>

SettleUnit(s) ==
  /\ status = "running"
  /\ Opens(past, s)
  /\ past' = past \cup UnitFrom(groups, s)
  /\ results' \in [Steps -> {"none"} \cup Successes \cup Failures]
  /\ \A i \in Steps \ UnitFrom(groups, s) : results'[i] = results[i]
  /\ LET stopped == \E i \in UnitFrom(groups, s) : Stops(results', cont, i)
     IN  /\ stopped \/ \A i \in UnitFrom(groups, s) : results'[i] # "none"
         /\ status' = IF stopped THEN "failed" ELSE "running"
  /\ UNCHANGED <<groups, cont>>

Succeed ==
  /\ status = "running"
  /\ past = Steps
  /\ status' = "succeeded"
  /\ UNCHANGED <<groups, cont, past, results>>

(* An unexpected exception leaves run(), whatever was decided before it.   *)
Escape ==
  /\ status \in {"running", "failed", "succeeded"}
  /\ status' = "raised"
  /\ UNCHANGED <<groups, cont, past, results>>

RunNext ==
  \/ Accept
  \/ \E s \in Steps : SettleUnit(s)
  \/ Succeed
  \/ Escape

RunSpec == RunInit /\ [][RunNext]_runVars
=============================================================================
