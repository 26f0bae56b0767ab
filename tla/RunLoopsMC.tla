----------------------------- MODULE RunLoopsMC -----------------------------
(***************************************************************************)
(* The run kernels and the batch merge, checked together: one behaviour    *)
(* runs a kernel on any operands, or the merge on any, the other of the    *)
(* two being the smallest call there is.                                   *)
(***************************************************************************)
EXTENDS RunKernels, RunBatch

Init == \/ KInit /\ BStart({0}, {}, 0, TRUE)
        \/ Start("union_run_run", {}, {}) /\ BInit

Next == \/ KNext /\ UNCHANGED bvars
        \/ at = "done" /\ BNext /\ UNCHANGED kvars

allvars == <<kvars, bvars>>

Spec == Init /\ [][Next]_allvars /\ WF_allvars(Next)

\* Between any two iterations of the batch merge of container_handle.hpp: no run
\* still to be read is overwritten, the result fits the block and is maximal, a
\* shared payload keeps its runs.
LoopsAreSound ==
  /\ KTypeOK /\ BTypeOK /\ UnreadRunsIntact /\ ResultFitsBlock
  /\ SharedPayloadUntouched /\ BatchLeavesMaximalRuns
=============================================================================
