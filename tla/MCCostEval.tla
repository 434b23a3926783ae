------------------------------ MODULE MCCostEval ------------------------------
(* CostEval on a small index. *)
EXTENDS CostEval

(* main comes to assert(manager.data.totelem == max_seed) and to the       *)
(* printf of the expected gain after it.                                   *)
ReachesAssertion == <>(phase = "end")
==============================================================================
