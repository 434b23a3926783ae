----------------------------- MODULE MCSolveCost ------------------------------
(* `solve cost` on small instances: the table its threads fill, and a call *)
(* of getCostNoCache on its own, with the numbers of the source.           *)
EXTENDS MCCostTable, MCHandCost

VARIABLE part  \* what is looked at, "table" or "hand"

costVars == <<part, vars, rankVars>>

CostInit == /\ part \in {"table", "hand"}
            /\ Init /\ RankInit
            /\ part = "table" => vals = [p \in Positions |-> p] /\ ~suited

CostNext == \/ part = "table" /\ Next /\ UNCHANGED <<part, rankVars>>
            \/ part = "hand" /\ RankNext /\ UNCHANGED <<part, vars>>

(* The threads that fill the table run. *)
CostFairness ==
  /\ WF_costVars(part = "table" /\ MainThread /\ UNCHANGED <<part, rankVars>>)
  /\ \A w \in Workers :
       WF_costVars(part = "table" /\ Worker(w) /\ UNCHANGED <<part, rankVars>>)

CostSpec == CostInit /\ [][CostNext]_costVars /\ CostFairness

(* The table is filled, written and read: no worker and no loop over the   *)
(* file goes on for ever.  (init_cost, dumpCost, loadCost)                 *)
TableTerminates == part = "table" => Terminates
==============================================================================
