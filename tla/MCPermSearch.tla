----------------------------- MODULE MCPermSearch -----------------------------
(* PermSearch on orders of few cards. *)
EXTENDS PermSearch

(* Below every gain. *)
MCIntMin == -100

(* A gain that tells orders apart, with both signs. *)
Weight(p) == p[0] * 3 - p[1] * 2
MCGain == [p \in Orders |-> Weight(p)]

(* select_next: "apply best swap".  The neighbours of the next round are   *)
(* swaps of the order select_next has left.                                *)
BestSwapKept ==
  [][step = "gen" /\ neighbor = 0 =>
       \A e \in Evals : perm'[e] = Swapped(perm[e], cur_swap'[e])]_searchVars

(* gen_next: "got new cost %Ld for perm:".  Once there is a cost, the one  *)
(* gen_next judges is the gain of the order it is printed with, and        *)
(* cur_swap, which it may keep as the best, is the swap that made it.      *)
NewCostIsOfPerm ==
  \A e \in Evals :
    step = "gen" /\ best_cost[e] # IntMin => swap_cost[e] = Gain[perm[e]]
==============================================================================
