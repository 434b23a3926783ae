------------------------------ MODULE PermSearch ------------------------------
(***************************************************************************)
(* `solve optim`: class Optimizer and the PermEval objects it drives.      *)
(*                                                                         *)
(* Each PermEval searches for a better order of the cards.  In a round it  *)
(* tries num_neighbor random swaps of its order (gen_next); the workers    *)
(* rate the orders of all objects together; then the best swap of the      *)
(* round is applied (select_next).                                         *)
(*                                                                         *)
(* The evaluation is CostEval on one range, which adds to cur_cost the     *)
(* gain of the order: one step here, Gain[perm].                           *)
(***************************************************************************)
EXTENDS Integers

CONSTANTS Evals,        \* the nperms PermEval objects
          NCards,       \* ncards
          NumNeighbor,  \* num_neighbor
          Gain,         \* what the evaluation adds for an order
          IntMin        \* INT_MIN, below every cost

Cards == 0..NCards - 1
Orders == {p \in [Cards -> Cards] : \A a, b \in Cards : p[a] = p[b] => a = b}

ASSUME SearchAssumption == /\ NCards \in Nat /\ NCards >= 2
                           /\ NumNeighbor \in Nat \ {0}
                           /\ Gain \in [Orders -> Int]
                           /\ IntMin \in Int

VARIABLES
  step,       \* Optimizer::go: "gen", "eval", "select"
  neighbor,   \* its loop variable j
  perm, cur_swap, best_swap, best_cost,  \* fields of each object
  swap_cost,  \* its field cur_cost
  start       \* the order each object was initialised with

fields == <<perm, cur_swap, swap_cost, best_swap, best_cost>>
searchVars == <<step, neighbor, fields, start>>

------------------------------------------------------------------------------
Swapped(p, s) == [p EXCEPT ![s[1]] = p[s[2]], ![s[2]] = p[s[1]]]
NoSwap == <<0, 0>>

(* rng() % ncards, and another card. *)
Swaps == {s \in Cards \X Cards : s[1] # s[2]}

(* PermEval::init: a random order, and select_next on it, which swaps      *)
(* nothing yet.  The fields init does not set are zero: the vector's       *)
(* elements are value-initialised.                                         *)
SearchInit == /\ step = "gen"
              /\ neighbor = 0
              /\ perm \in [Evals -> Orders]
              /\ start = perm
              /\ cur_swap = [e \in Evals |-> NoSwap]
              /\ swap_cost = [e \in Evals |-> 0]
              /\ best_swap = [e \in Evals |-> NoSwap]
              /\ best_cost = [e \in Evals |-> IntMin]

(* PermEval::gen_next of every object: the last swap is undone, its cost   *)
(* compared with the best, and a new random swap is applied.               *)
Improved(e) == swap_cost[e] >= best_cost[e]

(* Variants: the last swap stays; the cost is added to. *)
GenNextOnTop ==
  /\ step = "gen"
  /\ step' = "eval"
  /\ best_cost' = [e \in Evals |-> IF Improved(e) THEN swap_cost[e] ELSE best_cost[e]]
  /\ best_swap' = [e \in Evals |-> IF Improved(e) THEN cur_swap[e] ELSE best_swap[e]]
  /\ swap_cost' = [e \in Evals |-> 0]
  /\ cur_swap' \in [Evals -> Swaps]
  /\ perm' = [e \in Evals |-> Swapped(perm[e], cur_swap'[e])]
  /\ UNCHANGED <<neighbor, start>>
GenNextNoReset ==
  /\ step = "gen"
  /\ step' = "eval"
  /\ best_cost' = [e \in Evals |-> IF Improved(e) THEN swap_cost[e] ELSE best_cost[e]]
  /\ best_swap' = [e \in Evals |-> IF Improved(e) THEN cur_swap[e] ELSE best_swap[e]]
  /\ cur_swap' \in [Evals -> Swaps]
  /\ perm' = [e \in Evals |-> Swapped(Swapped(perm[e], cur_swap[e]), cur_swap'[e])]
  /\ UNCHANGED <<neighbor, start, swap_cost>>

GenNext ==
  /\ step = "gen"
  /\ step' = "eval"
  /\ best_cost' = [e \in Evals |-> IF Improved(e) THEN swap_cost[e] ELSE best_cost[e]]
  /\ best_swap' = [e \in Evals |-> IF Improved(e) THEN cur_swap[e] ELSE best_swap[e]]
  /\ swap_cost' = [e \in Evals |-> 0]
  /\ cur_swap' \in [Evals -> Swaps]
  /\ perm' = [e \in Evals |-> Swapped(Swapped(perm[e], cur_swap[e]), cur_swap'[e])]
  /\ UNCHANGED <<neighbor, start>>

(* load_query, do_cost_eval and unload_query. *)
Evaluate ==
  /\ step = "eval"
  /\ swap_cost' = [e \in Evals |-> swap_cost[e] + Gain[perm[e]]]
  /\ neighbor' = neighbor + 1
  /\ step' = IF neighbor + 1 < NumNeighbor THEN "gen" ELSE "select"
  /\ UNCHANGED <<perm, cur_swap, best_swap, best_cost, start>>

(* PermEval::select_next of every object. *)
SelectNext ==
  /\ step = "select"
  /\ step' = "gen"
  /\ neighbor' = 0
  /\ perm' = [e \in Evals |-> Swapped(Swapped(perm[e], cur_swap[e]), best_swap[e])]
  /\ cur_swap' = best_swap
  /\ best_swap' = [e \in Evals |-> NoSwap]
  /\ UNCHANGED <<swap_cost, best_cost, start>>

SearchNext == GenNext \/ Evaluate \/ SelectNext

SearchSpec == SearchInit /\ [][SearchNext]_searchVars

------------------------------------------------------------------------------
SwapsOrNone == Swaps \union {NoSwap}

(* Every variable keeps its type; in particular perm stays an order: the   *)
(* workers index it with every card, and a card it lacks would be read as  *)
(* another one.  (swap in do_swap)                                         *)
SearchTypeOK == /\ step \in {"gen", "eval", "select"}
                /\ neighbor \in 0..NumNeighbor
                /\ perm \in [Evals -> Orders]
                /\ cur_swap \in [Evals -> SwapsOrNone]
                /\ swap_cost \in [Evals -> Int]
                /\ best_swap \in [Evals -> SwapsOrNone]
                /\ best_cost \in [Evals -> Int]
                /\ start \in [Evals -> Orders]

(* The search never leaves the orders one swap away from the order it      *)
(* started with: undoing cur_swap always gives that order back, also after *)
(* select_next has applied the best swap.  (do_swap in gen_next)           *)
AroundStart == \A e \in Evals : Swapped(perm[e], cur_swap[e]) = start[e]

(* What an evaluation leaves in cur_cost is the gain of the order it has   *)
(* rated, alone, until select_next changes the order: nothing of the order *)
(* before is left in it.  It says nothing of the first gen_next of a round:*)
(* select_next has put another swap in cur_swap by then, and the cost      *)
(* stays.  (gen_next, updateCost)                                          *)
CostOfOrder ==
  \A e \in Evals :
    step = "select" \/ (step = "gen" /\ neighbor > 0) => swap_cost[e] = Gain[perm[e]]

(* The inductive invariant: cur_cost is reset before an evaluation, and a  *)
(* round has num_neighbor of them.                                         *)
SearchInv == /\ SearchTypeOK
             /\ AroundStart
             /\ CostOfOrder
             /\ step = "eval" => swap_cost = [e \in Evals |-> 0]
             /\ step # "select" => neighbor < NumNeighbor
==============================================================================
