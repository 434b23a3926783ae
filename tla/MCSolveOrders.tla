---------------------------- MODULE MCSolveOrders -----------------------------
(* The two commands that rate orders, on small instances: main chooses by  *)
(* its first argument.                                                     *)
EXTENDS MCCostEval, MCPermSearch

VARIABLE mode  \* argv[1]

solveVars == <<mode, vars, searchVars>>

(* `expected` rates the cards in the order of their numbers. *)
Unshuffled == [e \in Evals |-> [c \in Cards |-> c]]

SolveInit == /\ mode \in {"expected", "optim"}
             /\ Init /\ SearchInit
             /\ mode = "expected" => start = Unshuffled

SolveNext == \/ mode = "expected" /\ Next /\ UNCHANGED <<mode, searchVars>>
             \/ mode = "optim" /\ SearchNext /\ UNCHANGED <<mode, vars>>

(* The threads of `expected` run; nothing is asked of the search. *)
SolveFairness ==
  /\ WF_solveVars(mode = "expected" /\ MainThread /\ UNCHANGED <<mode, searchVars>>)
  /\ \A w \in Workers :
       WF_solveVars(mode = "expected" /\ Worker(w) /\ UNCHANGED <<mode, searchVars>>)

SolveSpec == SolveInit /\ [][SolveNext]_solveVars /\ SolveFairness

(* The ranges of `expected` cover the index: every chunk is rated at some  *)
(* time.  (main, eval_cost)                                                *)
ExpectedRatesAll == mode = "expected" => EveryChunkRated
==============================================================================
