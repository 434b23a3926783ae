----------------------------- MODULE MCCostTable -----------------------------
(* CostTable on hands of two cards out of three, packed in fields of four  *)
(* values: nine hands, six of them distinct, in sixteen slots.             *)
EXTENDS CostTable

H == INSTANCE Hands WITH NCards <- 3, NHand <- 2, Field <- 4

MCHandForCost == [h \in 0..8 |-> H!GetHandForCost(H!ExtractHand(h))]
MCDistinct == {h \in 0..8 : H!ExtractHand(h)[0] # H!ExtractHand(h)[1]}

(* A category per slot; what matters is that neighbours differ. *)
MCCost == [x \in 0..15 |-> x % 4]
==============================================================================
