------------------------------ MODULE MCHandCost ------------------------------
(* HandCost with the numbers of the source. *)
EXTENDS HandCost

IsStraight == Run \/ TenToAce

(* The categories the returns of getCostNoCache name, all of which costMap *)
(* pays, "costMap[(u8)CostEnum::Jacks] = 1" among them, given to the hands *)
(* they are named for: a pair of jacks or better is Jacks, ten to ace is a *)
(* straight, and in one colour the royal flush.                            *)
RatedByRules ==
  cost # "none" =>
    cost = IF suited
           THEN IF TenToAce THEN "RoyalFlush" ELSE IF Run THEN "StraightFlush" ELSE "Flush"
           ELSE IF Alike(vals, 4) THEN "Four"
           ELSE IF TwoGroups(vals, 3, 2) THEN "House"
           ELSE IF IsStraight THEN "Straight"
           ELSE IF Alike(vals, 3) THEN "Three"
           ELSE IF TwoGroups(vals, 2, 2) THEN "TwoPairs"
           ELSE IF HighPair(vals) THEN "Jacks"
           ELSE "Nothing"
==============================================================================
