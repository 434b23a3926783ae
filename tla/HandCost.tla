------------------------------- MODULE HandCost -------------------------------
(***************************************************************************)
(* getCostNoCache: the category of a final hand.  A hand is told by the    *)
(* sorted values of its cards (0 is the ace, NVals - 1 the king) and by    *)
(* whether they are of one colour.                                         *)
(*                                                                         *)
(* The loops that look for a straight run up to ncards where nhand is      *)
(* meant: once the values are in sequence they go on through the memory    *)
(* behind the vector, and succeed if it goes on in sequence too.  What it  *)
(* holds is not determined by the hand: that is a choice here.             *)
(***************************************************************************)
EXTENDS Integers, Sequences, SequencesExt, FiniteSetsExt

CONSTANTS NHand,   \* nhand
          NCards,  \* ncards
          NVals    \* 13: the values of a colour

Positions == 0..NHand - 1
Values == 0..NVals - 1
NSuits == NCards \div NVals

ASSUME RankAssumption == /\ NHand \in Nat /\ NHand > 1
                         /\ NVals \in Nat /\ NVals > NHand
                         /\ NCards \in Nat /\ NCards % NVals = 0 /\ NCards > NHand

VARIABLES vals,    \* vals, sorted
          suited,  \* colors.size() == 1
          cost     \* the category returned, "none" before the call

rankVars == <<vals, suited, cost>>

------------------------------------------------------------------------------
Sorted(v) == \A i \in 0..NHand - 2 : v[i] <= v[i + 1]

(* cntvals *)
CntVals(v, x) == Cardinality({i \in Positions : v[i] = x})

(* The hands of different cards: a colour has a value once. *)
Dealt(v, s) == \A x \in Values : CntVals(v, x) <= IF s THEN 1 ELSE NSuits

RankInit == /\ vals \in {v \in [Positions -> Values] : Sorted(v)}
            /\ suited \in BOOLEAN
            /\ Dealt(vals, suited)
            /\ cost = "none"

(* The first loop: val[i] + 1 is val[i + 1] all the way up to ncards.      *)
InSequence(v) == \A i \in 0..NHand - 2 : v[i] + 1 = v[i + 1]

(* Variant: without the comparison that closes the circle. *)
InCircleOpen(v) == \A i \in 1..NHand - 2 : (v[i] + 1) % NVals = v[i + 1]

(* The second starts at 1, counts modulo the number of values, and ends    *)
(* with the comparison of val[ncards - 1] and val[0].                      *)
InCircle(v) == /\ \A i \in 1..NHand - 2 : (v[i] + 1) % NVals = v[i + 1]
               /\ (v[NHand - 1] + NCards - NHand + 1) % NVals = v[0]

(* How the memory behind the vector goes on: with the next higher number   *)
(* each time, with the next one modulo NVals, or otherwise.                *)
Memory == {"rising", "circle", "other"}

Straight(v, mem) == \/ InSequence(v) /\ mem = "rising"
                    \/ InCircle(v) /\ mem = "circle"

(* vals[ncards - 1] once a loop has succeeded. *)
LastVal(v, mem) == LET past == v[NHand - 1] + NCards - NHand
                   IN  IF mem = "circle" THEN past % NVals ELSE past

(* repeat: how often each value occurs that does more than once, sorted.   *)
MoreThanOnce(v) == {x \in Values : CntVals(v, x) > 1}
Orders(v) == {s \in [1..Cardinality(MoreThanOnce(v)) -> MoreThanOnce(v)] : IsInjective(s)}

(* Variant: most frequent first. *)
RepeatDescending(v) ==
  LET order == CHOOSE s \in Orders(v) :
                 \A i, j \in DOMAIN s : i <= j => CntVals(v, s[i]) >= CntVals(v, s[j])
  IN  [i \in DOMAIN order |-> CntVals(v, order[i])]

Repeat(v) ==
  LET order == CHOOSE s \in Orders(v) :
                 \A i, j \in DOMAIN s : i <= j => CntVals(v, s[i]) <= CntVals(v, s[j])
  IN  [i \in DOMAIN order |-> CntVals(v, order[i])]

(* has: the highest value that occurs more than once, -1 if none does.     *)
Has(v) == Max({-1} \union MoreThanOnce(v))

(* The vector `repeats`, which nothing is added to. *)
Repeats == <<>>

(* The returns in their order, each with its condition. *)
OneColour(v, mem) ==
  << [if |-> Straight(v, mem) /\ v[0] = 0 /\ LastVal(v, mem) = NVals - 1,
      then |-> "RoyalFlush"],
     [if |-> Straight(v, mem), then |-> "StraightFlush"],
     [if |-> TRUE, then |-> "Flush"] >>

Colours(v, mem) ==
  LET r == Repeat(v)
  IN << [if |-> r # <<>> /\ r[1] = 4, then |-> "Four"],
        [if |-> r = <<2, 3>>, then |-> "House"],
        [if |-> Straight(v, mem), then |-> "Straight"],
        [if |-> r # <<>> /\ r[1] = 3, then |-> "Three"],
        [if |-> Len(r) = 2, then |-> "TwoPairs"],
        [if |-> Len(Repeats) = 1 /\ (Has(v) = 0 \/ Has(v) >= 10), then |-> "Jacks"],
        [if |-> TRUE, then |-> "Nothing"] >>

FirstThat(s) == s[SelectInSeq(s, LAMBDA e : e.if)].then

GetCostNoCache ==
  /\ cost = "none"
  /\ \E mem \in Memory :
       cost' = FirstThat(IF suited THEN OneColour(vals, mem) ELSE Colours(vals, mem))
  /\ UNCHANGED <<vals, suited>>

Returned == cost # "none" /\ UNCHANGED rankVars

RankNext == GetCostNoCache \/ Returned

RankSpec == RankInit /\ [][RankNext]_rankVars

------------------------------------------------------------------------------
(* The categories as the rules of the game tell them, by cards that agree. *)
Alike(v, n) == \E P \in SUBSET Positions :
                 Cardinality(P) = n /\ \A a, b \in P : v[a] = v[b]
TwoGroups(v, m, n) ==
  \E P, Q \in SUBSET Positions :
    /\ Cardinality(P) = m /\ Cardinality(Q) = n
    /\ \A a, b \in P : v[a] = v[b]
    /\ \A a, b \in Q : v[a] = v[b]
    /\ \A a \in P, b \in Q : v[a] # v[b]

(* In sequence, the ace low. *)
Run == InSequence(vals)

(* In sequence, the ace high. *)
TenToAce == vals[0] = 0 /\ \A i \in 1..NHand - 1 : vals[i] = NVals - NHand + i

(* A pair of jacks or better. *)
HighPair(v) == \E a, b \in Positions : a # b /\ v[a] = v[b] /\ (v[a] = 0 \/ v[a] >= 10)

(* A hand that is no straight gets the category of its equal cards, the    *)
(* highest that applies, or Flush, whatever the memory holds.  With no     *)
(* more than a pair of jacks or better it is rated no higher than that;    *)
(* whether it is rated as that is RatedByRules of MCHandCost.              *)
(* (getCostNoCache)                                                        *)
GroupsRated ==
  cost # "none" /\ ~Run /\ ~TenToAce =>
    cost \in (IF suited THEN {"Flush"}
              ELSE IF Alike(vals, 4) THEN {"Four"}
              ELSE IF TwoGroups(vals, 3, 2) THEN {"House"}
              ELSE IF Alike(vals, 3) THEN {"Three"}
              ELSE IF TwoGroups(vals, 2, 2) THEN {"TwoPairs"}
              ELSE IF HighPair(vals) THEN {"Jacks", "Nothing"}
              ELSE {"Nothing"})

(* A hand is rated as a straight only if it is one, ace low or ace high:   *)
(* the loops take no other hand for a straight, whatever they read behind  *)
(* the vector.  (the two loops of getCostNoCache)                          *)
OnlyStraights ==
  cost \in {"Straight", "StraightFlush", "RoyalFlush"} => Run \/ TenToAce

(* Inductive: the values stay those of a hand, in their order, and the     *)
(* circle closes only where the first loop succeeds as well.               *)
RankInv == /\ vals \in [Positions -> Values]
           /\ Sorted(vals)
           /\ Dealt(vals, suited)
           /\ cost \in {"Straight", "StraightFlush", "RoyalFlush"} => Run
==============================================================================
