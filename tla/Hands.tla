-------------------------------- MODULE Hands --------------------------------
(***************************************************************************)
(* The numbers solve.cpp writes hands as.  A hand is a function            *)
(* tb : 0..NHand - 1 -> 0..NCards - 1, as the array of the code.  getHand  *)
(* reads it as the digits of a number in base ncards, first card first;    *)
(* getHandForCost packs the cards in fields of six bits.                   *)
(***************************************************************************)
EXTENDS Integers

CONSTANTS NCards,   \* ncards
          NHand,    \* nhand
          Field     \* 2^tmp: the values of one field of a packed hand

ASSUME HandsAssumption == /\ NCards \in Nat \ {0}
                          /\ NHand \in Nat \ {0}
                          /\ Field \in Nat /\ NCards <= Field

Positions == 0..NHand - 1
Cards == 0..NCards - 1
Tables == [Positions -> Cards]

(* The loop res = res * base + tb[i]: res after each round. *)
ReadUpTo(tb, base) ==
  LET res[i \in 0..NHand] == IF i = 0 THEN 0 ELSE res[i - 1] * base + tb[i - 1]
  IN  res

Digits(tb, base) == ReadUpTo(tb, base)[NHand]

(* How many numbers have nhand digits: max_handforcost, 1 << nhand. *)
Powers(base) ==
  LET pow[i \in 0..NHand] == IF i = 0 THEN 1 ELSE pow[i - 1] * base
  IN  pow

Span(base) == Powers(base)[NHand]

(* The loop hand /= base, hand >>= 6: hand after each round. *)
Without(n, base) ==
  LET left[j \in 0..NHand] == IF j = 0 THEN n ELSE left[j - 1] \div base
  IN  left

(* The loops go from the last card to the first. *)
Digit(n, base, i) == Without(n, base)[NHand - 1 - i] % base

GetHand(tb) == Digits(tb, NCards)

(* Variant: the base of the packed hands. *)
GetHandWithIpermPacked(tb, iperm) == Digits([i \in Positions |-> iperm[tb[i]]], Field)

GetHandWithIperm(tb, iperm) == Digits([i \in Positions |-> iperm[tb[i]]], NCards)

(* Variant: the last card taken for the first. *)
ExtractHandBackwards(h) == [i \in Positions |-> Without(h, NCards)[i] % NCards]

ExtractHand(h) == [i \in Positions |-> Digit(h, NCards, i)]

GetHandForCost(tb) == Digits(tb, Field)

(* getHandForCost(hand, perm): the cards are renamed by perm. *)
HandForCostUnder(h, perm) ==
  GetHandForCost([i \in Positions |-> perm[ExtractHand(h)[i]]])

(* RETURN_MASK[mod] covers field j, counted from the last card, when bit j *)
(* of mod is set; getNewHand takes those fields from high.                 *)
Returned(mod, i) == Digit(mod, 2, i) = 1

PackedCard(p, i) == Digit(p, Field, i)

GetNewHand(low, high, mod) ==
  Digits([i \in Positions |-> IF Returned(mod, i) THEN PackedCard(high, i)
                              ELSE PackedCard(low, i)], Field)
==============================================================================
