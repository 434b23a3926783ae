-------------------------------- MODULE Query --------------------------------
(***************************************************************************)
(* `solve query`: the process a player of the game asks which cards of the *)
(* hand to return.  It reads a hand, renames its cards by iperm, loads the *)
(* chunk of the index the hand is in, and rates the 2^nhand ways to return *)
(* cards over all second hands stored for it (getBestActionForHand).       *)
(*                                                                         *)
(* The index and the cost table are those IndexBuild, ChunkIndex and       *)
(* CostTable build: the second hands of the deals with the key, and the    *)
(* payout of each packed hand.                                             *)
(***************************************************************************)
EXTENDS Hands, SequencesExt

CONSTANTS Decks,      \* what getPerm makes of each seed
          Seeds,      \* the seeds
          Perm,       \* perm: the card of the player each card stands for
          IPerm,      \* iperm: its inverse
          Payout,     \* costMap[tmpCost[x]] of each packed hand x
          ChunkSize,  \* chunk_size
          IntMin,     \* INT_MIN
          None        \* no chunk in memory

DeckPlaces == 0..2 * NHand - 1
PackedHands == 0..Span(Field) - 1

ASSUME QueryAssumption ==
  /\ IsFiniteSet(Seeds)
  /\ Decks \in [Seeds -> [DeckPlaces -> Cards]]
  /\ \A s \in Seeds : \A a, b \in DeckPlaces : Decks[s][a] = Decks[s][b] => a = b
  /\ Perm \in [Cards -> Cards]
  /\ \A c \in Cards : \E a \in Cards : Perm[a] = c
  /\ \A a \in Cards : IPerm[Perm[a]] = a
  /\ Payout \in [PackedHands -> Nat]
  /\ ChunkSize \in Nat \ {0}
  /\ IntMin \in Int
  /\ None \notin Int

VARIABLES
  pc,      \* "fgets", "load", "rate", "answer"
  tb,      \* the hand on the line that was read
  hand,    \* its key in the index
  chunk,   \* the id of the chunk in memory
  k,       \* the ways to return cards rated so far
  curBest  \* the best of them: its cost, and the way

vars == <<pc, tb, hand, chunk, k, curBest>>

------------------------------------------------------------------------------
FirstHand(s) == [i \in Positions |-> Decks[s][i]]
SecondHand(s) == [i \in Positions |-> Decks[s][NHand + i]]

(* data[pos[id]..pos[id + 1] - 1]: one entry per deal with this key. *)
Row(h) == {s \in Seeds : GetHand(FirstHand(s)) = h}

(* A cost is an int: no row is long enough to bring it below INT_MIN. *)
ASSUME RowAssumption == \A h \in 0..Span(NCards) - 1 : Cardinality(Row(h)) <= -IntMin

(* The hands a player can hold: different cards. *)
Hold == {t \in Tables : \A a, b \in Positions : t[a] = t[b] => a = b}

Masks == 0..Span(2) - 1

(* max on pairs *)
Better(p, r) == p[1] > r[1] \/ (p[1] = r[1] /\ p[2] >= r[2])

Init == /\ pc = "fgets"
        /\ tb \in Hold
        /\ hand = 0
        /\ chunk = None
        /\ k = 0
        /\ curBest = <<IntMin, 0>>

ReadLine == /\ pc = "fgets"
            /\ tb' \in Hold
            /\ hand' = GetHandWithIperm(tb', IPerm)
            /\ pc' = "load"
            /\ UNCHANGED <<chunk, k, curBest>>

(* GlobalData::getBestAction: the chunk of the hand is loaded. *)
LoadChunk == /\ pc = "load"
             /\ chunk' = hand \div ChunkSize
             /\ k' = 0
             /\ curBest' = <<IntMin, 0>>
             /\ pc' = "rate"
             /\ UNCHANGED <<tb, hand>>

(* The loop curCost += w[j], over the entries in any order. *)
Sums(w, order) ==
  LET curCost[j \in 0..Len(order)] == IF j = 0 THEN 0 ELSE curCost[j - 1] + w[order[j]]
  IN  curCost

Total(w) == LET order == SetToSeq(DOMAIN w) IN Sums(w, order)[Len(order)]

(* Chunk::getBestActionForHand, one way to return cards. *)
CurCost(mod) ==
  Total([s \in Row(hand) |->
           Payout[GetNewHand(HandForCostUnder(hand, Perm),
                             HandForCostUnder(GetHand(SecondHand(s)), Perm), mod)] - 1])

RateAction == /\ pc = "rate"
              /\ k < Span(2)
              /\ LET new == <<CurCost(k), k>>
                 IN  curBest' = IF Better(new, curBest) THEN new ELSE curBest
              /\ k' = k + 1
              /\ UNCHANGED <<pc, tb, hand, chunk>>

(* The chunk is unloaded; the positions are printed up to END. *)
Answer == /\ pc = "rate"
          /\ k >= Span(2)
          /\ chunk' = None
          /\ pc' = "answer"
          /\ UNCHANGED <<tb, hand, k, curBest>>

(* Variant: the bits read from the other end. *)
PrintedBackwards == {i \in Positions : Without(curBest[2], 2)[i] % 2 = 1}

Printed == {i \in Positions : Digit(curBest[2], 2, i) = 1}

NextLine == pc = "answer" /\ pc' = "fgets" /\ UNCHANGED <<tb, hand, chunk, k, curBest>>

Next == ReadLine \/ LoadChunk \/ RateAction \/ Answer \/ NextLine

Spec == Init /\ [][Next]_vars

------------------------------------------------------------------------------
TypeOK == /\ pc \in {"fgets", "load", "rate", "answer"}
          /\ tb \in Hold
          /\ hand \in 0..Span(NCards) - 1
          /\ chunk \in Int \union {None}
          /\ k \in 0..Span(2)
          /\ curBest \in Int \X Masks

(* The key of a hand, read back and renamed by perm, is the hand that was  *)
(* read: iperm undoes perm, and the digits lose nothing.                   *)
HandRecovered ==
  pc \in {"load", "rate", "answer"} =>
    HandForCostUnder(hand, Perm) = GetHandForCost(tb)

(* What an answer is worth, told with tables only: of the deals in which   *)
(* the player sees this hand, the sum of what the final hands win, when    *)
(* the cards at the positions in R are replaced by those of the second     *)
(* hand at the same positions.                                             *)
Seen(s) == \A i \in Positions : Perm[Decks[s][i]] = tb[i]
Final(s, R) == [i \in Positions |-> IF i \in R THEN Perm[Decks[s][NHand + i]] ELSE tb[i]]
Worth(R) == Total([s \in {t \in Seeds : Seen(t)} |->
                     Payout[GetHandForCost(Final(s, R))] - 1])

(* No other set of positions is worth more than the one printed.           *)
(* (getBestActionForHand, and the loop that prints the action)             *)
AnswerIsBest ==
  pc = "answer" => \A R \in SUBSET Positions : Worth(R) <= Worth(Printed)

(* Inductive: in the middle of the loop, the best of the ways rated so far *)
(* is kept with its own cost.                                              *)
KeyOfLine == pc \in {"load", "rate", "answer"} => hand = GetHandWithIperm(tb, IPerm)
BestSoFar ==
  /\ pc = "rate" /\ k = 0 => curBest = <<IntMin, 0>>
  /\ pc \in {"rate", "answer"} /\ k > 0 =>
       /\ curBest[1] = CurCost(curBest[2])
       /\ \A m \in 0..k - 1 : CurCost(m) <= curBest[1]
  /\ pc = "answer" => k = Span(2)

IInv == TypeOK /\ KeyOfLine /\ BestSoFar
==============================================================================
