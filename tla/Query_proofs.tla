----------------------------- MODULE Query_proofs -----------------------------
(***************************************************************************)
(* Proofs about Query, for every number of cards, positions and deals: the *)
(* digits of a hand lose nothing (Hands), and the answer printed is a best *)
(* one.  The loops of the encodings are recursive functions; what they     *)
(* compute is shown by induction over their rounds (UpTo of SharedLemmas).  *)
(***************************************************************************)
EXTENDS Query, SharedLemmas, FiniteSetTheorems

------------------------------------------------------------------------------
(* The loops of Hands. *)

Bases == Nat \ {0}

LEMMA ReadUpToLoop ==
  ASSUME NHand \in Nat, NEW b \in Bases, NEW t \in [Positions -> Nat]
  PROVE  /\ ReadUpTo(t, b) \in [0..NHand -> Nat]
         /\ ReadUpTo(t, b)[0] = 0
         /\ \A i \in 1..NHand : ReadUpTo(t, b)[i] = ReadUpTo(t, b)[i - 1] * b + t[i - 1]
<1> DEFINE X == Nat
           Round(i, x) == x * b + t[i - 1]
           G == [i \in 1..NHand |-> [x \in X |-> Round(i, x)]]
           Body(f) == [i \in 0..NHand |-> IF i = 0 THEN 0 ELSE f[i - 1] * b + t[i - 1]]
           r == ReadUpTo(t, b)
<1>1. 0 \in X /\ \A i \in 1..NHand, x \in X : Round(i, x) \in X
  BY DEF Bases, Positions
<1> HIDE DEF X, Round
<1>2. G \in [1..NHand -> [X -> X]]  BY <1>1
<1>3. \A i \in 1..NHand, x \in X : G[i][x] = Round(i, x)  OBVIOUS
<1> HIDE DEF G
<1>4. PICK f : f \in Runs(NHand, X, 0, G)
  BY <1>1, <1>2, LoopExists
<1>5. ASSUME NEW i \in 1..NHand
      PROVE  f[i - 1] \in X /\ f[i] = Round(i, f[i - 1])
  <2>1. f[i - 1] \in X /\ f[i] = G[i][f[i - 1]]  BY <1>4 DEF Runs
  <2> QED  BY <1>3, <2>1
<1>6. f = Body(f)  BY <1>4, <1>5 DEF Round, Runs
<1>7. r = CHOOSE g : g = Body(g)  BY DEF ReadUpTo
<1> HIDE DEF r
<1>8. r = Body(r)
  <2> HIDE DEF Body
  <2> QED  BY <1>6, <1>7
<1>9. r = [i \in 0..NHand |-> r[i]] /\ r[0] = 0  BY <1>8
<1>10. \A i \in 1..NHand : r[i] = Round(i, r[i - 1])  BY <1>8 DEF Round
<1>11. \A i \in 1..NHand : r[i - 1] \in X => r[i] \in X  BY <1>1, <1>10
<1>12. r \in [0..NHand -> X]  BY <1>1, <1>9, <1>11, LoopValues, ZenonT(40)
<1> QED  BY <1>9, <1>10, <1>12 DEF r, X, Round

LEMMA PowersLoop ==
  ASSUME NHand \in Nat, NEW b \in Bases
  PROVE  /\ Powers(b) \in [0..NHand -> Bases]
         /\ Powers(b)[0] = 1
         /\ \A i \in 1..NHand : Powers(b)[i] = Powers(b)[i - 1] * b
<1> DEFINE X == Bases
           Round(i, x) == x * b
           G == [i \in 1..NHand |-> [x \in X |-> Round(i, x)]]
           Body(f) == [i \in 0..NHand |-> IF i = 0 THEN 1 ELSE f[i - 1] * b]
           r == Powers(b)
<1>1. 1 \in X /\ \A i \in 1..NHand, x \in X : Round(i, x) \in X
  BY DEF Bases
<1> HIDE DEF X, Round
<1>2. G \in [1..NHand -> [X -> X]]  BY <1>1
<1>3. \A i \in 1..NHand, x \in X : G[i][x] = Round(i, x)  OBVIOUS
<1> HIDE DEF G
<1>4. PICK f : f \in Runs(NHand, X, 1, G)
  BY <1>1, <1>2, LoopExists
<1>5. ASSUME NEW i \in 1..NHand
      PROVE  f[i - 1] \in X /\ f[i] = Round(i, f[i - 1])
  <2>1. f[i - 1] \in X /\ f[i] = G[i][f[i - 1]]  BY <1>4 DEF Runs
  <2> QED  BY <1>3, <2>1
<1>6. f = Body(f)  BY <1>4, <1>5 DEF Round, Runs
<1>7. r = CHOOSE g : g = Body(g)  BY DEF Powers
<1> HIDE DEF r
<1>8. r = Body(r)
  <2> HIDE DEF Body
  <2> QED  BY <1>6, <1>7
<1>9. r = [i \in 0..NHand |-> r[i]] /\ r[0] = 1  BY <1>8
<1>10. \A i \in 1..NHand : r[i] = Round(i, r[i - 1])  BY <1>8 DEF Round
<1>11. \A i \in 1..NHand : r[i - 1] \in X => r[i] \in X  BY <1>1, <1>10
<1>12. r \in [0..NHand -> X]  BY <1>1, <1>9, <1>11, LoopValues, ZenonT(40)
<1> QED  BY <1>9, <1>10, <1>12 DEF r, X, Round

LEMMA WithoutLoop ==
  ASSUME NHand \in Nat, NEW b \in Bases, NEW n \in Int
  PROVE  /\ Without(n, b) \in [0..NHand -> Int]
         /\ Without(n, b)[0] = n
         /\ \A i \in 1..NHand : Without(n, b)[i] = Without(n, b)[i - 1] \div b
<1> DEFINE X == Int
           Round(i, x) == x \div b
           G == [i \in 1..NHand |-> [x \in X |-> Round(i, x)]]
           Body(f) == [i \in 0..NHand |-> IF i = 0 THEN n ELSE f[i - 1] \div b]
           r == Without(n, b)
<1>1. n \in X /\ \A i \in 1..NHand, x \in X : Round(i, x) \in X
  BY DivMod DEF Bases
<1> HIDE DEF X, Round
<1>2. G \in [1..NHand -> [X -> X]]  BY <1>1
<1>3. \A i \in 1..NHand, x \in X : G[i][x] = Round(i, x)  OBVIOUS
<1> HIDE DEF G
<1>4. PICK f : f \in Runs(NHand, X, n, G)
  BY <1>1, <1>2, LoopExists
<1>5. ASSUME NEW i \in 1..NHand
      PROVE  f[i - 1] \in X /\ f[i] = Round(i, f[i - 1])
  <2>1. f[i - 1] \in X /\ f[i] = G[i][f[i - 1]]  BY <1>4 DEF Runs
  <2> QED  BY <1>3, <2>1
<1>6. f = Body(f)  BY <1>4, <1>5 DEF Round, Runs
<1>7. r = CHOOSE g : g = Body(g)  BY DEF Without
<1> HIDE DEF r
<1>8. r = Body(r)
  <2> HIDE DEF Body
  <2> QED  BY <1>6, <1>7
<1>9. r = [i \in 0..NHand |-> r[i]] /\ r[0] = n  BY <1>8
<1>10. \A i \in 1..NHand : r[i] = Round(i, r[i - 1])  BY <1>8 DEF Round
<1>11. \A i \in 1..NHand : r[i - 1] \in X => r[i] \in X  BY <1>1, <1>10
<1>12. r \in [0..NHand -> X]  BY <1>1, <1>9, <1>11, LoopValues, ZenonT(40)
<1> QED  BY <1>9, <1>10, <1>12 DEF r, X, Round

------------------------------------------------------------------------------
(* A number of nhand digits is below the span of its base. *)
LEMMA DigitsInSpan ==
  ASSUME NHand \in Nat, NEW b \in Bases, NEW t \in [Positions -> 0..b - 1]
  PROVE  Digits(t, b) \in 0..Span(b) - 1
<1> DEFINE r == ReadUpTo(t, b)
           p == Powers(b)
           S == {i \in 0..NHand : r[i] < p[i]}
<1>1. t \in [Positions -> Nat]  BY DEF Bases
<1>2. /\ r \in [0..NHand -> Nat] /\ r[0] = 0
      /\ \A i \in 1..NHand : r[i] = r[i - 1] * b + t[i - 1]
  BY <1>1, ReadUpToLoop
<1>3. /\ p \in [0..NHand -> Bases] /\ p[0] = 1
      /\ \A i \in 1..NHand : p[i] = p[i - 1] * b
  BY PowersLoop
<1> HIDE DEF r, p
<1>4. 0 \in S  BY <1>2, <1>3
<1>5. ASSUME NEW i \in 1..NHand, i - 1 \in S PROVE i \in S
  <2>1. /\ r[i - 1] \in Int /\ p[i - 1] \in Int /\ r[i - 1] < p[i - 1]
        /\ b \in Nat \ {0}
    BY <1>2, <1>3, <1>5 DEF Bases
  <2>2. r[i - 1] * b + b <= p[i - 1] * b  BY <2>1, MultipleStep
  <2>3. t[i - 1] \in 0..b - 1  BY DEF Positions
  <2>4. r[i] = r[i - 1] * b + t[i - 1] /\ p[i] = p[i - 1] * b  BY <1>2, <1>3
  <2>5. r[i - 1] * b \in Int /\ p[i - 1] * b \in Int  BY <2>1
  <2>6. r[i] < p[i]  BY <2>2, <2>3, <2>4, <2>5, <2>1
  <2> QED  BY <2>6
<1> HIDE DEF S
<1>6. 0..NHand \subseteq S  BY <1>4, <1>5, UpTo
<1>7. NHand \in S  BY <1>6
<1>8. r[NHand] < p[NHand] /\ r[NHand] \in Nat /\ p[NHand] \in Nat
  BY <1>2, <1>3, <1>7 DEF S, Bases
<1> QED  BY <1>8 DEF Digits, Span, r, p

(* Digits loses nothing: each digit is read back where it was written.     *)
LEMMA DigitsRoundTrip ==
  ASSUME NHand \in Nat, NEW b \in Bases, NEW t \in [Positions -> 0..b - 1],
         NEW i \in Positions
  PROVE  Digit(Digits(t, b), b, i) = t[i]
<1> DEFINE r == ReadUpTo(t, b)
           n == Digits(t, b)
           w == Without(n, b)
           S == {j \in 0..NHand : w[j] = r[NHand - j]}
<1>1. t \in [Positions -> Nat]  BY DEF Bases
<1>2. /\ r \in [0..NHand -> Nat] /\ r[0] = 0
      /\ \A j \in 1..NHand : r[j] = r[j - 1] * b + t[j - 1]
  BY <1>1, ReadUpToLoop
<1>3. n = r[NHand]  BY DEF Digits
<1> HIDE DEF r
<1>4. n \in Int  BY <1>2, <1>3
<1> HIDE DEF n
<1>5. w \in [0..NHand -> Int] /\ w[0] = n /\ \A j \in 1..NHand : w[j] = w[j - 1] \div b
  BY <1>4, WithoutLoop
<1> HIDE DEF w
<1>6. 0 \in S  BY <1>3, <1>5
<1>7. ASSUME NEW m \in 1..NHand
      PROVE  r[m] \div b = r[m - 1] /\ r[m] % b = t[m - 1]
  <2>1. r[m - 1] \in Int /\ t[m - 1] \in 0..b - 1 /\ b \in Nat \ {0}
    BY <1>2 DEF Positions, Bases
  <2>2. r[m] = r[m - 1] * b + t[m - 1]  BY <1>2
  <2> QED  BY <2>1, <2>2, DivUnique, ZenonT(40)
<1>8. ASSUME NEW j \in 1..NHand, j - 1 \in S PROVE j \in S
  <2>1. NHand - (j - 1) \in 1..NHand /\ (NHand - (j - 1)) - 1 = NHand - j
    OBVIOUS
  <2>2. w[j - 1] = r[NHand - (j - 1)]  BY <1>8
  <2>3. w[j] = w[j - 1] \div b  BY <1>5
  <2>4. w[j] = r[NHand - j]  BY <1>7, <2>1, <2>2, <2>3
  <2> QED  BY <2>4
<1> HIDE DEF S
<1>9. 0..NHand \subseteq S  BY <1>6, <1>8, UpTo
<1> DEFINE j == NHand - 1 - i
<1>10. j \in 0..NHand /\ NHand - j = i + 1 /\ i + 1 \in 1..NHand /\ (i + 1) - 1 = i
  BY DEF Positions
<1>11. w[j] = r[i + 1]  BY <1>9, <1>10 DEF S
<1>12. w[j] % b = t[i]  BY <1>7, <1>10, <1>11
<1> QED  BY <1>12 DEF Digit, w, n

------------------------------------------------------------------------------
(* Hands and packed hands. *)

LEMMA Sizes ==
  /\ NHand \in Nat /\ NCards \in Bases /\ Field \in Bases /\ 2 \in Bases
  /\ 0..NCards - 1 \subseteq 0..Field - 1
  BY HandsAssumption DEF Bases

LEMMA HandReadBack ==
  ASSUME NEW t \in Tables
  PROVE  GetHand(t) \in 0..Span(NCards) - 1 /\ ExtractHand(GetHand(t)) = t
<1>1. t \in [Positions -> 0..NCards - 1]  BY DEF Tables, Cards
<1>2. Digits(t, NCards) \in 0..Span(NCards) - 1  BY <1>1, Sizes, DigitsInSpan
<1>3. \A i \in Positions : Digit(Digits(t, NCards), NCards, i) = t[i]
  BY <1>1, Sizes, DigitsRoundTrip
<1>4. ExtractHand(GetHand(t)) = [i \in Positions |-> t[i]]
  BY <1>3 DEF ExtractHand, GetHand
<1> QED  BY <1>1, <1>2, <1>4 DEF GetHand

LEMMA PackedReadBack ==
  ASSUME NEW t \in Tables
  PROVE  /\ GetHandForCost(t) \in PackedHands
         /\ \A i \in Positions : PackedCard(GetHandForCost(t), i) = t[i]
<1>1. t \in [Positions -> 0..Field - 1]  BY Sizes DEF Tables, Cards
<1>2. Digits(t, Field) \in 0..Span(Field) - 1  BY <1>1, Sizes, DigitsInSpan
<1>3. \A i \in Positions : Digit(Digits(t, Field), Field, i) = t[i]
  BY <1>1, Sizes, DigitsRoundTrip
<1> QED  BY <1>2, <1>3 DEF GetHandForCost, PackedHands, PackedCard

(* Every set of positions is the set of bits of one of the masks. *)
LEMMA EveryMask ==
  ASSUME NEW R \in SUBSET Positions
  PROVE  \E m \in Masks : {i \in Positions : Returned(m, i)} = R
<1> DEFINE t == [i \in Positions |-> IF i \in R THEN 1 ELSE 0]
           m == Digits(t, 2)
<1>1. t \in [Positions -> 0..2 - 1]  OBVIOUS
<1>2. \A i \in Positions : t[i] = 1 <=> i \in R  OBVIOUS
<1> HIDE DEF t
<1>3. m \in Masks  BY <1>1, Sizes, DigitsInSpan DEF Masks
<1>4. \A i \in Positions : Digit(m, 2, i) = t[i]  BY <1>1, Sizes, DigitsRoundTrip
<1> HIDE DEF m
<1>5. {i \in Positions : Returned(m, i)} = R  BY <1>2, <1>4 DEF Returned
<1> QED  BY <1>3, <1>5

Renamed(t) == [i \in Positions |-> Perm[t[i]]]

(* A hand read from its key and renamed. *)
LEMMA UnderPerm ==
  ASSUME NEW t \in Tables
  PROVE  Renamed(t) \in Tables /\ HandForCostUnder(GetHand(t), Perm) = GetHandForCost(Renamed(t))
<1>1. Renamed(t) \in Tables  BY QueryAssumption DEF Tables, Renamed
<1> QED  BY <1>1, HandReadBack DEF HandForCostUnder, Renamed

(* iperm undoes perm on both sides. *)
LEMMA PermInverse ==
  ASSUME NEW c \in Cards
  PROVE  IPerm[c] \in Cards /\ Perm[IPerm[c]] = c
<1>1. PICK a \in Cards : Perm[a] = c  BY QueryAssumption
<1>2. IPerm[c] = a  BY <1>1, QueryAssumption
<1> QED  BY <1>1, <1>2

(* The hand of the line in the cards of the index. *)
Original(t) == [i \in Positions |-> IPerm[t[i]]]

LEMMA KeyOfHand ==
  ASSUME NEW t \in Tables
  PROVE  /\ Original(t) \in Tables
         /\ GetHandWithIperm(t, IPerm) = GetHand(Original(t))
         /\ Renamed(Original(t)) = t
<1>1. \A i \in Positions : t[i] \in Cards  BY DEF Tables
<1>2. Original(t) \in Tables  BY <1>1, PermInverse DEF Original, Tables
<1>3. \A i \in Positions : Renamed(Original(t))[i] = t[i]
  BY <1>1, PermInverse DEF Renamed, Original
<1>4. Renamed(Original(t)) = t  BY <1>3 DEF Renamed, Tables
<1> QED  BY <1>2, <1>4 DEF GetHandWithIperm, GetHand, Original

(* The key, read back and renamed, is the hand of the line. *)
LEMMA KeyRecovered ==
  ASSUME NEW t \in Tables
  PROVE  HandForCostUnder(GetHandWithIperm(t, IPerm), Perm) = GetHandForCost(t)
  BY KeyOfHand, UnderPerm

LEMMA Deals ==
  ASSUME NEW s \in Seeds
  PROVE  FirstHand(s) \in Tables /\ SecondHand(s) \in Tables
<1>1. Decks[s] \in [DeckPlaces -> Cards]  BY QueryAssumption
<1>2. \A i \in Positions : i \in DeckPlaces /\ NHand + i \in DeckPlaces
  BY Sizes DEF Positions, DeckPlaces
<1> QED  BY <1>1, <1>2 DEF FirstHand, SecondHand, Tables

(* The row of the key has the deals in which the player sees the hand. *)
LEMMA RowIsSeen ==
  ASSUME tb \in Tables, hand = GetHandWithIperm(tb, IPerm)
  PROVE  Row(hand) = {s \in Seeds : Seen(s)}
<1>1. ASSUME NEW s \in Seeds
      PROVE  GetHand(FirstHand(s)) = hand <=> Seen(s)
  <2>1. FirstHand(s) \in Tables /\ Original(tb) \in Tables  BY Deals, KeyOfHand
  <2>2. hand = GetHand(Original(tb))  BY KeyOfHand
  <2>3. GetHand(FirstHand(s)) = hand <=> FirstHand(s) = Original(tb)
    BY <2>1, <2>2, HandReadBack
  <2>4. \A i \in Positions : Decks[s][i] \in Cards /\ tb[i] \in Cards
    BY <2>1 DEF FirstHand, Tables
  <2>5. FirstHand(s) = Original(tb) <=> \A i \in Positions : Decks[s][i] = IPerm[tb[i]]
    BY DEF FirstHand, Original
  <2>6. ASSUME NEW i \in Positions
        PROVE  Decks[s][i] = IPerm[tb[i]] <=> Perm[Decks[s][i]] = tb[i]
    BY <2>4, PermInverse, QueryAssumption
  <2> QED  BY <2>3, <2>5, <2>6 DEF Seen
<1> QED  BY <1>1 DEF Row

------------------------------------------------------------------------------
(* The sum over the row. *)

RunningSum(c, N, w, o) ==
  /\ c \in [0..N -> Int]
  /\ c[0] = 0
  /\ \A i \in 1..N : c[i] = c[i - 1] + w[o[i]]

LEMMA SumsLoop ==
  ASSUME NEW N \in Nat, NEW D, NEW w \in [D -> Int], NEW o, o \in [1..N -> D], Len(o) = N
  PROVE  RunningSum(Sums(w, o), N, w, o)
<1> DEFINE X == Int
           Round(i, x) == x + w[o[i]]
           G == [i \in 1..N |-> [x \in X |-> Round(i, x)]]
           Body(f) == [i \in 0..N |-> IF i = 0 THEN 0 ELSE f[i - 1] + w[o[i]]]
           r == Sums(w, o)
<1>1. 0 \in X /\ \A i \in 1..N, x \in X : Round(i, x) \in X
  OBVIOUS
<1> HIDE DEF X, Round
<1>2. G \in [1..N -> [X -> X]]  BY <1>1
<1>3. \A i \in 1..N, x \in X : G[i][x] = Round(i, x)  OBVIOUS
<1> HIDE DEF G
<1>4. PICK f : f \in Runs(N, X, 0, G)
  BY <1>1, <1>2, LoopExists
<1>5. ASSUME NEW i \in 1..N
      PROVE  f[i - 1] \in X /\ f[i] = Round(i, f[i - 1])
  <2>1. f[i - 1] \in X /\ f[i] = G[i][f[i - 1]]  BY <1>4 DEF Runs
  <2> QED  BY <1>3, <2>1
<1>6. f = Body(f)  BY <1>4, <1>5 DEF Round, Runs
<1>7. r = CHOOSE g : g = Body(g)  BY DEF Sums
<1> HIDE DEF r
<1>8. r = Body(r)
  <2> HIDE DEF Body
  <2> QED  BY <1>6, <1>7
<1>9. r = [i \in 0..N |-> r[i]] /\ r[0] = 0  BY <1>8
<1>10. \A i \in 1..N : r[i] = Round(i, r[i - 1])  BY <1>8 DEF Round
<1>11. \A i \in 1..N : r[i - 1] \in X => r[i] \in X  BY <1>1, <1>10
<1>12. r \in [0..N -> X]  BY <1>1, <1>9, <1>11, LoopValues, ZenonT(40)
<1> QED  BY <1>9, <1>10, <1>12 DEF r, X, Round, RunningSum

LEMMA Enumeration ==
  ASSUME NEW S, IsFiniteSet(S)
  PROVE  /\ Cardinality(S) \in Nat
         /\ SetToSeq(S) \in [1..Cardinality(S) -> S]
         /\ Len(SetToSeq(S)) = Cardinality(S)
<1> DEFINE n == Cardinality(S)
<1>1. n \in Nat /\ ExistsBijection(1..n, S)  BY FS_CardinalityType
<1> HIDE DEF n
<1>2. \E f \in [1..n -> S] : IsInjective(f)
  BY <1>1 DEF ExistsBijection, Bijection, Injection
<1>3. SetToSeq(S) \in [1..n -> S]  BY <1>2 DEF SetToSeq, n
<1>4. Len(SetToSeq(S)) = n  BY <1>1, <1>3
<1> QED  BY <1>1, <1>3, <1>4 DEF n

(* A sum of numbers that are at least -1 is at least minus their count.    *)
LEMMA TotalBound ==
  ASSUME NEW S, IsFiniteSet(S), NEW w \in [S -> Int], \A x \in S : w[x] >= -1
  PROVE  Total(w) \in Int /\ Total(w) >= -Cardinality(S)
<1> DEFINE o == SetToSeq(S)
           N == Cardinality(S)
           c == Sums(w, o)
           T == {j \in 0..N : c[j] >= -j}
<1>1. N \in Nat /\ o \in [1..N -> S] /\ Len(o) = N  BY Enumeration
<1> HIDE DEF o, N
<1>2. c \in [0..N -> Int] /\ c[0] = 0 /\ \A j \in 1..N : c[j] = c[j - 1] + w[o[j]]
  <2>1. RunningSum(c, N, w, o)  BY <1>1, SumsLoop
  <2> QED  BY <2>1 DEF RunningSum
<1> HIDE DEF c
<1>3. 0 \in T  BY <1>1, <1>2
<1>4. ASSUME NEW j \in 1..N, j - 1 \in T PROVE j \in T
  <2>1. c[j] = c[j - 1] + w[o[j]] /\ c[j - 1] >= -(j - 1)  BY <1>2, <1>4
  <2>2. c[j - 1] \in Int /\ w[o[j]] \in Int /\ w[o[j]] >= -1  BY <1>1, <1>2
  <2> QED  BY <1>1, <2>1, <2>2
<1> HIDE DEF T
<1>5. 0..N \subseteq T  BY <1>1, <1>3, <1>4, UpTo
<1>6. N \in T  BY <1>1, <1>5
<1>7. c[N] \in Int /\ c[N] >= -N  BY <1>1, <1>2, <1>6 DEF T
<1>8. Total(w) = c[N]
  <2>1. DOMAIN w = S  OBVIOUS
  <2> QED  BY <1>1, <2>1 DEF Total, o, c
<1> QED  BY <1>7, <1>8 DEF N

------------------------------------------------------------------------------
(* What a way to return cards costs, is what its set of positions is worth. *)

Bits(m) == {i \in Positions : Returned(m, i)}

LEMMA NewHand ==
  ASSUME NEW t \in Tables, NEW u \in Tables, NEW m
  PROVE  GetNewHand(GetHandForCost(t), GetHandForCost(u), m)
           = GetHandForCost([i \in Positions |-> IF i \in Bits(m) THEN u[i] ELSE t[i]])
<1>1. \A i \in Positions : /\ PackedCard(GetHandForCost(t), i) = t[i]
                           /\ PackedCard(GetHandForCost(u), i) = u[i]
  BY PackedReadBack
<1>2. [i \in Positions |-> IF Returned(m, i) THEN PackedCard(GetHandForCost(u), i)
                          ELSE PackedCard(GetHandForCost(t), i)]
      = [i \in Positions |-> IF i \in Bits(m) THEN u[i] ELSE t[i]]
  BY <1>1 DEF Bits
<1> QED  BY <1>2 DEF GetNewHand, GetHandForCost

LEMMA CostIsWorth ==
  ASSUME tb \in Tables, hand = GetHandWithIperm(tb, IPerm), NEW m
  PROVE  CurCost(m) = Worth(Bits(m))
<1> DEFINE low == HandForCostUnder(hand, Perm)
           high(s) == HandForCostUnder(GetHand(SecondHand(s)), Perm)
<1>1. low = GetHandForCost(tb)  BY KeyRecovered
<1>2. ASSUME NEW s \in Seeds
      PROVE  GetNewHand(low, high(s), m) = GetHandForCost(Final(s, Bits(m)))
  <2>1. SecondHand(s) \in Tables  BY Deals
  <2>2. /\ Renamed(SecondHand(s)) \in Tables
        /\ high(s) = GetHandForCost(Renamed(SecondHand(s)))
    BY <2>1, UnderPerm
  <2> DEFINE u == Renamed(SecondHand(s))
  <2>3. \A i \in Positions : u[i] = Perm[Decks[s][NHand + i]]
    BY DEF Renamed, SecondHand
  <2>4. Final(s, Bits(m)) = [i \in Positions |-> IF i \in Bits(m) THEN u[i] ELSE tb[i]]
    BY <2>3 DEF Final
  <2> QED  BY <1>1, <2>2, <2>4, NewHand
<1>3. Row(hand) = {s \in Seeds : Seen(s)} /\ Row(hand) \subseteq Seeds
  BY RowIsSeen
<1>4. [s \in Row(hand) |-> Payout[GetNewHand(low, high(s), m)] - 1]
      = [s \in {t \in Seeds : Seen(t)} |-> Payout[GetHandForCost(Final(s, Bits(m)))] - 1]
  BY <1>2, <1>3
<1> QED  BY <1>4 DEF CurCost, Worth

LEMMA CostIsInt ==
  ASSUME tb \in Tables, hand = GetHandWithIperm(tb, IPerm), NEW m
  PROVE  CurCost(m) \in Int /\ CurCost(m) >= IntMin
<1> DEFINE S == {s \in Seeds : Seen(s)}
           w == [s \in S |-> Payout[GetHandForCost(Final(s, Bits(m)))] - 1]
<1>1. ASSUME NEW s \in Seeds
      PROVE  Final(s, Bits(m)) \in Tables
  <2>1. Renamed(SecondHand(s)) \in Tables  BY Deals, UnderPerm
  <2>2. \A i \in Positions : Perm[Decks[s][NHand + i]] \in Cards /\ tb[i] \in Cards
    BY <2>1 DEF Renamed, SecondHand, Tables
  <2> QED  BY <2>2 DEF Final, Tables
<1>2. \A s \in S : Payout[GetHandForCost(Final(s, Bits(m)))] \in Nat
  BY <1>1, PackedReadBack, QueryAssumption
<1>3. w \in [S -> Int] /\ \A s \in S : w[s] >= -1  BY <1>2
<1>4. IsFiniteSet(S)  BY QueryAssumption, FS_Subset
<1> HIDE DEF w
<1>5. Total(w) \in Int /\ Total(w) >= -Cardinality(S)  BY <1>3, <1>4, TotalBound
<1>6. S = Row(hand)  BY RowIsSeen
<1>7. hand \in 0..Span(NCards) - 1  BY KeyOfHand, HandReadBack
<1>8. Cardinality(S) <= -IntMin /\ Cardinality(S) \in Nat /\ IntMin \in Int
  BY <1>4, <1>6, <1>7, RowAssumption, FS_CardinalityType, QueryAssumption
<1>9. Total(w) = CurCost(m)  BY CostIsWorth DEF Worth, w
<1> QED  BY <1>5, <1>8, <1>9

------------------------------------------------------------------------------
(* The inductive invariant. *)

LEMMA Spans ==
  /\ Span(2) \in Nat \ {0} /\ Span(NCards) \in Nat \ {0}
  /\ 0 \in Masks /\ Hold \subseteq Tables
<1>1. Span(2) \in Bases /\ Span(NCards) \in Bases
  <2>1. NHand \in 0..NHand  BY Sizes
  <2> QED  BY <2>1, Sizes, PowersLoop DEF Span
<1> QED  BY <1>1 DEF Bases, Masks, Hold

LEMMA InitInv ==
  ASSUME Init
  PROVE  IInv
  BY Spans, QueryAssumption DEF Init, IInv, TypeOK, KeyOfLine, BestSoFar

LEMMA ReadLineInv ==
  ASSUME IInv, ReadLine
  PROVE  IInv'
<1>1. tb' \in Tables  BY Spans DEF ReadLine
<1>2. hand' \in 0..Span(NCards) - 1  BY <1>1, KeyOfHand, HandReadBack DEF ReadLine
<1>3. TypeOK'  BY <1>2 DEF IInv, TypeOK, ReadLine
<1>4. KeyOfLine' /\ BestSoFar'  BY DEF KeyOfLine, BestSoFar, ReadLine
<1> QED  BY <1>3, <1>4 DEF IInv

LEMMA LoadChunkInv ==
  ASSUME IInv, LoadChunk
  PROVE  IInv'
<1>1. chunk' \in Int
  <2>1. hand \in Int /\ ChunkSize \in Nat \ {0}
    BY Spans, QueryAssumption DEF IInv, TypeOK
  <2> QED  BY <2>1, DivMod DEF LoadChunk
<1>2. TypeOK'  BY <1>1, Spans, QueryAssumption DEF IInv, TypeOK, LoadChunk
<1>3. KeyOfLine' /\ BestSoFar'
  BY DEF IInv, KeyOfLine, BestSoFar, LoadChunk
<1> QED  BY <1>2, <1>3 DEF IInv

LEMMA RateActionInv ==
  ASSUME IInv, RateAction
  PROVE  IInv'
<1>1. /\ tb \in Tables /\ hand = GetHandWithIperm(tb, IPerm)
      /\ k \in Masks /\ curBest \in Int \X Masks /\ IntMin \in Int
  BY Spans, QueryAssumption DEF IInv, TypeOK, KeyOfLine, RateAction, Masks
<1> DEFINE new == <<CurCost(k), k>>
<1>2. CurCost(k) \in Int /\ CurCost(k) >= IntMin  BY <1>1, CostIsInt
<1>3. \A m : CurCost(m)' = CurCost(m)  BY DEF RateAction, CurCost
<1>4. k \in Nat /\ k' = k + 1 /\ curBest' = IF Better(new, curBest) THEN new ELSE curBest
  BY <1>1 DEF RateAction, Masks
<1>5. new \in Int \X Masks /\ new[1] = CurCost(k) /\ new[2] = k  BY <1>1, <1>2
<1>6. curBest' \in Int \X Masks  BY <1>1, <1>4, <1>5
<1>7. k' \in 0..Span(2)  BY Spans, <1>4 DEF RateAction
<1>8. TypeOK'  BY <1>6, <1>7 DEF IInv, TypeOK, RateAction
<1>9. KeyOfLine'  BY DEF IInv, KeyOfLine, RateAction
<1> DEFINE Holds(best, n) == /\ best[1] = CurCost(best[2])
                             /\ \A m \in 0..n - 1 : CurCost(m) <= best[1]
<1>10. Holds(curBest', k + 1)
  <2>1. CASE k = 0
    <3>1. curBest[1] = IntMin /\ curBest[2] = 0
      BY <2>1 DEF IInv, BestSoFar, RateAction
    <3>2. Better(new, curBest)  BY <1>2, <1>5, <1>1, <2>1, <3>1 DEF Better
    <3>3. curBest' = new  BY <1>4, <3>2
    <3>4. \A m \in 0..(k + 1) - 1 : m = k  BY <2>1
    <3> QED  BY <1>2, <1>5, <3>3, <3>4
  <2>2. CASE k # 0
    <3>1. Holds(curBest, k)
      BY <2>2, <1>4 DEF IInv, BestSoFar, RateAction
    <3>2. \A m \in 0..k - 1 : CurCost(m) \in Int  BY <1>1, CostIsInt
    <3>3. curBest[1] \in Int /\ new[1] \in Int  BY <1>1, <1>5
    <3>4. \A m \in 0..(k + 1) - 1 : m \in 0..k - 1 \/ m = k  BY <1>4
    <3>5. CASE Better(new, curBest)
      <4>1. curBest' = new /\ curBest[1] <= new[1]
        BY <1>4, <3>3, <3>5 DEF Better
      <4>2. \A m \in 0..k - 1 : CurCost(m) <= new[1]
        BY <3>1, <3>2, <3>3, <4>1
      <4> QED  BY <1>2, <1>5, <3>4, <4>1, <4>2
    <3>6. CASE ~Better(new, curBest)
      <4>1. curBest' = curBest  BY <1>4, <3>6
      <4>2. CurCost(k) <= curBest[1]
        BY <1>1, <1>5, <3>3, <3>6 DEF Better
      <4> QED  BY <3>1, <3>4, <4>1, <4>2
    <3> QED  BY <3>5, <3>6
  <2> QED  BY <2>1, <2>2
<1>11. /\ curBest'[1] = CurCost(curBest'[2])
       /\ \A m \in 0..k' - 1 : CurCost(m) <= curBest'[1]
  BY <1>4, <1>10
<1>12. /\ curBest'[1] = CurCost(curBest[2])'
       /\ \A m \in 0..k' - 1 : CurCost(m)' <= curBest'[1]
  <2>1. CurCost(curBest[2])' = CurCost(curBest'[2])  BY DEF CurCost, RateAction
  <2> QED  BY <1>3, <1>11, <2>1
<1>13. BestSoFar'
  <2>1. pc' = "rate" /\ k' # 0  BY <1>4 DEF RateAction
  <2> QED  BY <1>12, <2>1 DEF BestSoFar
<1> QED  BY <1>8, <1>9, <1>13 DEF IInv

LEMMA AnswerInv ==
  ASSUME IInv, Answer
  PROVE  IInv'
<1>1. TypeOK' /\ KeyOfLine'
  BY DEF IInv, TypeOK, KeyOfLine, Answer
<1>2. k = Span(2) /\ k > 0
  BY Spans DEF IInv, TypeOK, Answer
<1>3. \A m : CurCost(m)' = CurCost(m)  BY DEF Answer, CurCost
<1>4. CurCost(curBest[2])' = CurCost(curBest[2])  BY DEF CurCost, Answer
<1>5. /\ curBest[1] = CurCost(curBest[2])
      /\ \A m \in 0..k - 1 : CurCost(m) <= curBest[1]
  BY <1>2 DEF IInv, BestSoFar, Answer
<1>6. BestSoFar'  BY <1>2, <1>3, <1>4, <1>5 DEF BestSoFar, Answer
<1> QED  BY <1>1, <1>6 DEF IInv

LEMMA NextLineInv ==
  ASSUME IInv, NextLine
  PROVE  IInv'
  BY DEF IInv, TypeOK, KeyOfLine, BestSoFar, NextLine

LEMMA StutterInv ==
  ASSUME IInv, UNCHANGED vars
  PROVE  IInv'
<1>1. TypeOK' /\ KeyOfLine'  BY DEF IInv, TypeOK, KeyOfLine, vars
<1>2. \A m : CurCost(m)' = CurCost(m)  BY DEF vars, CurCost
<1>3. CurCost(curBest[2])' = CurCost(curBest[2])  BY DEF CurCost, vars
<1>4. BestSoFar'  BY <1>2, <1>3 DEF IInv, BestSoFar, vars
<1> QED  BY <1>1, <1>4 DEF IInv

(* The inductive invariant of the oracle, for any number of cards,         *)
(* positions and deals.                                                    *)
THEOREM QueryInvariant == Spec => []IInv
<1>1. Init => IInv  BY InitInv
<1>2. IInv /\ [Next]_vars => IInv'
  <2> SUFFICES ASSUME IInv, [Next]_vars PROVE IInv'
    OBVIOUS
  <2>1. CASE ReadLine  BY <2>1, ReadLineInv
  <2>2. CASE LoadChunk  BY <2>2, LoadChunkInv
  <2>3. CASE RateAction  BY <2>3, RateActionInv
  <2>4. CASE Answer  BY <2>4, AnswerInv
  <2>5. CASE NextLine  BY <2>5, NextLineInv
  <2>6. CASE UNCHANGED vars  BY <2>6, StutterInv
  <2> QED  BY <2>1, <2>2, <2>3, <2>4, <2>5, <2>6 DEF Next
<1> QED  BY <1>1, <1>2, PTL DEF Spec

(* The variables of the oracle keep their types: a key is always one the   *)
(* index has a place for.                                                  *)
THEOREM TypeCorrect == Spec => []TypeOK
BY QueryInvariant, PTL DEF IInv

(* The two renamings and the two encodings cancel: what is rated is the    *)
(* hand that was read.                                                     *)
THEOREM HandIsRecovered == Spec => []HandRecovered
<1>1. IInv => HandRecovered
  <2>1. ASSUME IInv, pc \in {"load", "rate", "answer"}
        PROVE  HandForCostUnder(hand, Perm) = GetHandForCost(tb)
    <3>1. tb \in Tables /\ hand = GetHandWithIperm(tb, IPerm)
      BY <2>1, Spans DEF IInv, TypeOK, KeyOfLine
    <3> QED  BY <3>1, KeyRecovered
  <2> QED  BY <2>1 DEF HandRecovered
<1> QED  BY <1>1, QueryInvariant, PTL

(* No set of positions is worth more than the one that is printed.         *)
THEOREM AnswerIsAlwaysBest == Spec => []AnswerIsBest
<1>1. IInv => AnswerIsBest
  <2> SUFFICES ASSUME IInv, pc = "answer", NEW R \in SUBSET Positions
               PROVE  Worth(R) <= Worth(Printed)
    BY DEF AnswerIsBest
  <2>1. tb \in Tables /\ hand = GetHandWithIperm(tb, IPerm)
    BY Spans DEF IInv, TypeOK, KeyOfLine
  <2>2. k = Span(2) /\ k > 0  BY Spans DEF IInv, BestSoFar
  <2>3. PICK m \in Masks : Bits(m) = R  BY EveryMask DEF Bits
  <2>4. CurCost(m) <= CurCost(curBest[2])
    BY <2>2, <2>3 DEF IInv, BestSoFar, Masks
  <2>5. Bits(curBest[2]) = Printed  BY DEF Bits, Returned, Printed
  <2>6. Worth(R) = CurCost(m) /\ Worth(Printed) = CurCost(curBest[2])
    BY <2>1, <2>3, <2>5, CostIsWorth
  <2> QED  BY <2>4, <2>6
<1> QED  BY <1>1, QueryInvariant, PTL
==============================================================================
