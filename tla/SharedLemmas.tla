------------------------------ MODULE SharedLemmas -----------------------------
(* Facts about numbers, loops and the work queue that several proofs use.  *)
EXTENDS Integers, Sequences, WellFoundedInduction, TLAPS

(* A set of numbers with 0 and all successors has every natural number.    *)
LEMMA NatSets ==
  ASSUME NEW S, 0 \in S, \A n \in Nat : n \in S => n + 1 \in S
  PROVE  Nat \subseteq S
<1> DEFINE T == Nat \ S
           R == {ss \in Nat \X Nat : ss[1] < ss[2]}
<1>1. SUFFICES ASSUME T # {} PROVE FALSE
  OBVIOUS
<1>2. IsWellFoundedOn(R, Nat)
  BY NatLessThanWellFounded DEF OpToRel
<1>3. T \subseteq Nat  OBVIOUS
<1> HIDE DEF T
<1>4. PICK x \in T : \A y \in T : <<y, x>> \notin R
  <2> HIDE DEF R
  <2> QED  BY <1>1, <1>2, <1>3, WFMin
<1>5. x \in Nat /\ x # 0 /\ x \notin S
  BY <1>3 DEF T
<1>6. x - 1 \in Nat /\ <<x - 1, x>> \in R
  BY <1>5
<1>7. x - 1 \in S /\ (x - 1) + 1 = x
  BY <1>4, <1>5, <1>6 DEF T
<1> QED  BY <1>5, <1>6, <1>7

(* The same up to N. *)
LEMMA UpTo ==
  ASSUME NEW N \in Nat, NEW S, 0 \in S, \A i \in 1..N : i - 1 \in S => i \in S
  PROVE  0..N \subseteq S
<1> DEFINE T == {n \in Nat : n <= N => n \in S}
<1>1. 0 \in T  OBVIOUS
<1>2. ASSUME NEW n \in Nat, n \in T PROVE n + 1 \in T
  <2>1. CASE n + 1 <= N
    <3>1. n \in S /\ n + 1 \in 1..N /\ (n + 1) - 1 = n  BY <1>2, <2>1
    <3>2. n + 1 \in S  BY <3>1
    <3> QED  BY <3>2
  <2>2. CASE ~(n + 1 <= N)  BY <2>2
  <2> QED  BY <2>1, <2>2
<1> HIDE DEF T
<1>3. Nat \subseteq T  BY <1>1, <1>2, NatSets
<1> QED  BY <1>3 DEF T

(* The values of a loop of N rounds that starts with a and makes G[i][x]   *)
(* of x in round i.  There are some.                                       *)
Runs(N, X, a, G) ==
  {f \in [0..N -> X] : f[0] = a /\ \A i \in 1..N : f[i] = G[i][f[i - 1]]}

LEMMA LoopExists ==
  ASSUME NEW N \in Nat, NEW X, NEW a \in X, NEW G \in [1..N -> [X -> X]]
  PROVE  Runs(N, X, a, G) # {}
<1> DEFINE R(n) == {f \in [0..n -> X] :
                      f[0] = a /\ \A i \in 1..n : f[i] = G[i][f[i - 1]]}
           S == {n \in 0..N : R(n) # {}}
<1>1. 0 \in S
  <2>1. [i \in 0..0 |-> a] \in R(0)  OBVIOUS
  <2> QED  BY <2>1
<1>2. ASSUME NEW n \in 1..N, n - 1 \in S PROVE n \in S
  <2>1. PICK f : f \in R(n - 1)  BY <1>2
  <2> DEFINE g == [i \in 0..n |-> IF i = n THEN G[n][f[n - 1]] ELSE f[i]]
  <2>2. f[n - 1] \in X /\ f \in [0..n - 1 -> X]  BY <2>1
  <2>3. G[n][f[n - 1]] \in X  BY <2>2
  <2>4. g \in [0..n -> X]  BY <2>2, <2>3
  <2>5. g[0] = a  BY <2>1
  <2>6. ASSUME NEW i \in 1..n PROVE g[i] = G[i][g[i - 1]]
    <3>1. i - 1 \in 0..n /\ i - 1 # n /\ g[i - 1] = f[i - 1]  OBVIOUS
    <3>2. CASE i = n  BY <3>1, <3>2
    <3>3. CASE i # n
      <4>1. i \in 1..n - 1 /\ g[i] = f[i]  BY <3>3
      <4> QED  BY <2>1, <3>1, <4>1
    <3> QED  BY <3>2, <3>3
  <2>7. g \in R(n)  BY <2>4, <2>5, <2>6
  <2> HIDE DEF R
  <2> QED  BY <2>7
<1> HIDE DEF S
<1>3. 0..N \subseteq S  BY <1>1, <1>2, UpTo
<1>4. N \in S  BY <1>3
<1>5. R(N) # {}  BY <1>4 DEF S
<1> QED  BY <1>5 DEF Runs

(* The values of a loop stay in a set that each round stays in. *)
LEMMA LoopValues ==
  ASSUME NEW N \in Nat, NEW X, NEW g,
         g = [i \in 0..N |-> g[i]], g[0] \in X,
         \A i \in 1..N : g[i - 1] \in X => g[i] \in X
  PROVE  g \in [0..N -> X]
<1> DEFINE S == {i \in 0..N : g[i] \in X}
<1>1. 0 \in S  OBVIOUS
<1>2. \A i \in 1..N : i - 1 \in S => i \in S  OBVIOUS
<1> HIDE DEF S
<1>3. 0..N \subseteq S  BY <1>1, <1>2, UpTo
<1> QED  BY <1>3 DEF S

(* Division with remainder. *)
LEMMA DivMod ==
  ASSUME NEW n \in Int, NEW d \in Nat \ {0}
  PROVE  /\ n \div d \in Int
         /\ n % d \in 0..d - 1
         /\ n = d * (n \div d) + (n % d)
  BY SMT

(* A step of one multiple is at least d. *)
LEMMA MultipleStep ==
  ASSUME NEW a \in Int, NEW b \in Int, NEW d \in Nat \ {0}, a < b
  PROVE  a * d + d <= b * d
<1> DEFINE e == b - a - 1
<1>1. e \in Nat  OBVIOUS
<1>2. e * d \in Nat  BY <1>1
<1>3. b * d = a * d + d + e * d  BY <1>1
<1> QED  BY <1>2, <1>3

(* Multiples that differ by less than d are ordered like their factors. *)
LEMMA MultipleOrder ==
  ASSUME NEW a \in Int, NEW b \in Int, NEW d \in Nat \ {0}, a * d < b * d + d
  PROVE  a <= b
<1>1. ASSUME b < a PROVE FALSE
  <2>1. b * d + d <= a * d  BY <1>1, MultipleStep
  <2>2. a * d \in Int /\ b * d \in Int  OBVIOUS
  <2> QED  BY <2>1, <2>2
<1> QED  BY <1>1

(* Quotient and remainder are unique. *)
LEMMA DivUnique ==
  ASSUME NEW d \in Nat \ {0}, NEW k \in Int, NEW r \in 0..d - 1
  PROVE  (k * d + r) \div d = k /\ (k * d + r) % d = r
<1> DEFINE n == k * d + r
           m == n \div d
<1>1. n \in Int /\ k * d \in Int  OBVIOUS
<1>2. m \in Int /\ n % d \in 0..d - 1 /\ n = d * m + (n % d)
  BY <1>1, DivMod
<1> HIDE DEF m
<1>3. m * d = d * m /\ m * d \in Int  BY <1>2
<1>4. m <= k
  <2>1. m * d < k * d + d  BY <1>1, <1>2, <1>3
  <2> QED  BY <1>2, <2>1, MultipleOrder
<1>5. k <= m
  <2>1. k * d < m * d + d  BY <1>1, <1>2, <1>3
  <2> QED  BY <1>2, <2>1, MultipleOrder
<1>6. m = k  BY <1>2, <1>4, <1>5
<1> QED  BY <1>1, <1>2, <1>6 DEF m

(* The multiple of d after x is the next one, so it is at most y.          *)
LEMMA NextMultiple ==
  ASSUME NEW d \in Nat \ {0}, NEW x \in Nat, NEW y \in Nat,
         x % d = 0, y % d = 0, x <= y, x # y
  PROVE  x + d <= y /\ (x + d) % d = 0
<1> DEFINE a == x \div d
           b == y \div d
<1>1. a \in Int /\ x = d * a  BY DivMod
<1>2. b \in Int /\ y = d * b  BY DivMod
<1> HIDE DEF a, b
<1>3. a * d = x /\ b * d = y  BY <1>1, <1>2
<1>4. a <= b  BY <1>1, <1>2, <1>3, MultipleOrder
<1>5. a < b  BY <1>1, <1>2, <1>4
<1>6. x + d <= y  BY <1>1, <1>2, <1>3, <1>5, MultipleStep
<1>7. x + d = (a + 1) * d + 0 /\ a + 1 \in Int /\ 0 \in 0..d - 1
  BY <1>1
<1>8. ((a + 1) * d + 0) % d = 0  BY <1>7, DivUnique
<1> QED  BY <1>6, <1>7, <1>8

OccursIn(c, s) == \E a \in 1..Len(s) : s[a] = c
NoRepeat(s) == \A a, b \in 1..Len(s) : s[a] = s[b] => a = b

(* Queue::get takes the front: the others stay, in their order. *)
LEMMA QueuePop ==
  ASSUME NEW S, NEW s \in Seq(S), s # <<>>, NoRepeat(s)
  PROVE  /\ Head(s) \in S /\ Tail(s) \in Seq(S)
         /\ OccursIn(Head(s), s)
         /\ \A c : OccursIn(c, Tail(s)) <=> OccursIn(c, s) /\ c # Head(s)
         /\ NoRepeat(Tail(s))
<1>1. /\ Len(s) \in Nat /\ 1 \in 1..Len(s) /\ Head(s) = s[1]
      /\ Tail(s) \in Seq(S) /\ Len(Tail(s)) = Len(s) - 1
      /\ \A a \in 1..Len(Tail(s)) : a + 1 \in 1..Len(s) /\ Tail(s)[a] = s[a + 1]
  OBVIOUS
<1>2. NoRepeat(Tail(s))  BY <1>1 DEF NoRepeat
<1>3. ASSUME NEW c
      PROVE  OccursIn(c, Tail(s)) <=> OccursIn(c, s) /\ c # Head(s)
  <2>1. ASSUME NEW a \in 1..Len(Tail(s)), Tail(s)[a] = c
        PROVE  (\E b \in 1..Len(s) : s[b] = c) /\ c # Head(s)
    <3>1. a + 1 \in 1..Len(s) /\ s[a + 1] = c /\ a + 1 # 1  BY <1>1, <2>1
    <3> QED  BY <1>1, <3>1 DEF NoRepeat
  <2>2. ASSUME NEW a \in 1..Len(s), s[a] = c, c # Head(s)
        PROVE  \E b \in 1..Len(Tail(s)) : Tail(s)[b] = c
    <3>1. a # 1 /\ a - 1 \in 1..Len(Tail(s))  BY <1>1, <2>2
    <3>2. Tail(s)[a - 1] = c  BY <1>1, <2>2, <3>1
    <3> QED  BY <3>1, <3>2
  <2> QED  BY <2>1, <2>2 DEF OccursIn
<1>4. OccursIn(Head(s), s)  BY <1>1 DEF OccursIn
<1> QED  BY <1>1, <1>2, <1>3, <1>4

(* A queue filled with FOR(i, low, high) holds each of these numbers once. *)
LEMMA QueueFill ==
  ASSUME NEW low \in Int, NEW len \in Nat,
         NEW t \in [1..len -> Int], \A i \in 1..len : t[i] = low + i - 1
  PROVE  /\ <<>> \o t = t
         /\ t \in Seq(low..low + len - 1)
         /\ Len(t) = len
         /\ NoRepeat(t)
         /\ \A c : OccursIn(c, t) <=> c \in low..low + len - 1
<1>1. \A i \in 1..len : t[i] = low + i - 1 /\ t[i] \in low..low + len - 1
  OBVIOUS
<1>2. t \in Seq(low..low + len - 1) /\ Len(t) = len
  <2>1. t \in [1..len -> low..low + len - 1]  BY <1>1
  <2> QED  BY <2>1
<1>3. <<>> \o t = t  BY <1>2
<1>4. \A c \in low..low + len - 1 : c - low + 1 \in 1..len /\ t[c - low + 1] = c
  OBVIOUS
<1>5. NoRepeat(t)  BY <1>2, <1>1 DEF NoRepeat
<1>6. \A c : OccursIn(c, t) <=> c \in low..low + len - 1
  BY <1>2, <1>4, <1>1 DEF OccursIn
<1> QED  BY <1>2, <1>3, <1>5, <1>6

(* What is appended comes after what was there. *)
LEMMA Concat ==
  ASSUME NEW S, NEW s \in Seq(S), NEW t \in Seq(S)
  PROVE  /\ s \o t \in Seq(S)
         /\ Len(s \o t) = Len(s) + Len(t)
         /\ \A k \in 1..Len(s) + Len(t) :
              (s \o t)[k] = IF k <= Len(s) THEN s[k] ELSE t[k - Len(s)]
<1>1. s \o t \in Seq(S)  OBVIOUS
<1>2. Len(s \o t) = Len(s) + Len(t)  OBVIOUS
<1>3. ASSUME NEW k \in 1..Len(s) + Len(t)
      PROVE  (s \o t)[k] = IF k <= Len(s) THEN s[k] ELSE t[k - Len(s)]
  OBVIOUS
<1> QED  BY <1>1, <1>2, <1>3
==============================================================================
