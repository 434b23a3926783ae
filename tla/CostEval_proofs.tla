--------------------------- MODULE CostEval_proofs ---------------------------
(***************************************************************************)
(* For any number of workers, chunks, ranges and orders: a chunk is in     *)
(* memory while it is read, memory holds only the range, and the cost of   *)
(* an order is the sum over exactly the chunks of the range.  At the end,  *)
(* the proofs about PermSearch, the search this evaluation is a step of.   *)
(***************************************************************************)
EXTENDS CostEval, PermSearch, SharedLemmas, SequenceTheorems

(* The queue main fills holds each chunk of the range once. *)
LEMMA RangeQueueFacts ==
  ASSUME NEW low \in Nat, NEW high \in 0..TotChunks
  PROVE  LET s == <<>> \o RangeQueue(low, high)
         IN  /\ s \in Seq(Chunks)
             /\ \A a, b \in 1..Len(s) : s[a] = s[b] => a = b
             /\ \A c : (\E a \in 1..Len(s) : s[a] = c)
                         <=> c \in Chunks /\ low <= c /\ c < high
<1> DEFINE len == IF low < high THEN high - low ELSE 0
           t == RangeQueue(low, high)
<1>1. /\ len \in Nat /\ low \in Int
      /\ low..low + len - 1 = {c \in Chunks : low <= c /\ c < high}
  BY EvalAssumption DEF Chunks
<1>2. t \in [1..len -> Int] /\ \A i \in 1..len : t[i] = low + i - 1
  BY <1>1 DEF RangeQueue
<1> HIDE DEF len, t
<1>3. /\ <<>> \o t = t
      /\ t \in Seq(low..low + len - 1)
      /\ NoRepeat(t)
      /\ \A c : OccursIn(c, t) <=> c \in low..low + len - 1
  BY <1>1, <1>2, QueueFill
<1>4. t \in Seq(Chunks)
  <2> DEFINE D == low..low + len - 1
  <2>1. t \in Seq(D) /\ D \subseteq Chunks  BY <1>1, <1>3
  <2> HIDE DEF D
  <2>2. Len(t) \in Nat /\ t \in [1..Len(t) -> Chunks]  BY ONLY <2>1
  <2> QED  BY ONLY <2>2
<1>5. /\ \A a, b \in 1..Len(t) : t[a] = t[b] => a = b
      /\ \A c : (\E a \in 1..Len(t) : t[a] = c)
                  <=> c \in Chunks /\ low <= c /\ c < high
  BY <1>1, <1>3 DEF NoRepeat, OccursIn
<1> QED  BY ONLY <1>3, <1>4, <1>5 DEF t

(* A range starts with all its chunks in the queue and none held. *)
LEMMA StartFacts ==
  ASSUME low_range' \in Nat, high_range' \in 0..TotChunks, q = <<>>,
         StartWorkers(low_range', high_range'), TypeOK, Workers' = Workers
  PROVE  /\ Work'
         /\ q' \in Seq(Chunks)
         /\ pc' \in [Workers -> {"joined", "get", "chunk", "rate"}]
         /\ count' \in [Workers -> Totals]
         /\ \A c \in InRange' : Queued(c)'
<1> DEFINE s == <<>> \o RangeQueue(low_range', high_range')
<1>1. /\ q' = s /\ pc' = [w \in Workers |-> "get"]
      /\ count' = [w \in Workers |-> Zero]
  BY DEF StartWorkers
<1>2. /\ s \in Seq(Chunks)
      /\ \A a, b \in 1..Len(s) : s[a] = s[b] => a = b
      /\ \A c : (\E a \in 1..Len(s) : s[a] = c)
                  <=> c \in Chunks /\ low_range' <= c /\ c < high_range'
  BY RangeQueueFacts
<1> HIDE DEF s
<1>3. InRange' = {c \in Chunks : low_range' <= c /\ c < high_range'}
  BY DEF InRange
<1>4. \A a \in 1..Len(q') : q'[a] \in InRange'
  BY <1>1, <1>2, <1>3
<1>5. \A w \in Workers : pc'[w] = "get"
  BY <1>1
<1>6. Work'
  BY <1>1, <1>2, <1>4, <1>5 DEF Work, Holding
<1>7. \A c \in InRange' : Queued(c)'
  BY <1>1, <1>2, <1>3 DEF Queued
<1>8. Zero \in Totals
  BY DEF Zero, Totals
<1> QED  BY <1>1, <1>2, <1>6, <1>7, <1>8

(* When all workers of a phase are joined, no chunk is open. *)
LEMMA JoinFacts ==
  ASSUME IInv, Running, AllJoined
  PROVE  /\ q = <<>>
         /\ \A c \in Chunks : ~Queued(c) /\ ~Open(c)
         /\ \A w \in Workers : ~Holding(w)
<1>1. q = <<>>
  BY EvalAssumption DEF IInv, Work, AllJoined
<1>2. \A w \in Workers : ~Holding(w)
  BY DEF AllJoined, Holding
<1> QED  BY <1>1, <1>2 DEF Open, Queued, Held

LEMMA TotalsPlus ==
  ASSUME NEW t \in Totals, NEW d
  PROVE  Plus(t, One(d)) \in Totals
<1>1. \A c \in Chunks : t[c] \in Nat /\ One(d)[c] \in Nat
  BY DEF Totals, One
<1> QED  BY <1>1 DEF Plus, Totals

LEMMA InitInv ==
  ASSUME Init
  PROVE  IInv
<1>1. Zero \in Totals  BY DEF Zero, Totals
<1>2. TypeOK
  BY <1>1, EvalAssumption DEF Init, TypeOK
<1>3. Idle /\ loaded \subseteq InRange  BY DEF Init, Idle, AllJoined
<1> QED
  BY <1>2, <1>3, EvalAssumption DEF Init, IInv, Running, CostExact

------------------------------------------------------------------------------
LEMMA LoadQueryInv ==
  ASSUME IInv, LoadQuery
  PROVE  IInv'
<1> USE DEF LoadQuery
<1>1. /\ Idle /\ q = <<>> /\ loaded = {} /\ k \in Nat /\ k < NSep
  BY EvalAssumption DEF IInv, TypeOK, Idle
<1>2. active_range \in Nat
  <2>1. TotChunks + NSep - 1 \in Nat  BY EvalAssumption
  <2> QED  BY <2>1, EvalAssumption DEF active_range
<1>3. low_range' \in Nat
  BY <1>1, <1>2
<1>4. high_range' \in 0..TotChunks
  <2>1. active_range * (k + 1) \in Nat  BY <1>1, <1>2
  <2> QED  BY <2>1, EvalAssumption DEF Least
<1>5. /\ Work' /\ q' \in Seq(Chunks) /\ count' \in [Workers -> Totals]
      /\ pc' \in [Workers -> {"joined", "get", "chunk", "rate"}]
      /\ \A c \in InRange' : Queued(c)'
  BY <1>1, <1>3, <1>4, StartFacts DEF IInv
<1>6. TypeOK'
  <2>1. Zero \in Totals  BY DEF Zero, Totals
  <2> QED
    BY <1>3, <1>4, <1>5, <2>1 DEF IInv, TypeOK, StartWorkers
<1>7. \A c \in InRange' : c \in loaded' <=> ~Open(c)'
  BY <1>1, <1>5 DEF Open
<1> QED  BY <1>1, <1>5, <1>6, <1>7 DEF IInv, CostExact

LEMMA DoCostEvalInv ==
  ASSUME IInv, DoCostEval
  PROVE  IInv'
<1> USE DEF DoCostEval
<1>1. /\ q = <<>> /\ \A c \in Chunks : ~Open(c)
      /\ low_range' = low_range /\ high_range' = high_range
      /\ low_range' \in Nat /\ high_range' \in 0..TotChunks
      /\ InRange' = InRange /\ InRange \subseteq Chunks
  BY JoinFacts DEF IInv, TypeOK, Running, InRange
<1>2. /\ Work' /\ q' \in Seq(Chunks) /\ count' \in [Workers -> Totals]
      /\ pc' \in [Workers -> {"joined", "get", "chunk", "rate"}]
      /\ \A c \in InRange' : Queued(c)'
  BY <1>1, StartFacts DEF IInv
<1>3. TypeOK'
  BY <1>2 DEF IInv, TypeOK, StartWorkers
<1>4. loaded' = InRange' /\ loaded' \subseteq InRange'
  BY <1>1 DEF IInv
<1>5. ASSUME NEW p \in Perms, NEW c \in Chunks
      PROVE  cur_cost'[p][c] = 0 /\ ~Done(p, c)'
  <2>1. cur_cost'[p][c] = 0  BY <1>5 DEF IInv, Zero
  <2> QED  BY <1>2, <2>1 DEF Done
<1> QED  BY <1>1, <1>2, <1>3, <1>4, <1>5 DEF IInv, CostExact

LEMMA UnloadQueryInv ==
  ASSUME IInv, UnloadQuery
  PROVE  IInv'
<1> USE DEF UnloadQuery
<1>1. /\ q = <<>> /\ \A c \in Chunks : ~Queued(c)
      /\ \A w \in Workers : ~Holding(w)
      /\ low_range' = low_range /\ high_range' = high_range
      /\ low_range' \in Nat /\ high_range' \in 0..TotChunks
      /\ InRange' = InRange /\ InRange \subseteq Chunks
  BY JoinFacts DEF IInv, TypeOK, Running, InRange
<1>2. /\ Work' /\ q' \in Seq(Chunks) /\ count' \in [Workers -> Totals]
      /\ pc' \in [Workers -> {"joined", "get", "chunk", "rate"}]
      /\ \A c \in InRange' : Queued(c)'
  BY <1>1, StartFacts DEF IInv
<1>3. TypeOK'
  BY <1>2 DEF IInv, TypeOK, StartWorkers
<1>4. loaded' = InRange' /\ \A c \in InRange' : Open(c)'
  BY <1>1, <1>2 DEF IInv, Open
<1>5. ASSUME NEW p \in Perms
      PROVE  cur_cost'[p] = OnceInRange'
  <2>1. cur_cost[p] \in [Chunks -> Nat]  BY DEF IInv, TypeOK, Totals
  <2>2. ASSUME NEW c \in Chunks
        PROVE  cur_cost[p][c] = IF c \in InRange THEN 1 ELSE 0
    <3>1. Done(p, c) <=> c \in InRange
      BY <1>1 DEF Done, Held
    <3> QED  BY <3>1 DEF IInv
  <2> QED  BY <1>1, <2>1, <2>2 DEF OnceInRange
<1> QED  BY <1>1, <1>2, <1>3, <1>4, <1>5 DEF IInv, CostExact

LEMMA NextSepInv ==
  ASSUME IInv, NextSep
  PROVE  IInv'
<1> USE DEF NextSep
<1>1. /\ q = <<>> /\ \A c \in Chunks : ~Open(c)
      /\ k \in 0..NSep /\ k < NSep /\ InRange \subseteq Chunks
      /\ InRange' = InRange /\ OnceInRange' = OnceInRange
  BY JoinFacts DEF IInv, TypeOK, Running, InRange, OnceInRange
<1>2. TypeOK'
  BY <1>1, EvalAssumption DEF IInv, TypeOK, worker
<1>3. loaded = {}
  BY <1>1 DEF IInv
<1>4. Idle'
  BY <1>1, <1>3 DEF Idle, AllJoined, worker
<1>5. CostExact'
  BY <1>1 DEF IInv, CostExact
<1>6. k' < NSep \/ phase' = "end"
  BY <1>1
<1> QED  BY <1>1, <1>2, <1>3, <1>4, <1>5, <1>6 DEF IInv, Running

------------------------------------------------------------------------------
(* A worker takes a chunk: it stays open. *)
LEMMA TakeInv ==
  ASSUME IInv, NEW w \in Workers, Take(w)
  PROVE  IInv'
<1>0. q' = Tail(q) /\ item' = [item EXCEPT ![w] = Head(q)]  BY DEF Take
<1>1. /\ Work /\ q \in Seq(Chunks) /\ q # <<>> /\ ~Holding(w)
      /\ NoRepeat(q)
  BY DEF IInv, TypeOK, Work, Holding, NoRepeat, Take
<1> DEFINE h == Head(q)
<1>2. /\ h \in Chunks /\ q' \in Seq(Chunks)
      /\ OccursIn(h, q)
      /\ \A c : OccursIn(c, q') <=> OccursIn(c, q) /\ c # h
      /\ NoRepeat(q')
  BY <1>0, <1>1, QueuePop
<1> USE DEF Take
<1>3. item' = [item EXCEPT ![w] = h]  BY <1>0
<1> HIDE DEF h
<1>4. /\ \A c : Queued(c)' <=> Queued(c) /\ c # h
      /\ Queued(h) /\ h \in InRange
  <2>1. \A c : Queued(c)' <=> OccursIn(c, q')  BY ONLY DEF Queued, OccursIn
  <2>2. \A c : Queued(c) <=> OccursIn(c, q)  BY ONLY DEF Queued, OccursIn
  <2>3. h \in InRange  BY ONLY <1>1, <1>2 DEF OccursIn, Work
  <2> QED  BY ONLY <1>2, <2>1, <2>2, <2>3
<1>5. InRange' = InRange  BY DEF InRange
<1>6. TypeOK'
  <2>1. h \in Nat  BY <1>2 DEF Chunks
  <2>2. item' \in [Workers -> Nat]  BY <1>3, <2>1 DEF IInv, TypeOK
  <2>3. /\ pc' \in [Workers -> {"joined", "get", "chunk", "rate"}]
        /\ phase' \in {"sep", "load", "eval", "unload", "end", "crashed"}
    BY DEF IInv, TypeOK
  <2> QED  BY <1>2, <2>2, <2>3 DEF IInv, TypeOK
<1>7. CASE InfoPeriod = 0
  BY <1>5, <1>6, <1>7 DEF IInv, Running, CostExact
<1>8. CASE InfoPeriod # 0
  <2>1. /\ phase' = phase /\ pc' = [pc EXCEPT ![w] = "chunk"]
        /\ item'[w] = h /\ pc'[w] = "chunk"
        /\ \A v \in Workers : v # w => item'[v] = item[v] /\ pc'[v] = pc[v]
    BY <1>3, <1>8 DEF IInv, TypeOK
  <2>2. ASSUME NEW v \in Workers
        PROVE  /\ Holding(v)' <=> Holding(v) \/ v = w
               /\ v # w => Holding(v)' = Holding(v)
               /\ Holding(v) => item[v] # h /\ ~Queued(item[v]) /\ item[v] \in InRange
    BY <1>1, <1>4, <2>1 DEF Holding, Work
  <2>3. Work'
    <3>1. \A a \in 1..Len(q') : q'[a] \in InRange'
      <4> SUFFICES ASSUME NEW a \in 1..Len(q')
                   PROVE  q'[a] \in InRange
        BY <1>5
      <4>1. \E b \in 1..Len(q) : q[b] = q'[a]  BY <1>2 DEF OccursIn
      <4> QED  BY <1>1, <4>1 DEF Work
    <3>2. ASSUME NEW v \in Workers, Holding(v)'
          PROVE  item'[v] \in InRange' /\ ~Queued(item[v])'
      <4>1. CASE v = w
        <5>1. item'[v] = h  BY <2>1, <4>1
        <5>2. \A a \in 1..Len(q') : q'[a] # h  BY <1>4 DEF Queued
        <5> QED  BY ONLY <1>4, <1>5, <5>1, <5>2 DEF Queued
      <4>2. CASE v # w
        <5>1. item'[v] = item[v] /\ item[v] \in InRange /\ ~Queued(item[v])
          BY <2>1, <2>2, <3>2, <4>2
        <5>2. \A a \in 1..Len(q') : q'[a] # item[v]  BY <1>4, <5>1 DEF Queued
        <5> QED  BY ONLY <1>5, <5>1, <5>2 DEF Queued
      <4> QED  BY <4>1, <4>2
    <3>3. ASSUME NEW u \in Workers, NEW v \in Workers,
                 Holding(u)', Holding(v)', item'[u] = item'[v]
          PROVE  u = v
      BY <1>1, <2>1, <2>2, <3>3 DEF Work
    <3>4. ASSUME NEW v \in Workers
          PROVE  /\ pc'[v] = "rate" => phase' = "eval"
                 /\ pc'[v] = "joined" => q' = <<>>
      BY <1>1, <2>1 DEF Work
    <3> QED  BY <1>2, <3>1, <3>2, <3>3, <3>4 DEF Work, NoRepeat
  <2>4. ASSUME NEW c \in Chunks
        PROVE  Open(c)' <=> Open(c)
    <3>1. ASSUME NEW v \in Workers, v # w
          PROVE  Held(v, c)' <=> Held(v, c)
      BY <2>1, <3>1 DEF Held, Holding
    <3>2. (Held(w, c)' <=> c = h) /\ ~Held(w, c)
      BY <1>1, <2>1 DEF Held, Holding
    <3> QED  BY <1>4, <3>1, <3>2 DEF Open
  <2>5. ASSUME NEW p \in Perms, NEW c \in Chunks
        PROVE  Done(p, c)' <=> Done(p, c)
    <3>1. ASSUME NEW v \in Workers, v # w
          PROVE  /\ Held(v, c)' <=> Held(v, c)
                 /\ pc'[v] = pc[v] /\ j'[v] = j[v]
      BY <2>1, <3>1 DEF Held, Holding
    <3>2. (Held(w, c)' <=> c = h) /\ ~Held(w, c) /\ pc'[w] # "rate"
      BY <1>1, <2>1 DEF Held, Holding
    <3> QED  BY <1>4, <1>5, <3>1, <3>2 DEF Done
  <2>6. InRange \subseteq Chunks  BY DEF InRange
  <2>7. CostExact'
    BY <1>5, <2>1 DEF IInv, CostExact, OnceInRange
  <2>8. phase = "load" => \A c \in InRange' : c \in loaded' <=> ~Open(c)'
    BY <1>5, <2>4, <2>6 DEF IInv
  <2>9. phase = "unload" => \A c \in InRange' : c \in loaded' <=> Open(c)'
    BY <1>5, <2>4, <2>6 DEF IInv
  <2>10. phase = "eval" =>
           \A p \in Perms, c \in Chunks : cur_cost'[p][c] = IF Done(p, c)' THEN 1 ELSE 0
    BY <2>5 DEF IInv
  <2> QED
    BY <1>5, <1>6, <2>1, <2>3, <2>7, <2>8, <2>9, <2>10 DEF IInv, Running
<1> QED  BY <1>7, <1>8

(* What a step of a worker on its chunk leaves alone. *)
LEMMA ChunkStep ==
  ASSUME IInv, NEW w \in Workers, Running, phase' = phase, q' = q,
         item' = item, low_range' = low_range, high_range' = high_range,
         Holding(w), NEW x \in {"get", "rate"}, pc' = [pc EXCEPT ![w] = x],
         x = "rate" => phase = "eval"
  PROVE  /\ Work'
         /\ item[w] \in InRange /\ item[w] \in Chunks /\ ~Queued(item[w])
         /\ InRange' = InRange /\ InRange \subseteq Chunks
         /\ pc'[w] = x /\ pc[w] # "get"
         /\ \A c \in Chunks : Queued(c)' <=> Queued(c)
         /\ \A c \in Chunks : Held(w, c) <=> c = item[w]
         /\ \A c \in Chunks : Held(w, c)' <=> c = item[w] /\ x = "rate"
         /\ \A v \in Workers, c \in Chunks : v # w =>
              /\ Held(v, c)' <=> Held(v, c)
              /\ Held(v, c) => c # item[w]
              /\ pc'[v] = pc[v]
<1>1. Work /\ pc \in [Workers -> {"joined", "get", "chunk", "rate"}]
  BY DEF IInv, TypeOK
<1>2. InRange' = InRange /\ InRange \subseteq Chunks  BY DEF InRange
<1>3. item[w] \in InRange /\ ~Queued(item[w])  BY <1>1 DEF Work
<1>4. pc'[w] = x /\ \A v \in Workers : v # w => pc'[v] = pc[v]  BY <1>1
<1>5. \A v \in Workers : Holding(v)' => Holding(v)  BY <1>4 DEF Holding
<1>6. Work'
  BY <1>1, <1>2, <1>4, <1>5 DEF Work, Queued
<1>7. \A c \in Chunks : Queued(c)' <=> Queued(c)  BY DEF Queued
<1>8. \A c \in Chunks : Held(w, c) <=> c = item[w]  BY DEF Held
<1>9. \A c \in Chunks : Held(w, c)' <=> c = item[w] /\ x = "rate"
  BY <1>4 DEF Held, Holding
<1>10. ASSUME NEW v \in Workers, NEW c \in Chunks, v # w
       PROVE  /\ Held(v, c)' <=> Held(v, c)
              /\ Held(v, c) => c # item[w]
              /\ pc'[v] = pc[v]
  BY <1>1, <1>4, <1>10 DEF Held, Holding, Work
<1>11. pc[w] # "get"  BY DEF Holding
<1> QED  BY <1>2, <1>3, <1>4, <1>6, <1>7, <1>8, <1>9, <1>10, <1>11

LEMMA LoadInv ==
  ASSUME IInv, NEW w \in Workers, Load(w)
  PROVE  IInv'
<1> USE DEF Load
<1>1. Holding(w) /\ Running  BY DEF Holding, Running
<1>2. /\ Work' /\ item[w] \in InRange /\ item[w] \in Chunks /\ ~Queued(item[w])
      /\ InRange' = InRange /\ InRange \subseteq Chunks
      /\ \A c \in Chunks : Queued(c)' <=> Queued(c)
      /\ \A c \in Chunks : Held(w, c) <=> c = item[w]
      /\ \A c \in Chunks : ~Held(w, c)'
      /\ \A v \in Workers, c \in Chunks : v # w =>
           (Held(v, c)' <=> Held(v, c)) /\ (Held(v, c) => c # item[w])
  BY <1>1, ChunkStep
<1>3. TypeOK'
  <2>1. count' \in [Workers -> Totals]
    BY TotalsPlus DEF IInv, TypeOK
  <2> QED  BY <1>2, <2>1 DEF IInv, TypeOK
<1>4. ASSUME NEW c \in InRange
      PROVE  c \in loaded' <=> ~Open(c)'
  <2>1. Open(c)' <=> Open(c) /\ c # item[w]
    BY <1>2 DEF Open
  <2>2. c \in loaded <=> ~Open(c)  BY DEF IInv
  <2> QED  BY <2>1, <2>2
<1> QED  BY <1>1, <1>2, <1>3, <1>4 DEF IInv, Running, CostExact

LEMMA CountInv ==
  ASSUME IInv, NEW w \in Workers, Count(w)
  PROVE  IInv'
<1> USE DEF Count
<1>1. Holding(w) /\ Running  BY DEF Holding, Running
<1>2. /\ Work' /\ InRange' = InRange /\ pc'[w] = "rate"
      /\ \A c \in Chunks : Queued(c)' <=> Queued(c)
      /\ \A c \in Chunks : Held(w, c) <=> c = item[w]
      /\ \A c \in Chunks : Held(w, c)' <=> c = item[w]
      /\ \A v \in Workers, c \in Chunks : v # w =>
           (Held(v, c)' <=> Held(v, c)) /\ pc'[v] = pc[v]
  BY <1>1, ChunkStep
<1>3. TypeOK'
  <2>1. count' \in [Workers -> Totals]
    BY TotalsPlus DEF IInv, TypeOK
  <2> QED  BY <2>1 DEF IInv, TypeOK
<1>4. j'[w] = 0 /\ \A v \in Workers : v # w => j'[v] = j[v]
  BY DEF IInv, TypeOK
<1>5. ASSUME NEW p \in Perms, NEW c \in Chunks
      PROVE  Done(p, c)' <=> Done(p, c)
  <2>1. ~(p < 0)  BY EvalAssumption DEF Perms
  <2> QED  BY <1>2, <1>4, <2>1 DEF Done
<1> QED  BY <1>1, <1>2, <1>3, <1>5 DEF IInv, Running, CostExact

LEMMA UpdateCostInv ==
  ASSUME IInv, NEW w \in Workers, UpdateCost(w)
  PROVE  IInv'
<1> USE DEF UpdateCost
<1>1. Holding(w) /\ Running  BY DEF Holding, Running
<1>2. pc' = [pc EXCEPT ![w] = "rate"]  BY DEF IInv, TypeOK
<1>3. /\ Work' /\ InRange' = InRange /\ pc'[w] = "rate"
      /\ item[w] \in InRange /\ item[w] \in Chunks /\ ~Queued(item[w])
      /\ \A c \in Chunks : Queued(c)' <=> Queued(c)
      /\ \A c \in Chunks : Held(w, c) <=> c = item[w]
      /\ \A c \in Chunks : Held(w, c)' <=> c = item[w]
      /\ \A v \in Workers, c \in Chunks : v # w =>
           /\ Held(v, c)' <=> Held(v, c)
           /\ Held(v, c) => c # item[w]
           /\ pc'[v] = pc[v]
  BY <1>1, <1>2, ChunkStep
<1>4. /\ j[w] \in Nat /\ j[w] \in Perms /\ j'[w] = j[w] + 1
      /\ \A v \in Workers : v # w => j'[v] = j[v]
  BY EvalAssumption DEF IInv, TypeOK, Perms
<1>5. cur_cost' = [cur_cost EXCEPT ![j[w]] = Plus(cur_cost[j[w]], One(item[w]))]
  BY <1>4 DEF IInv, TypeOK
<1>6. TypeOK'
  <2>1. Plus(cur_cost[j[w]], One(item[w])) \in Totals
    BY <1>4, TotalsPlus DEF IInv, TypeOK
  <2>2. cur_cost' \in [Perms -> Totals]
    BY <1>5, <2>1 DEF IInv, TypeOK
  <2>3. j' \in [Workers -> Nat]  BY DEF IInv, TypeOK
  <2> QED  BY <2>2, <2>3 DEF IInv, TypeOK
<1>7. ASSUME NEW p \in Perms, NEW c \in Chunks
      PROVE  cur_cost'[p][c] = IF Done(p, c)' THEN 1 ELSE 0
  <2>1. /\ cur_cost[p][c] = IF Done(p, c) THEN 1 ELSE 0
        /\ cur_cost \in [Perms -> Totals]
    BY DEF IInv, TypeOK
  <2>2. CASE p = j[w] /\ c = item[w]
    <3>1. ~Done(p, c)  BY <1>1, <1>3, <2>2, <1>4 DEF Done
    <3>2. Done(p, c)'
      BY <1>3, <1>4, <2>2 DEF Done
    <3>3. cur_cost'[p][c] = cur_cost[p][c] + 1
      BY <1>4, <1>5, <2>1, <2>2 DEF Plus, One
    <3> QED  BY <2>1, <3>1, <3>2, <3>3
  <2>3. CASE p = j[w] /\ c # item[w]
    <3>1. Done(p, c)' <=> Done(p, c)
      BY <1>3, <1>4, <2>3 DEF Done
    <3>2. cur_cost'[p][c] = cur_cost[p][c] + 0
      BY <1>4, <1>5, <2>1, <2>3 DEF Plus, One
    <3> QED  BY <2>1, <3>1, <3>2
  <2>4. CASE p # j[w]
    <3>1. p < j[w] + 1 <=> p < j[w]
      BY <1>4, <2>4, EvalAssumption DEF Perms
    <3>2. pc[w] = "rate"  OBVIOUS
    <3>3. Done(p, c)' <=> Done(p, c)
      BY <1>3, <1>4, <3>1, <3>2 DEF Done
    <3>4. cur_cost'[p][c] = cur_cost[p][c]
      BY <1>5, <2>1, <2>4
    <3> QED  BY <2>1, <3>3, <3>4
  <2> QED  BY <2>2, <2>3, <2>4
<1> QED  BY <1>1, <1>3, <1>6, <1>7 DEF IInv, Running, CostExact

LEMMA RatedInv ==
  ASSUME IInv, NEW w \in Workers, Rated(w)
  PROVE  IInv'
<1> USE DEF Rated
<1>1. Holding(w) /\ Running  BY DEF Holding, Running
<1>2. /\ Work' /\ InRange' = InRange
      /\ item[w] \in InRange /\ ~Queued(item[w])
      /\ \A c \in Chunks : Queued(c)' <=> Queued(c)
      /\ \A c \in Chunks : Held(w, c) <=> c = item[w]
      /\ \A c \in Chunks : ~Held(w, c)'
      /\ \A v \in Workers, c \in Chunks : v # w =>
           (Held(v, c)' <=> Held(v, c)) /\ pc'[v] = pc[v]
  BY <1>1, ChunkStep
<1>3. TypeOK'  BY DEF IInv, TypeOK
<1>4. ASSUME NEW p \in Perms, NEW c \in Chunks
      PROVE  Done(p, c)' <=> Done(p, c)
  <2>1. p < j[w]  BY EvalAssumption DEF IInv, TypeOK, Perms
  <2> QED  BY <1>2, <2>1 DEF Done
<1> QED  BY <1>1, <1>2, <1>3, <1>4 DEF IInv, Running, CostExact

LEMMA UnloadInv ==
  ASSUME IInv, NEW w \in Workers, Unload(w)
  PROVE  IInv'
<1> USE DEF Unload
<1>1. Holding(w) /\ Running  BY DEF Holding, Running
<1>2. /\ Work' /\ item[w] \in InRange /\ item[w] \in Chunks /\ ~Queued(item[w])
      /\ InRange' = InRange /\ InRange \subseteq Chunks
      /\ \A c \in Chunks : Queued(c)' <=> Queued(c)
      /\ \A c \in Chunks : Held(w, c) <=> c = item[w]
      /\ \A c \in Chunks : ~Held(w, c)'
      /\ \A v \in Workers, c \in Chunks : v # w =>
           (Held(v, c)' <=> Held(v, c)) /\ (Held(v, c) => c # item[w])
  BY <1>1, ChunkStep
<1>3. TypeOK'  BY DEF IInv, TypeOK
<1>4. ASSUME NEW c \in InRange
      PROVE  c \in loaded' <=> Open(c)'
  <2>1. Open(c)' <=> Open(c) /\ c # item[w]
    BY <1>2 DEF Open
  <2>2. c \in loaded <=> Open(c)  BY DEF IInv
  <2> QED  BY <2>1, <2>2
<1>5. CostExact'  BY <1>2 DEF IInv, CostExact, OnceInRange
<1> QED  BY <1>1, <1>2, <1>3, <1>4, <1>5 DEF IInv, Running

(* The queue is empty: the worker stops, and holds nothing. *)
LEMMA FinishInv ==
  ASSUME IInv, NEW w \in Workers, Finish(w)
  PROVE  IInv'
<1> USE DEF Finish
<1>1. Work /\ InRange' = InRange  BY DEF IInv, InRange
<1>2. pc'[w] = "joined" /\ \A v \in Workers : v # w => pc'[v] = pc[v]
  BY DEF IInv, TypeOK
<1>3. \A v \in Workers : Holding(v)' <=> Holding(v)
  BY <1>2 DEF Holding
<1>4. Work'
  BY <1>1, <1>2, <1>3 DEF Work, Queued
<1>5. TypeOK'
  <2>1. Plus(totelem, count[w]) \in Totals
    <3>1. \A c \in Chunks : totelem[c] \in Nat /\ count[w][c] \in Nat
      BY DEF IInv, TypeOK, Totals
    <3> QED  BY <3>1 DEF Plus, Totals
  <2> QED  BY <2>1 DEF IInv, TypeOK
<1>6. ASSUME NEW c \in Chunks
      PROVE  /\ Queued(c)' <=> Queued(c)
             /\ \A v \in Workers : Held(v, c)' <=> Held(v, c)
             /\ Open(c)' <=> Open(c)
  <2>1. Queued(c)' <=> Queued(c)  BY DEF Queued
  <2>2. ASSUME NEW v \in Workers
        PROVE  Held(v, c)' <=> Held(v, c)
    BY <1>3 DEF Held
  <2> QED  BY <2>1, <2>2 DEF Open
<1>7. ASSUME NEW p \in Perms, NEW c \in Chunks
      PROVE  Done(p, c)' <=> Done(p, c)
  <2>1. ~Held(w, c)  BY DEF Held, Holding
  <2> QED  BY <1>1, <1>2, <1>6, <2>1 DEF Done
<1>8. CostExact'  BY <1>1 DEF IInv, CostExact, OnceInRange
<1>9. InRange \subseteq Chunks  BY DEF InRange
<1>10. phase = "load" => \A c \in InRange' : c \in loaded' <=> ~Open(c)'
  BY <1>1, <1>6, <1>9 DEF IInv
<1>11. phase = "unload" => \A c \in InRange' : c \in loaded' <=> Open(c)'
  BY <1>1, <1>6, <1>9 DEF IInv
<1>12. phase = "eval" =>
         \A p \in Perms, c \in Chunks : cur_cost'[p][c] = IF Done(p, c)' THEN 1 ELSE 0
  BY <1>7 DEF IInv
<1> QED
  BY <1>1, <1>4, <1>5, <1>8, <1>10, <1>11, <1>12 DEF IInv, Running

------------------------------------------------------------------------------
LEMMA StutterInv ==
  ASSUME IInv, UNCHANGED vars
  PROVE  IInv'
<1> USE DEF vars, worker
<1>1. InRange' = InRange  BY DEF InRange
<1>2. TypeOK'  BY DEF IInv, TypeOK
<1>3. Running' <=> Running  BY DEF Running
<1>4. Running => Work'
  BY <1>1 DEF IInv, Work, Holding, Queued
<1>5. \A c \in Chunks : Open(c)' <=> Open(c)
  BY DEF Open, Queued, Held, Holding
<1>6. \A p \in Perms, c \in Chunks : Done(p, c)' <=> Done(p, c)
  BY <1>1 DEF Done, Queued, Held, Holding
<1>7. CostExact'  BY <1>1 DEF IInv, CostExact, OnceInRange
<1>8. phase \in {"sep", "end"} => Idle'  BY DEF IInv, Idle, AllJoined
<1>9. InRange \subseteq Chunks  BY DEF InRange
<1>10. phase = "load" => \A c \in InRange' : c \in loaded' <=> ~Open(c)'
  BY <1>1, <1>5, <1>9 DEF IInv
<1>11. phase = "unload" => \A c \in InRange' : c \in loaded' <=> Open(c)'
  BY <1>1, <1>5, <1>9 DEF IInv
<1>12. phase = "eval" =>
         \A p \in Perms, c \in Chunks : cur_cost'[p][c] = IF Done(p, c)' THEN 1 ELSE 0
  BY <1>6 DEF IInv
<1> QED
  BY <1>1, <1>2, <1>3, <1>4, <1>7, <1>8, <1>10, <1>11, <1>12 DEF IInv

(* The invariant of the evaluation. *)
THEOREM EvalInvariant == Spec => []IInv
<1>1. Init => IInv  BY InitInv
<1>2. IInv /\ [Next]_vars => IInv'
  <2> SUFFICES ASSUME IInv, [Next]_vars
               PROVE  IInv'
    OBVIOUS
  <2>1. CASE MainThread
    BY <2>1, LoadQueryInv, DoCostEvalInv, UnloadQueryInv, NextSepInv DEF MainThread
  <2>2. ASSUME NEW w \in Workers, Worker(w)
        PROVE  IInv'
    BY <2>2, TakeInv, LoadInv, CountInv, UpdateCostInv, RatedInv, UnloadInv,
       FinishInv DEF Worker
  <2>3. CASE Stopped  BY <2>3, StutterInv DEF Stopped
  <2>4. CASE UNCHANGED vars  BY <2>4, StutterInv
  <2> QED  BY <2>1, <2>2, <2>3, <2>4 DEF Next
<1> QED  BY <1>1, <1>2, PTL DEF Spec

(* The type invariant of the evaluation. *)
THEOREM TypeCorrect == Spec => []TypeOK
BY EvalInvariant, PTL DEF IInv

(* No worker reads a chunk that is not in memory. *)
THEOREM ReadsOnlyLoaded == Spec => []ReadsLoaded
<1>1. IInv => ReadsLoaded
  BY DEF IInv, Running, Work, Holding, ReadsLoaded
<1> QED  BY <1>1, EvalInvariant, PTL

(* Memory holds the chunks of one range at most. *)
THEOREM MemoryIsBounded == Spec => []MemoryBounded
<1>1. IInv => MemoryBounded
  BY DEF IInv, Idle, MemoryBounded
<1> QED  BY <1>1, EvalInvariant, PTL

(* The cost of an order counts each chunk of the range once. *)
THEOREM CostIsExact == Spec => []CostExact
BY EvalInvariant, PTL DEF IInv

(* The range is the one main computed from k. *)
RangeOfK ==
  Running => /\ low_range = active_range * k
             /\ high_range = Least(TotChunks, active_range * (k + 1))

(* Main leaves a range when every order has, in its cost, the gain of each *)
(* chunk c with c \div active_range = k, once, and of no other chunk; and  *)
(* the ranges follow one another.                                          *)
RangesInTurn ==
  [][k' # k => /\ k' = k + 1
               /\ \A p \in Perms, c \in Chunks :
                    cur_cost[p][c] = IF c \div active_range = k THEN 1 ELSE 0]_vars

LEMMA ActiveRange ==
  /\ active_range \in Nat
  /\ TotChunks <= active_range * NSep
  /\ Chunks # {} => active_range # 0
<1> DEFINE m == TotChunks + NSep - 1
<1>1. m \in Nat /\ NSep \in Nat \ {0} /\ TotChunks \in Nat /\ m \in Int
  BY EvalAssumption
<1>2. active_range = m \div NSep  BY DEF active_range
<1>3. /\ m \div NSep \in Int /\ m % NSep \in 0..NSep - 1
      /\ m = NSep * (m \div NSep) + (m % NSep)
  BY <1>1, DivMod
<1>4. active_range \in Nat  BY <1>1, <1>2, SMT
<1>5. /\ active_range \in Int /\ m % NSep \in 0..NSep - 1
      /\ m = NSep * active_range + (m % NSep)
  BY <1>2, <1>3
<1> DEFINE a == active_range
           r == m % NSep
           x == NSep * a
<1>6. x = a * NSep /\ x \in Int  BY <1>1, <1>4
<1>7. TotChunks <= x
  <2>1. r \in 0..NSep - 1 /\ m = x + r  BY <1>5
  <2> HIDE DEF x, r
  <2> QED  BY <1>1, <1>6, <2>1
<1>8. a = 0 => x = 0  BY <1>1
<1>9. Chunks # {} => TotChunks > 0  BY <1>1 DEF Chunks
<1> QED  BY <1>1, <1>4, <1>6, <1>7, <1>8, <1>9

(* Each chunk lies in one of the ranges main goes through. *)
LEMMA EachInARange ==
  ASSUME NEW c \in Chunks
  PROVE  c \div active_range \in 0..NSep - 1
<1> DEFINE a == active_range
           b == c \div a
<1>1. /\ a \in Nat \ {0} /\ c \in Nat /\ c < TotChunks /\ TotChunks <= a * NSep
      /\ NSep \in Nat \ {0} /\ TotChunks \in Nat
  BY ActiveRange, EvalAssumption DEF Chunks
<1>2. b \in Int /\ c % a \in 0..a - 1 /\ c = a * b + (c % a)
  BY <1>1, DivMod
<1>3. b \in Nat  BY <1>1, SMT
<1> HIDE DEF a, b
<1>4. a * b <= c /\ a * b = b * a /\ a * NSep = NSep * a
      /\ b * a \in Int /\ NSep * a \in Int
  BY <1>1, <1>2, <1>3
<1>5. ~(NSep <= b)
  <2>1. SUFFICES ASSUME NSep <= b PROVE FALSE  OBVIOUS
  <2>2. NSep - 1 \in Int /\ NSep - 1 < b  BY <1>1, <1>3, <2>1
  <2>3. (NSep - 1) * a + a <= b * a
    BY <1>1, <1>3, <2>2, MultipleStep
  <2>4. (NSep - 1) * a + a = NSep * a  BY <1>1
  <2> QED  BY <1>1, <1>4, <2>3, <2>4
<1>6. b \in 0..NSep - 1  BY <1>1, <1>3, <1>5
<1> QED  BY <1>6 DEF a, b

(* The chunks between the bounds of range k are those k is the quotient of.*)
LEMMA InRangeK ==
  ASSUME NEW c \in Chunks, k \in Nat,
         low_range = active_range * k,
         high_range = Least(TotChunks, active_range * (k + 1))
  PROVE  c \in InRange <=> c \div active_range = k
<1> DEFINE a == active_range
           b == c \div a
<1>1. /\ a \in Nat \ {0} /\ c \in Nat /\ c < TotChunks /\ TotChunks \in Nat
  BY ActiveRange, EvalAssumption DEF Chunks
<1>2. b \in Int /\ c % a \in 0..a - 1 /\ c = a * b + (c % a)
  BY <1>1, DivMod
<1> HIDE DEF b
<1>3. low_range = k * a /\ a * (k + 1) = k * a + a /\ k * a \in Nat
  BY <1>1
<1>4. c < high_range <=> c < k * a + a
  BY <1>1, <1>3 DEF Least
<1>5. c \in InRange <=> k * a <= c /\ c < k * a + a
  BY <1>3, <1>4 DEF InRange
<1>6. b * a <= c /\ c < b * a + a /\ b * a \in Int
  <2>1. a * b = b * a /\ b * a \in Int /\ c % a \in Int  BY <1>1, <1>2
  <2> QED  BY <1>1, <1>2, <2>1
<1>7. ASSUME k * a <= c, c < k * a + a PROVE b = k
  <2>1. k * a < b * a + a /\ b * a < k * a + a
    BY <1>1, <1>3, <1>6, <1>7
  <2>2. k <= b /\ b <= k
    BY <1>1, <1>2, <2>1, MultipleOrder
  <2> QED  BY <1>2, <2>2
<1>8. b = k => k * a <= c /\ c < k * a + a
  BY <1>6
<1>9. c \in InRange <=> b = k  BY <1>5, <1>7, <1>8
<1> QED  BY <1>9 DEF b

LEMMA RangeOfKStep ==
  ASSUME TypeOK, RangeOfK, [Next]_vars
  PROVE  RangeOfK'
<1> USE DEF RangeOfK, Running
<1>1. CASE LoadQuery  BY <1>1 DEF LoadQuery
<1>2. CASE DoCostEval \/ UnloadQuery
  BY <1>2 DEF DoCostEval, UnloadQuery
<1>3. CASE NextSep  BY <1>3 DEF NextSep
<1>4. ASSUME NEW w \in Workers, Worker(w)
      PROVE  RangeOfK'
  BY <1>4 DEF Worker, Take, Load, Count, UpdateCost, Rated, Unload, Finish
<1>5. CASE Stopped \/ UNCHANGED vars
  BY <1>5 DEF Stopped, vars
<1> QED  BY <1>1, <1>2, <1>3, <1>4, <1>5 DEF Next, MainThread

LEMMA LeavesRange ==
  ASSUME IInv, RangeOfK, Next, k' # k
  PROVE  /\ k' = k + 1
         /\ \A p \in Perms, c \in Chunks :
              cur_cost[p][c] = IF c \div active_range = k THEN 1 ELSE 0
<1>1. NextSep
  <2>1. ASSUME NEW w \in Workers, Worker(w)
        PROVE  k' = k
    BY <2>1 DEF Worker, Take, Load, Count, UpdateCost, Rated, Unload, Finish
  <2>2. LoadQuery \/ DoCostEval \/ UnloadQuery => k' = k
    BY DEF LoadQuery, DoCostEval, UnloadQuery
  <2>3. Stopped => k' = k  BY DEF Stopped, vars
  <2> QED  BY <2>1, <2>2, <2>3 DEF Next, MainThread
<1>2. /\ phase = "unload" /\ k' = k + 1 /\ k \in Nat
      /\ \A p \in Perms : cur_cost[p] = OnceInRange
  BY <1>1, EvalAssumption DEF NextSep, IInv, TypeOK, CostExact
<1>3. /\ low_range = active_range * k
      /\ high_range = Least(TotChunks, active_range * (k + 1))
  BY <1>2 DEF RangeOfK, Running
<1>4. \A c \in Chunks : c \in InRange <=> c \div active_range = k
  BY <1>2, <1>3, InRangeK
<1> QED  BY <1>2, <1>4 DEF OnceInRange

(* Range after range, each chunk is in the cost of the range it belongs to.*)
THEOREM EachRangeCounted ==
  /\ \A c \in Chunks : c \div active_range \in 0..NSep - 1
  /\ Spec => RangesInTurn
<1>1. \A c \in Chunks : c \div active_range \in 0..NSep - 1
  BY EachInARange
<1>2. Init => RangeOfK  BY DEF Init, RangeOfK, Running
<1>3. IInv /\ RangeOfK /\ [Next]_vars => RangeOfK'
  BY RangeOfKStep DEF IInv
<1>4. Spec => []RangeOfK
  BY <1>2, <1>3, EvalInvariant, PTL DEF Spec
<1>5. IInv /\ RangeOfK /\ [Next]_vars =>
        [k' # k => /\ k' = k + 1
                   /\ \A p \in Perms, c \in Chunks :
                        cur_cost[p][c] = IF c \div active_range = k THEN 1 ELSE 0]_vars
  BY LeavesRange
<1>6. Spec => RangesInTurn
  BY <1>4, <1>5, EvalInvariant, PTL DEF Spec, RangesInTurn
<1> QED  BY <1>1, <1>6

(* How many steps worker w still takes at most in the phase: one more than *)
(* the orders, and three, for each chunk that waits in the queue.          *)
PerChunk == NPerms + 4
OwnLeft(w) ==
  CASE pc[w] = "joined" -> 0
    [] pc[w] = "get" -> 1
    [] pc[w] = "rate" -> IF j[w] <= NPerms THEN NPerms - j[w] + 2 ELSE 2
    [] pc[w] = "chunk" -> NPerms + 3
WorkerLeft(w) == PerChunk * Len(q) + OwnLeft(w)

(* Within a phase a worker's own steps bring its join nearer, and no step  *)
(* of another worker puts it off.                                          *)
WorkersAdvance ==
  [][\A w \in Workers : phase' = phase =>
       /\ WorkerLeft(w)' \in Nat
       /\ WorkerLeft(w)' <= WorkerLeft(w)
       /\ Worker(w) => WorkerLeft(w)' < WorkerLeft(w)]_vars

LEMMA LeftTypes ==
  ASSUME TypeOK, NEW w \in Workers
  PROVE  /\ OwnLeft(w) \in Nat /\ Len(q) \in Nat /\ PerChunk * Len(q) \in Nat
         /\ q # <<>> => /\ Len(Tail(q)) \in Nat /\ Len(Tail(q)) <= Len(q)
                        /\ PerChunk * Len(Tail(q)) = PerChunk * Len(q) - PerChunk
<1>1. /\ pc[w] \in {"joined", "get", "chunk", "rate"} /\ j[w] \in Nat
      /\ q \in Seq(Chunks) /\ NPerms \in Nat /\ PerChunk \in Nat
  BY EvalAssumption DEF TypeOK, PerChunk
<1>2. OwnLeft(w) \in Nat  BY <1>1 DEF OwnLeft
<1>3. Len(q) \in Nat  BY <1>1
<1>4. PerChunk * Len(q) \in Nat  BY <1>1, <1>3
<1>5. ASSUME q # <<>>
      PROVE  /\ Len(Tail(q)) \in Nat /\ Len(Tail(q)) <= Len(q)
             /\ PerChunk * Len(Tail(q)) = PerChunk * Len(q) - PerChunk
  <2>1. Len(q) # 0 /\ Len(Tail(q)) = Len(q) - 1
    BY <1>1, <1>5, EmptySeq, HeadTailProperties
  <2>2. PerChunk * (Len(q) - 1) = PerChunk * Len(q) - PerChunk
    BY <1>1, <1>3
  <2> QED  BY <1>3, <2>1, <2>2
<1> QED  BY <1>2, <1>3, <1>4, <1>5

LEMMA OwnSteps ==
  ASSUME TypeOK, NEW w \in Workers, Worker(w), phase' = phase
  PROVE  /\ OwnLeft(w)' \in Nat
         /\ PerChunk * Len(q') \in Nat
         /\ PerChunk * Len(q') <= PerChunk * Len(q)
         /\ WorkerLeft(w)' < WorkerLeft(w)
         /\ \A v \in Workers : v # w => OwnLeft(v)' = OwnLeft(v)
<1>1. /\ pc \in [Workers -> {"joined", "get", "chunk", "rate"}]
      /\ j \in [Workers -> Nat] /\ NPerms \in Nat /\ PerChunk = NPerms + 4
  BY EvalAssumption DEF TypeOK, PerChunk
<1>2. /\ PerChunk * Len(q) \in Nat /\ Len(q) \in Nat
      /\ q # <<>> => /\ Len(Tail(q)) \in Nat
                     /\ PerChunk * Len(Tail(q)) = PerChunk * Len(q) - PerChunk
  BY LeftTypes
<1>3. CASE Take(w)
  <2>1. /\ pc[w] = "get" /\ pc' = [pc EXCEPT ![w] = "chunk"] /\ j' = j
        /\ q # <<>> /\ q' = Tail(q)
    <3>1. phase # "crashed"  BY <1>3 DEF Take, Running
    <3> QED  BY <1>3, <3>1 DEF Take
  <2>2. OwnLeft(w) = 1 /\ OwnLeft(w)' = NPerms + 3  BY <1>1, <2>1 DEF OwnLeft
  <2>3. \A v \in Workers : v # w => OwnLeft(v)' = OwnLeft(v)
    BY <1>1, <2>1 DEF OwnLeft
  <2>4. PerChunk * Len(q') = PerChunk * Len(q) - PerChunk
    BY <1>2, <2>1
  <2>5. PerChunk * Len(q') \in Nat
    <3>1. Len(q') \in Nat /\ PerChunk \in Nat  BY <1>1, <1>2, <2>1
    <3> QED  BY <3>1
  <2> DEFINE old == PerChunk * Len(q)
             new == PerChunk * Len(q')
  <2>6. /\ WorkerLeft(w) = old + 1
        /\ WorkerLeft(w)' = PerChunk' * Len(q') + OwnLeft(w)'
        /\ PerChunk' = PerChunk
    BY <2>2 DEF WorkerLeft, PerChunk
  <2>7. new = old - PerChunk /\ new \in Nat /\ old \in Nat
    BY <1>2, <2>4, <2>5
  <2>8. WorkerLeft(w)' = new + (NPerms + 3)  BY <2>2, <2>6
  <2> HIDE DEF old, new
  <2>9. WorkerLeft(w)' < WorkerLeft(w) /\ new <= old
    BY <1>1, <2>6, <2>7, <2>8
  <2> QED  BY <1>1, <2>2, <2>3, <2>5, <2>9 DEF old, new
<1>4. CASE Load(w) \/ Unload(w)
  <2>1. /\ pc[w] = "chunk" /\ pc' = [pc EXCEPT ![w] = "get"] /\ j' = j /\ q' = q
    BY <1>4 DEF Load, Unload
  <2>2. OwnLeft(w) = NPerms + 3 /\ OwnLeft(w)' = 1  BY <1>1, <2>1 DEF OwnLeft
  <2>3. \A v \in Workers : v # w => OwnLeft(v)' = OwnLeft(v)
    BY <1>1, <2>1 DEF OwnLeft
  <2> QED  BY <1>1, <1>2, <2>1, <2>2, <2>3 DEF WorkerLeft, PerChunk
<1>5. CASE Count(w)
  <2>1. /\ pc[w] = "chunk" /\ pc' = [pc EXCEPT ![w] = "rate"] /\ q' = q
        /\ j' = [j EXCEPT ![w] = 0]
    BY <1>5 DEF Count
  <2>2. OwnLeft(w) = NPerms + 3 /\ OwnLeft(w)' = NPerms + 2
    BY <1>1, <2>1 DEF OwnLeft
  <2>3. \A v \in Workers : v # w => OwnLeft(v)' = OwnLeft(v)
    BY <1>1, <2>1 DEF OwnLeft
  <2> QED  BY <1>1, <1>2, <2>1, <2>2, <2>3 DEF WorkerLeft, PerChunk
<1>6. CASE UpdateCost(w)
  <2>1. /\ pc[w] = "rate" /\ pc' = pc /\ q' = q /\ j[w] < NPerms
        /\ j' = [j EXCEPT ![w] = @ + 1]
    BY <1>6 DEF UpdateCost
  <2>2. OwnLeft(w) = NPerms - j[w] + 2 /\ OwnLeft(w)' = NPerms - (j[w] + 1) + 2
    BY <1>1, <2>1 DEF OwnLeft
  <2>3. \A v \in Workers : v # w => OwnLeft(v)' = OwnLeft(v)
    BY <1>1, <2>1 DEF OwnLeft
  <2>4. j[w] \in Nat  BY <1>1
  <2> QED  BY <1>1, <1>2, <2>1, <2>2, <2>3, <2>4 DEF WorkerLeft, PerChunk
<1>7. CASE Rated(w)
  <2>1. /\ pc[w] = "rate" /\ pc' = [pc EXCEPT ![w] = "get"] /\ j' = j /\ q' = q
        /\ j[w] >= NPerms
    BY <1>7 DEF Rated
  <2>2. OwnLeft(w) = 2 /\ OwnLeft(w)' = 1  BY <1>1, <2>1 DEF OwnLeft
  <2>3. \A v \in Workers : v # w => OwnLeft(v)' = OwnLeft(v)
    BY <1>1, <2>1 DEF OwnLeft
  <2> QED  BY <1>1, <1>2, <2>1, <2>2, <2>3 DEF WorkerLeft, PerChunk
<1>8. CASE Finish(w)
  <2>1. /\ pc[w] = "get" /\ pc' = [pc EXCEPT ![w] = "joined"] /\ j' = j /\ q' = q
    BY <1>8 DEF Finish
  <2>2. OwnLeft(w) = 1 /\ OwnLeft(w)' = 0  BY <1>1, <2>1 DEF OwnLeft
  <2>3. \A v \in Workers : v # w => OwnLeft(v)' = OwnLeft(v)
    BY <1>1, <2>1 DEF OwnLeft
  <2> QED  BY <1>1, <1>2, <2>1, <2>2, <2>3 DEF WorkerLeft, PerChunk
<1> QED  BY <1>3, <1>4, <1>5, <1>6, <1>7, <1>8 DEF Worker

(* Each phase ends: its workers reach the join in a number of own steps    *)
(* that is bounded from the start, whatever the others do.                 *)
THEOREM WorkersAlwaysAdvance == Spec => WorkersAdvance
<1>1. TypeOK /\ [Next]_vars =>
        [\A w \in Workers : phase' = phase =>
           /\ WorkerLeft(w)' \in Nat
           /\ WorkerLeft(w)' <= WorkerLeft(w)
           /\ Worker(w) => WorkerLeft(w)' < WorkerLeft(w)]_vars
  <2> SUFFICES ASSUME TypeOK, Next, phase' = phase, vars' # vars, NEW w \in Workers
               PROVE  /\ WorkerLeft(w)' \in Nat
                      /\ WorkerLeft(w)' <= WorkerLeft(w)
                      /\ Worker(w) => WorkerLeft(w)' < WorkerLeft(w)
    OBVIOUS
  <2>1. OwnLeft(w) \in Nat /\ PerChunk * Len(q) \in Nat
    BY LeftTypes
  <2>2. PICK v \in Workers : Worker(v)
    <3>1. ~MainThread
      BY DEF MainThread, LoadQuery, DoCostEval, UnloadQuery, NextSep
    <3>2. ~Stopped  BY DEF Stopped
    <3> QED  BY <3>1, <3>2 DEF Next
  <2>3. /\ PerChunk * Len(q') \in Nat
        /\ PerChunk * Len(q') <= PerChunk * Len(q)
        /\ OwnLeft(v)' \in Nat
        /\ v # w => OwnLeft(w)' = OwnLeft(w)
    BY <2>2, OwnSteps
  <2>4. Worker(w) => WorkerLeft(w)' < WorkerLeft(w)
    BY OwnSteps
  <2> DEFINE old == PerChunk * Len(q)
             new == PerChunk * Len(q')
  <2>5. /\ WorkerLeft(w) = old + OwnLeft(w)
        /\ WorkerLeft(w)' = new + OwnLeft(w)'
    BY DEF WorkerLeft, PerChunk
  <2>6. old \in Nat /\ new \in Nat /\ new <= old  BY <2>1, <2>3
  <2> HIDE DEF old, new
  <2>7. CASE v = w
    <3>1. OwnLeft(w)' \in Nat /\ Worker(w)  BY <2>2, <2>3, <2>7
    <3>2. WorkerLeft(w)' < WorkerLeft(w)  BY <2>4, <3>1
    <3>3. WorkerLeft(w) \in Nat /\ WorkerLeft(w)' \in Nat
      BY <2>1, <2>5, <2>6, <3>1
    <3> QED  BY <2>4, <3>2, <3>3
  <2>8. CASE v # w
    <3>1. OwnLeft(w)' = OwnLeft(w)  BY <2>3, <2>8
    <3>2. WorkerLeft(w)' \in Nat /\ WorkerLeft(w)' <= WorkerLeft(w)
      BY <2>1, <2>5, <2>6, <3>1
    <3> QED  BY <2>4, <3>2
  <2> QED  BY <2>7, <2>8
<1> QED  BY <1>1, TypeCorrect, PTL DEF Spec, WorkersAdvance

------------------------------------------------------------------------------
(* The search that drives the evaluation (`solve optim`), for any number   *)
(* of cards and searches: perm stays an order of the cards, and never gets *)
(* further than one swap from the order it started with.                   *)

(* A swap keeps an order an order, and undoes itself. *)
LEMMA SwapIsInvolution ==
  ASSUME NEW p \in Orders, NEW s \in SwapsOrNone
  PROVE  /\ Swapped(p, s) \in Orders
         /\ Swapped(Swapped(p, s), s) = p
<1>1. s[1] \in Cards /\ s[2] \in Cards
  BY SearchAssumption DEF SwapsOrNone, Swaps, NoSwap, Cards
<1>2. p \in [Cards -> Cards] /\ \A a, b \in Cards : p[a] = p[b] => a = b
  BY DEF Orders
<1> DEFINE r == Swapped(p, s)
<1>3. r = [c \in Cards |-> IF c = s[2] THEN p[s[1]]
                           ELSE IF c = s[1] THEN p[s[2]] ELSE p[c]]
  BY <1>1, <1>2 DEF Swapped
<1>4. r \in [Cards -> Cards]
  BY <1>1, <1>2, <1>3
<1>5. \A a, b \in Cards : r[a] = r[b] => a = b
  BY <1>1, <1>2, <1>3
<1>6. Swapped(r, s) = [c \in Cards |-> IF c = s[2] THEN r[s[1]]
                                       ELSE IF c = s[1] THEN r[s[2]] ELSE r[c]]
  BY <1>1, <1>4 DEF Swapped
<1>7. ASSUME NEW c \in Cards
      PROVE  Swapped(r, s)[c] = p[c]
  <2>1. /\ r[s[2]] = p[s[1]]
        /\ s[1] # s[2] => r[s[1]] = p[s[2]]
        /\ c # s[1] /\ c # s[2] => r[c] = p[c]
    BY <1>1, <1>2, <1>3, <1>7
  <2> QED  BY <1>1, <1>2, <1>6, <1>7, <2>1
<1>8. Swapped(r, s) = p
  BY <1>2, <1>6, <1>7
<1> QED  BY <1>4, <1>5, <1>8 DEF Orders

LEMMA SearchInitInv ==
  ASSUME SearchInit
  PROVE  SearchInv
<1>1. NoSwap \in SwapsOrNone  BY DEF SwapsOrNone
<1>2. SearchTypeOK
  BY <1>1, SearchAssumption DEF SearchInit, SearchTypeOK
<1>3. AroundStart
  <2> SUFFICES ASSUME NEW e \in Evals
               PROVE  Swapped(perm[e], cur_swap[e]) = start[e]
    BY DEF AroundStart
  <2>1. perm[e] \in [Cards -> Cards] /\ start[e] = perm[e] /\ cur_swap[e] = <<0, 0>>
    BY DEF SearchInit, Orders, NoSwap
  <2> QED  BY <2>1 DEF Swapped
<1> QED  BY <1>2, <1>3, SearchAssumption DEF SearchInv, SearchInit, CostOfOrder

LEMMA SearchGenNextInv ==
  ASSUME SearchInv, GenNext
  PROVE  SearchInv'
<1> USE DEF GenNext
<1>1. ASSUME NEW e \in Evals
      PROVE  /\ cur_swap'[e] \in Swaps /\ cur_swap'[e] \in SwapsOrNone
             /\ start[e] \in Orders
             /\ perm'[e] = Swapped(start[e], cur_swap'[e])
  BY <1>1 DEF SearchInv, SearchTypeOK, AroundStart, SwapsOrNone
<1>2. ASSUME NEW e \in Evals
      PROVE  /\ perm'[e] \in Orders
             /\ Swapped(perm'[e], cur_swap'[e]) = start[e]
  BY <1>1, <1>2, SwapIsInvolution
<1>3. SearchTypeOK'
  <2>1. perm' \in [Evals -> Orders] /\ cur_swap' \in [Evals -> SwapsOrNone]
    BY <1>1, <1>2
  <2>2. /\ best_cost' \in [Evals -> Int] /\ best_swap' \in [Evals -> SwapsOrNone]
        /\ swap_cost' \in [Evals -> Int]
    BY DEF SearchInv, SearchTypeOK
  <2> QED  BY <2>1, <2>2 DEF SearchInv, SearchTypeOK
<1>4. AroundStart'
  BY <1>2 DEF AroundStart
<1> QED  BY <1>3, <1>4, SearchAssumption DEF SearchInv, CostOfOrder

LEMMA SearchEvaluateInv ==
  ASSUME SearchInv, Evaluate
  PROVE  SearchInv'
<1> USE DEF Evaluate
<1>1. ASSUME NEW e \in Evals
      PROVE  /\ perm[e] \in Orders
             /\ perm[e] = Swapped(start[e], cur_swap[e])
  <2>1. perm[e] \in Orders /\ cur_swap[e] \in SwapsOrNone
    BY DEF SearchInv, SearchTypeOK
  <2> QED  BY <2>1, SwapIsInvolution DEF SearchInv, AroundStart
<1>2. ASSUME NEW e \in Evals
      PROVE  swap_cost'[e] = Gain[perm[e]] /\ Gain[perm[e]] \in Int
  BY <1>1, <1>2, SearchAssumption DEF SearchInv
<1>3. SearchTypeOK'
  <2>1. neighbor' \in 0..NumNeighbor
    BY SearchAssumption DEF SearchInv, SearchTypeOK
  <2>2. swap_cost' \in [Evals -> Int]
    BY <1>2
  <2> QED  BY <2>1, <2>2 DEF SearchInv, SearchTypeOK
<1>4. CostOfOrder'
  BY <1>1, <1>2 DEF CostOfOrder
<1> QED  BY <1>3, <1>4 DEF SearchInv, AroundStart

LEMMA SearchSelectNextInv ==
  ASSUME SearchInv, SelectNext
  PROVE  SearchInv'
<1> USE DEF SelectNext
<1>1. ASSUME NEW e \in Evals
      PROVE  /\ best_swap[e] \in SwapsOrNone /\ start[e] \in Orders
             /\ perm'[e] = Swapped(start[e], best_swap[e])
  BY <1>1 DEF SearchInv, SearchTypeOK, AroundStart
<1>2. ASSUME NEW e \in Evals
      PROVE  /\ perm'[e] \in Orders
             /\ Swapped(perm'[e], cur_swap'[e]) = start[e]
  BY <1>1, <1>2, SwapIsInvolution
<1>3. SearchTypeOK'
  BY <1>2, SearchAssumption DEF SearchInv, SearchTypeOK, SwapsOrNone
<1>4. AroundStart'
  BY <1>2 DEF AroundStart
<1> QED  BY <1>3, <1>4, SearchAssumption DEF SearchInv, CostOfOrder

------------------------------------------------------------------------------
(* The invariant of the search. *)
THEOREM SearchInvariant == SearchSpec => []SearchInv
<1>1. SearchInit => SearchInv  BY SearchInitInv
<1>2. SearchInv /\ [SearchNext]_searchVars => SearchInv'
  <2> SUFFICES ASSUME SearchInv, [SearchNext]_searchVars
               PROVE  SearchInv'
    OBVIOUS
  <2>1. CASE GenNext  BY <2>1, SearchGenNextInv
  <2>2. CASE Evaluate  BY <2>2, SearchEvaluateInv
  <2>3. CASE SelectNext  BY <2>3, SearchSelectNextInv
  <2>4. CASE UNCHANGED searchVars
    BY <2>4 DEF SearchInv, SearchTypeOK, AroundStart, CostOfOrder, searchVars, fields
  <2> QED  BY <2>1, <2>2, <2>3, <2>4 DEF SearchNext
<1> QED  BY <1>1, <1>2, PTL DEF SearchSpec

(* perm is an order of the cards whenever the workers read it. *)
THEOREM AlwaysAnOrder == SearchSpec => []SearchTypeOK
BY SearchInvariant, PTL DEF SearchInv

(* The search never leaves the swaps of its first order. *)
THEOREM StaysAroundStart == SearchSpec => []AroundStart
BY SearchInvariant, PTL DEF SearchInv

(* After an evaluation, and until select_next, cur_cost is the gain of the *)
(* order it has rated and has nothing of the orders before.                *)
THEOREM CostIsOfOneOrder == SearchSpec => []CostOfOrder
BY SearchInvariant, PTL DEF SearchInv
==============================================================================
