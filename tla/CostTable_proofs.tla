--------------------------- MODULE CostTable_proofs ---------------------------
(***************************************************************************)
(* For any number of workers, any table and any batches: no slot is set    *)
(* twice, none is lost, and the loaded table is the computed one.          *)
(***************************************************************************)
EXTENDS CostTable, HandCost, SharedLemmas, FiniteSetTheorems,
        SequenceTheorems

LEMMA FullType == Full \in [Slots -> Entries] /\ Full # None
<1>1. Full \in [Slots -> Entries]  BY DEF Full, Entries
<1> QED  BY <1>1, CostAssumption

LEMMA EntryType ==
  ASSUME TypeOK, NEW x \in Slots
  PROVE  Entry(x) \in Entries
<1>1. Unset \in Entries  BY DEF Entries
<1> QED  BY <1>1 DEF TypeOK, Entry

LEMMA InitInv ==
  ASSUME Init
  PROVE  IInv
<1>1. TypeOK
  BY CostAssumption DEF Init, TypeOK, Phases, PCs
<1>2. ThreadsOfPhase
  <2> SUFFICES ASSUME NEW w \in Workers
               PROVE  /\ pc[w] = "joined" /\ q = <<>> /\ phase = "start"
                      /\ buffer[w] = <<>> /\ Len(buffer[w]) <= BufSize
    BY DEF ThreadsOfPhase
  <2>1. buffer[w] = <<>> /\ Len(<<>>) = 0  BY DEF Init
  <2> QED  BY <2>1, CostAssumption DEF Init
<1> QED
  BY <1>1, <1>2 DEF Init, IInv, FileLoops, TableComplete

(* All hands wait in the queue, no slot is set. *)
LEMMA StartCostInv ==
  ASSUME IInv, StartCost
  PROVE  IInv'
<1> USE DEF StartCost
<1> DEFINE t == [k \in 1..Hands |-> k - 1]
           low == 0
<1>1. /\ q = <<>> /\ q' = <<>> \o t /\ tmpCost = None
      /\ \A w \in Workers : buffer[w] = <<>>
  BY CostAssumption DEF IInv, ThreadsOfPhase
<1>2. /\ Hands \in Nat /\ low \in Int
      /\ t \in [1..Hands -> Int] /\ \A k \in 1..Hands : t[k] = low + k - 1
  BY CostAssumption
<1>12. low..low + Hands - 1 = HandIds
  BY CostAssumption DEF HandIds
<1> HIDE DEF t, low
<1>3. /\ q' \in Seq(HandIds)
      /\ \A a, b \in 1..Len(q') : q'[a] = q'[b] => a = b
      /\ \A c : (\E a \in 1..Len(q') : q'[a] = c) <=> c \in HandIds
  <2>1. /\ <<>> \o t = t
        /\ t \in Seq(low..low + Hands - 1)
        /\ NoRepeat(t)
        /\ \A c : OccursIn(c, t) <=> c \in low..low + Hands - 1
    BY ONLY <1>2, QueueFill
  <2>2. q' = t  BY ONLY <1>1, <2>1
  <2> QED  BY ONLY <1>12, <2>1, <2>2 DEF NoRepeat, OccursIn
<1>4. TypeOK'
  BY <1>3 DEF IInv, TypeOK, Phases, PCs
<1>5. ThreadsOfPhase'
  BY <1>1, CostAssumption DEF ThreadsOfPhase, IInv
<1>6. ASSUME NEW h \in HandIds, NEW w \in Workers
      PROVE  ~Held(w, h)' /\ ~Buffered(w, h)'
  BY <1>1 DEF Held, Buffered
<1>7. NeverTwice' /\ OnlyDistinct'
  <2>1. \A w \in Workers : \A k \in 1..Len(buffer'[w]) : FALSE  BY <1>1
  <2>2. NeverTwice'  BY <1>3, <1>6, <2>1 DEF NeverTwice
  <2>3. OnlyDistinct'  BY <1>6 DEF OnlyDistinct
  <2> QED  BY <2>2, <2>3
<1>8. SettledSlots'
  <2>1. \A h \in Distinct : Pending(h)'
    BY <1>3, CostAssumption DEF Pending, Queued
  <2>2. tmpCost' = None  BY <1>1
  <2> QED  BY <2>1, <2>2 DEF SettledSlots, Entry
<1> QED
  BY <1>4, <1>5, <1>7, <1>8 DEF IInv, FileLoops, TableComplete

------------------------------------------------------------------------------
(* What the steps of a worker leave alone. *)
LEMMA CostPhase ==
  ASSUME IInv, NEW w \in Workers, pc[w] # "joined"
  PROVE  phase = "cost" /\ NeverTwice /\ OnlyDistinct /\ SettledSlots
BY DEF IInv, ThreadsOfPhase

LEMMA GetInv ==
  ASSUME IInv, NEW w \in Workers, Get(w)
  PROVE  IInv'
<1> USE DEF Get
<1>1. phase = "cost" /\ NeverTwice /\ OnlyDistinct /\ SettledSlots
  BY CostPhase
<1>2. \A v \in Workers : v # w => pc'[v] = pc[v] /\ hand'[v] = hand[v]
  BY DEF IInv, TypeOK
<1>3. CASE q = <<>>
  <2>1. /\ pc'[w] = "drain" /\ q' = q /\ hand' = hand
    BY <1>3 DEF IInv, TypeOK
  <2>2. TypeOK'  BY <1>3, <2>1 DEF IInv, TypeOK, PCs
  <2>3. ThreadsOfPhase'
    BY <1>1, <1>2, <1>3, <2>1 DEF IInv, ThreadsOfPhase
  <2>4. ASSUME NEW h \in HandIds
        PROVE  /\ Queued(h)' <=> Queued(h)
               /\ \A v \in Workers : (Held(v, h)' <=> Held(v, h))
                                     /\ (Buffered(v, h)' <=> Buffered(v, h))
               /\ Pending(h)' <=> Pending(h)
    <3>1. Queued(h)' <=> Queued(h)  BY <2>1 DEF Queued
    <3>2. ASSUME NEW v \in Workers
          PROVE  (Held(v, h)' <=> Held(v, h)) /\ (Buffered(v, h)' <=> Buffered(v, h))
      BY <1>2, <2>1 DEF Held, Buffered
    <3> QED  BY <3>1, <3>2 DEF Pending
  <2>5. NeverTwice'  BY <1>1, <2>1, <2>4 DEF NeverTwice
  <2>6. OnlyDistinct'  BY <1>1, <2>4 DEF OnlyDistinct
  <2>7. SettledSlots'
    <3>1. \A h \in Distinct : Pending(h)' <=> Pending(h)  BY <2>4, CostAssumption
    <3>2. tmpCost' = tmpCost  OBVIOUS
    <3> QED  BY <1>1, <3>1, <3>2 DEF SettledSlots, Entry
  <2> QED
    BY <1>1, <2>2, <2>3, <2>5, <2>6, <2>7 DEF IInv, FileLoops, TableComplete
<1>4. CASE q # <<>>
  <2> DEFINE g == Head(q)
  <2>1. /\ q \in Seq(HandIds)
        /\ NoRepeat(q)
        /\ q' = Tail(q) /\ q # <<>> /\ g = Head(q)
    BY <1>1, <1>4 DEF IInv, TypeOK, NeverTwice, NoRepeat
  <2>2. /\ g \in HandIds /\ q' \in Seq(HandIds)
        /\ OccursIn(g, q)
        /\ \A c : OccursIn(c, q') <=> OccursIn(c, q) /\ c # g
        /\ NoRepeat(q')
    BY ONLY <2>1, QueuePop
  <2>3. pc'[w] = "hand" /\ hand'[w] = g /\ g \in Nat
    BY <1>4, <2>2 DEF IInv, TypeOK, HandIds
  <2> HIDE DEF g
  <2>4. TypeOK'
    <3>1. hand' \in [Workers -> Nat]  BY <1>4, <2>3 DEF IInv, TypeOK, g
    <3>2. pc' \in [Workers -> PCs]  BY <1>4 DEF IInv, TypeOK, PCs
    <3> QED  BY <2>2, <3>1, <3>2 DEF IInv, TypeOK
  <2>5. ThreadsOfPhase'
    BY <1>1, <1>2, <1>4, <2>2, <2>3 DEF IInv, ThreadsOfPhase
  <2>6. ASSUME NEW h \in HandIds
        PROVE  /\ Queued(h)' <=> Queued(h) /\ h # g
               /\ Queued(g)
               /\ \A v \in Workers : v # w => (Held(v, h)' <=> Held(v, h))
               /\ ~Held(w, h) /\ (Held(w, h)' <=> h = g)
               /\ \A v \in Workers : Buffered(v, h)' <=> Buffered(v, h)
    <3>1. (Queued(h)' <=> Queued(h) /\ h # g) /\ Queued(g)  BY <2>2 DEF Queued, OccursIn
    <3>2. ASSUME NEW v \in Workers
          PROVE  /\ v # w => (Held(v, h)' <=> Held(v, h))
                 /\ Buffered(v, h)' <=> Buffered(v, h)
      BY <1>2, <3>2 DEF Held, Buffered
    <3>3. ~Held(w, h) /\ (Held(w, h)' <=> h = g)  BY <2>3 DEF Held
    <3> QED  BY <3>1, <3>2, <3>3
  <2>7. NeverTwice'
    <3>1. ASSUME NEW h \in HandIds, NEW u \in Workers, NEW v \in Workers
          PROVE  (/\ Held(v, h) \/ Buffered(v, h) => ~Queued(h)
                  /\ Held(u, h) => ~Buffered(v, h)
                  /\ Held(u, h) /\ Held(v, h) => u = v
                  /\ Buffered(u, h) /\ Buffered(v, h) => u = v)'
      <4>1. /\ Held(v, h) \/ Buffered(v, h) => ~Queued(h)
            /\ Held(u, h) \/ Buffered(u, h) => ~Queued(h)
            /\ Held(u, h) => ~Buffered(v, h)
            /\ Held(u, h) /\ Held(v, h) => u = v
            /\ Buffered(u, h) /\ Buffered(v, h) => u = v
        BY <1>1 DEF NeverTwice
      <4> QED  BY <2>6, <4>1
    <3> QED  BY <1>1, <2>2, <3>1 DEF NeverTwice, NoRepeat
  <2>8. OnlyDistinct'  BY <1>1, <2>6 DEF OnlyDistinct
  <2>9. SettledSlots'
    <3>1. ASSUME NEW h \in Distinct
          PROVE  Pending(h)' <=> Pending(h)
      BY <2>6, CostAssumption DEF Pending
    <3>2. tmpCost' = tmpCost  OBVIOUS
    <3> QED  BY <1>1, <3>1, <3>2 DEF SettledSlots, Entry
  <2> QED
    BY <1>1, <2>4, <2>5, <2>7, <2>8, <2>9 DEF IInv, FileLoops, TableComplete
<1> QED  BY <1>3, <1>4

(* A push settles exactly the hands of the buffer. *)
LEMMA PushCostsInv ==
  ASSUME IInv, NEW w \in Workers, PushCosts(w),
         phase = "cost", phase' = phase, q' = q, hand' = hand,
         \A v \in Workers : pc'[v] = pc[v] \/ v = w,
         pc'[w] = "hand" <=> pc[w] = "hand"
  PROVE  /\ NeverTwice' /\ OnlyDistinct' /\ SettledSlots'
         /\ tmpCost' \in [Slots -> Entries] /\ tmpCost' # None
         /\ buffer' \in [Workers -> Seq(HandIds)]
<1>1. /\ NeverTwice /\ OnlyDistinct /\ SettledSlots /\ TypeOK
      /\ buffer \in [Workers -> Seq(HandIds)]
  BY DEF IInv, TypeOK
<1>2. /\ buffer'[w] = <<>> /\ \A v \in Workers : v # w => buffer'[v] = buffer[v]
      /\ buffer' \in [Workers -> Seq(HandIds)]
  BY <1>1 DEF PushCosts
<1>3. tmpCost' = [x \in Slots |-> IF Pushed(w, x) THEN Cost[x] ELSE Entry(x)]
  BY DEF PushCosts, Entry
<1>4. tmpCost' \in [Slots -> Entries]
  <2>1. \A x \in Slots : Entry(x) \in Entries /\ Cost[x] \in Entries
    BY <1>1, EntryType DEF Entries
  <2> QED  BY <1>3, <2>1
<1>5. tmpCost' # None  BY <1>4, CostAssumption
<1>6. ASSUME NEW h \in HandIds
      PROVE  /\ Queued(h)' <=> Queued(h)
             /\ \A v \in Workers : Held(v, h)' <=> Held(v, h)
             /\ \A v \in Workers : v # w => (Buffered(v, h)' <=> Buffered(v, h))
             /\ ~Buffered(w, h)'
  <2>1. Queued(h)' <=> Queued(h)  BY DEF Queued
  <2>2. ASSUME NEW v \in Workers
        PROVE  Held(v, h)' <=> Held(v, h)
    BY <2>2 DEF Held
  <2>3. ASSUME NEW v \in Workers, v # w
        PROVE  Buffered(v, h)' <=> Buffered(v, h)
    BY <1>2, <2>3 DEF Buffered
  <2>4. ~Buffered(w, h)'  BY <1>2 DEF Buffered
  <2> QED  BY <2>1, <2>2, <2>3, <2>4
<1>7. NeverTwice'
  <2>1. ASSUME NEW h \in HandIds, NEW u \in Workers, NEW v \in Workers
        PROVE  (/\ Held(v, h) \/ Buffered(v, h) => ~Queued(h)
                /\ Held(u, h) => ~Buffered(v, h)
                /\ Held(u, h) /\ Held(v, h) => u = v
                /\ Buffered(u, h) /\ Buffered(v, h) => u = v)'
    <3>1. /\ Held(v, h) \/ Buffered(v, h) => ~Queued(h)
          /\ Held(u, h) => ~Buffered(v, h)
          /\ Held(u, h) /\ Held(v, h) => u = v
          /\ Buffered(u, h) /\ Buffered(v, h) => u = v
      BY <1>1 DEF NeverTwice
    <3> QED  BY <1>6, <3>1
  <2>2. ASSUME NEW v \in Workers
        PROVE  \A k, l \in 1..Len(buffer'[v]) : buffer'[v][k] = buffer'[v][l] => k = l
    <3>1. CASE v = w
      <4>1. \A k \in 1..Len(buffer'[v]) : FALSE  BY <1>2, <3>1
      <4> QED  BY <4>1
    <3>2. CASE v # w
      BY <1>1, <1>2, <3>2 DEF NeverTwice
    <3> QED  BY <3>1, <3>2
  <2> QED  BY <1>1, <2>1, <2>2 DEF NeverTwice
<1>8. OnlyDistinct'
  BY <1>1, <1>6 DEF OnlyDistinct
<1>9. ASSUME NEW h \in HandIds
      PROVE  Pushed(w, HandForCost[h]) <=> Buffered(w, h)
  <2>1. \A k \in 1..Len(buffer[w]) : buffer[w][k] \in HandIds  BY <1>1
  <2> QED  BY <2>1, CostAssumption DEF Pushed, Buffered
<1>10. SettledSlots'
  <2>1. ASSUME NEW h \in Distinct
        PROVE  Entry(HandForCost[h])' =
                 IF Pending(h)' THEN Unset ELSE Cost[HandForCost[h]]
    <3>1. h \in HandIds /\ HandForCost[h] \in Slots
      BY CostAssumption
    <3>2. tmpCost'[HandForCost[h]] =
            IF Buffered(w, h) THEN Cost[HandForCost[h]] ELSE Entry(HandForCost[h])
      BY <1>3, <1>9, <3>1
    <3>3. Pending(h)' <=> Pending(h) /\ ~Buffered(w, h)
      <4>1. Buffered(w, h) =>
              /\ ~Queued(h) /\ \A v \in Workers : ~Held(v, h)
              /\ \A v \in Workers : v # w => ~Buffered(v, h)
        BY <1>1, <3>1 DEF NeverTwice
      <4> QED  BY <1>6, <3>1, <4>1 DEF Pending
    <3>4. Buffered(w, h) => Pending(h)  BY DEF Pending
    <3>5. Entry(HandForCost[h]) = IF Pending(h) THEN Unset ELSE Cost[HandForCost[h]]
      BY <1>1 DEF SettledSlots
    <3> QED  BY <1>5, <3>2, <3>3, <3>4, <3>5 DEF Entry
  <2>2. ASSUME NEW x \in Slots, \A h \in Distinct : HandForCost[h] # x
        PROVE  Entry(x)' = Unset
    <3>1. ~Pushed(w, x)
      <4>1. \A k \in 1..Len(buffer[w]) :
              buffer[w][k] \in HandIds /\ Buffered(w, buffer[w][k])
        BY <1>1 DEF Buffered
      <4>2. \A k \in 1..Len(buffer[w]) : buffer[w][k] \in Distinct
        BY <1>1, <4>1 DEF OnlyDistinct
      <4> QED  BY <2>2, <4>2 DEF Pushed
    <3>2. Entry(x) = Unset  BY <1>1, <2>2 DEF SettledSlots
    <3> QED  BY <1>3, <1>5, <3>1, <3>2 DEF Entry
  <2> QED  BY <2>1, <2>2 DEF SettledSlots
<1> QED  BY <1>2, <1>4, <1>5, <1>7, <1>8, <1>10

LEMMA FlushInv ==
  ASSUME IInv, NEW w \in Workers, Flush(w)
  PROVE  IInv'
<1> USE DEF Flush
<1>1. phase = "cost"  BY CostPhase
<1>2. /\ NeverTwice' /\ OnlyDistinct' /\ SettledSlots'
      /\ tmpCost' \in [Slots -> Entries] /\ tmpCost' # None
      /\ buffer' \in [Workers -> Seq(HandIds)]
  BY <1>1, PushCostsInv
<1>3. /\ buffer'[w] = <<>> /\ \A v \in Workers : v # w => buffer'[v] = buffer[v]
  BY DEF PushCosts, IInv, TypeOK
<1>4. TypeOK'  BY <1>2 DEF IInv, TypeOK
<1>5. ThreadsOfPhase'
  BY <1>1, <1>2, <1>3, CostAssumption DEF IInv, ThreadsOfPhase
<1> QED
  BY <1>1, <1>2, <1>4, <1>5 DEF IInv, FileLoops, TableComplete

LEMMA DrainInv ==
  ASSUME IInv, NEW w \in Workers, Drain(w)
  PROVE  IInv'
<1> USE DEF Drain
<1>1. phase = "cost"  BY CostPhase
<1>2. pc'[w] = "joined" /\ \A v \in Workers : v # w => pc'[v] = pc[v]
  BY DEF IInv, TypeOK
<1>3. /\ NeverTwice' /\ OnlyDistinct' /\ SettledSlots'
      /\ tmpCost' \in [Slots -> Entries] /\ tmpCost' # None
      /\ buffer' \in [Workers -> Seq(HandIds)]
  BY <1>1, <1>2, PushCostsInv
<1>4. /\ buffer'[w] = <<>> /\ \A v \in Workers : v # w => buffer'[v] = buffer[v]
  BY DEF PushCosts, IInv, TypeOK
<1>5. TypeOK'  BY <1>3 DEF IInv, TypeOK, PCs
<1>6. ThreadsOfPhase'
  BY <1>1, <1>2, <1>3, <1>4, CostAssumption DEF IInv, ThreadsOfPhase
<1> QED
  BY <1>1, <1>3, <1>5, <1>6 DEF IInv, FileLoops, TableComplete

(* A hand with a repeated card has no slot to settle. *)
LEMMA SkipInv ==
  ASSUME IInv, NEW w \in Workers, Skip(w)
  PROVE  IInv'
<1> USE DEF Skip
<1>1. phase = "cost" /\ NeverTwice /\ OnlyDistinct /\ SettledSlots
  BY CostPhase
<1>2. pc'[w] = "get" /\ \A v \in Workers : v # w => pc'[v] = pc[v]
  BY DEF IInv, TypeOK
<1>3. TypeOK'  BY DEF IInv, TypeOK, PCs
<1>4. ThreadsOfPhase'
  BY <1>1, <1>2 DEF IInv, ThreadsOfPhase
<1>5. ASSUME NEW h \in HandIds
      PROVE  /\ Queued(h)' <=> Queued(h)
             /\ \A v \in Workers : Held(v, h)' => Held(v, h)
             /\ \A v \in Workers : v # w => (Held(v, h)' <=> Held(v, h))
             /\ Held(w, h) => h \notin Distinct
             /\ \A v \in Workers : Buffered(v, h)' <=> Buffered(v, h)
  <2>1. ASSUME NEW v \in Workers
        PROVE  /\ Held(v, h)' => Held(v, h)
               /\ v # w => (Held(v, h)' <=> Held(v, h))
               /\ Buffered(v, h)' <=> Buffered(v, h)
    BY <1>2 DEF Held, Buffered
  <2>2. Held(w, h) => h \notin Distinct  BY DEF Held
  <2>3. Queued(h)' <=> Queued(h)  BY DEF Queued
  <2> QED  BY <2>1, <2>2, <2>3
<1>6. NeverTwice'
  <2>1. ASSUME NEW h \in HandIds, NEW u \in Workers, NEW v \in Workers
        PROVE  (/\ Held(v, h) \/ Buffered(v, h) => ~Queued(h)
                /\ Held(u, h) => ~Buffered(v, h)
                /\ Held(u, h) /\ Held(v, h) => u = v
                /\ Buffered(u, h) /\ Buffered(v, h) => u = v)'
    <3>1. /\ Held(v, h) \/ Buffered(v, h) => ~Queued(h)
          /\ Held(u, h) => ~Buffered(v, h)
          /\ Held(u, h) /\ Held(v, h) => u = v
          /\ Buffered(u, h) /\ Buffered(v, h) => u = v
      BY <1>1 DEF NeverTwice
    <3> QED  BY <1>5, <3>1
  <2> QED  BY <1>1, <2>1 DEF NeverTwice
<1>7. OnlyDistinct'  BY <1>1, <1>5 DEF OnlyDistinct
<1>8. SettledSlots'
  <2>1. ASSUME NEW h \in Distinct
        PROVE  Pending(h)' <=> Pending(h)
    <3>1. h \in HandIds  BY CostAssumption
    <3>2. ~Held(w, h) /\ ~Held(w, h)'  BY <1>5, <3>1
    <3> QED  BY <1>5, <3>1, <3>2 DEF Pending
  <2>2. tmpCost' = tmpCost  OBVIOUS
  <2> QED  BY <1>1, <2>1, <2>2 DEF SettledSlots, Entry
<1> QED
  BY <1>1, <1>3, <1>4, <1>6, <1>7, <1>8 DEF IInv, FileLoops, TableComplete

(* The held hand moves into the buffer, which was not full. *)
LEMMA RateInv ==
  ASSUME IInv, NEW w \in Workers, Rate(w)
  PROVE  IInv'
<1> USE DEF Rate
<1>1. phase = "cost" /\ NeverTwice /\ OnlyDistinct /\ SettledSlots
  BY CostPhase
<1>2. pc'[w] = "get" /\ \A v \in Workers : v # w => pc'[v] = pc[v] /\ buffer'[v] = buffer[v]
  BY DEF IInv, TypeOK
<1> DEFINE g == hand[w]
           b == buffer[w]
<1>3. /\ g \in HandIds /\ g \in Distinct /\ b \in Seq(HandIds)
      /\ buffer'[w] = Append(b, g)
      /\ Len(b) < BufSize /\ Len(b) \in Nat
  BY CostAssumption DEF IInv, TypeOK, ThreadsOfPhase
<1> HIDE DEF g, b
<1>4. /\ buffer'[w] \in Seq(HandIds) /\ Len(buffer'[w]) = Len(b) + 1
      /\ \A k \in 1..Len(b) : buffer'[w][k] = b[k]
      /\ buffer'[w][Len(b) + 1] = g
  BY ONLY <1>3
<1>5. TypeOK'
  <2>1. buffer' \in [Workers -> Seq(HandIds)]
    BY <1>2, <1>4 DEF IInv, TypeOK
  <2> QED  BY <2>1 DEF IInv, TypeOK, PCs
<1>6. ThreadsOfPhase'
  BY <1>1, <1>2, <1>3, <1>4, CostAssumption DEF IInv, ThreadsOfPhase
<1>7. ASSUME NEW h \in HandIds
      PROVE  /\ Queued(h)' <=> Queued(h)
             /\ \A v \in Workers : v # w => (Held(v, h)' <=> Held(v, h))
             /\ \A v \in Workers : v # w => (Buffered(v, h)' <=> Buffered(v, h))
             /\ ~Held(w, h)' /\ (Held(w, h) <=> h = g)
             /\ Buffered(w, h)' <=> Buffered(w, h) \/ h = g
  <2>1. ASSUME NEW v \in Workers, v # w
        PROVE  /\ Held(v, h)' <=> Held(v, h)
               /\ Buffered(v, h)' <=> Buffered(v, h)
    BY <1>2, <2>1 DEF Held, Buffered
  <2>2. ~Held(w, h)' /\ (Held(w, h) <=> h = g)
    BY <1>2 DEF Held, g
  <2>3. Queued(h)' <=> Queued(h)  BY DEF Queued
  <2>4. Buffered(w, h)' <=> Buffered(w, h) \/ h = g
    <3>1. Buffered(w, h) <=> \E k \in 1..Len(b) : b[k] = h
      BY DEF Buffered, b
    <3>2. Buffered(w, h)' <=> \E k \in 1..Len(b) + 1 : buffer'[w][k] = h
      BY <1>4 DEF Buffered
    <3>3. ASSUME NEW k \in 1..Len(b), b[k] = h
          PROVE  \E l \in 1..Len(b) + 1 : buffer'[w][l] = h
      <4>1. k \in 1..Len(b) + 1 /\ buffer'[w][k] = h  BY ONLY <1>3, <1>4, <3>3
      <4> QED  BY <4>1
    <3>4. ASSUME NEW k \in 1..Len(b) + 1, buffer'[w][k] = h, h # g
          PROVE  k \in 1..Len(b) /\ b[k] = h
      BY ONLY <1>3, <1>4, <3>4
    <3>5. Len(b) + 1 \in 1..Len(b) + 1  BY ONLY <1>3
    <3> QED  BY <1>4, <3>1, <3>2, <3>3, <3>4, <3>5
  <2> QED  BY <2>1, <2>2, <2>3, <2>4
<1>8. NeverTwice'
  <2>1. ASSUME NEW h \in HandIds, NEW u \in Workers, NEW v \in Workers
        PROVE  (/\ Held(v, h) \/ Buffered(v, h) => ~Queued(h)
                /\ Held(u, h) => ~Buffered(v, h)
                /\ Held(u, h) /\ Held(v, h) => u = v
                /\ Buffered(u, h) /\ Buffered(v, h) => u = v)'
    <3>1. /\ Held(v, h) \/ Buffered(v, h) => ~Queued(h)
          /\ Held(w, h) => ~Queued(h)
          /\ Held(u, h) => ~Buffered(v, h)
          /\ Held(w, h) => ~Buffered(v, h) /\ ~Buffered(u, h)
          /\ Held(u, h) /\ Held(v, h) => u = v
          /\ Held(w, h) /\ Held(v, h) => w = v
          /\ Held(w, h) /\ Held(u, h) => w = u
          /\ Held(u, h) => ~Buffered(w, h)
          /\ Buffered(u, h) /\ Buffered(v, h) => u = v
      BY <1>1 DEF NeverTwice
    <3> QED  BY <1>7, <3>1
  <2>2. ASSUME NEW v \in Workers
        PROVE  \A k, l \in 1..Len(buffer'[v]) : buffer'[v][k] = buffer'[v][l] => k = l
    <3>1. CASE v # w
      BY <1>1, <1>2, <3>1 DEF NeverTwice
    <3>2. CASE v = w
      <4>1. \A k \in 1..Len(b) : b[k] # g
        <5>1. Held(w, g)  BY <1>3, <1>7
        <5>2. ~Buffered(w, g)  BY <1>1, <1>3, <5>1 DEF NeverTwice
        <5> QED  BY <5>2 DEF Buffered, b
      <4>2. \A k, l \in 1..Len(b) : b[k] = b[l] => k = l
        BY <1>1 DEF NeverTwice, b
      <4> QED  BY <1>3, <1>4, <3>2, <4>1, <4>2
    <3> QED  BY <3>1, <3>2
  <2> QED  BY <1>1, <2>1, <2>2 DEF NeverTwice
<1>9. OnlyDistinct'
  BY <1>1, <1>3, <1>7 DEF OnlyDistinct
<1>10. SettledSlots'
  <2>1. ASSUME NEW h \in Distinct
        PROVE  Pending(h)' <=> Pending(h)
    BY <1>7, CostAssumption DEF Pending
  <2>2. tmpCost' = tmpCost  OBVIOUS
  <2> QED  BY <1>1, <2>1, <2>2 DEF SettledSlots, Entry
<1> QED
  BY <1>1, <1>5, <1>6, <1>8, <1>9, <1>10 DEF IInv, FileLoops, TableComplete

------------------------------------------------------------------------------
(* After the join no hand is pending: the table is full. *)
LEMMA OpenFileInv ==
  ASSUME IInv, OpenFile
  PROVE  IInv'
<1> USE DEF OpenFile
<1>1. /\ NeverTwice /\ OnlyDistinct /\ SettledSlots /\ TypeOK
      /\ q = <<>> /\ \A w \in Workers : buffer[w] = <<>> /\ tmpCost # None
      /\ \E w \in Workers : TRUE
  BY CostAssumption DEF IInv, ThreadsOfPhase
<1>2. tmpCost \in [Slots -> Entries]  BY <1>1 DEF TypeOK
<1>3. ASSUME NEW h \in Distinct
      PROVE  ~Pending(h)
  <2>1. ~Queued(h)  BY <1>1 DEF Queued
  <2>2. ASSUME NEW w \in Workers
        PROVE  ~Held(w, h) /\ ~Buffered(w, h)
    BY <1>1 DEF Held, Buffered
  <2> QED  BY <2>1, <2>2 DEF Pending
<1>4. ASSUME NEW x \in Slots
      PROVE  tmpCost[x] = Full[x]
  <2>1. Entry(x) = tmpCost[x]  BY <1>1 DEF Entry
  <2>2. CASE \E h \in Distinct : HandForCost[h] = x
    <3>1. PICK h \in Distinct : HandForCost[h] = x  BY <2>2
    <3>2. Entry(x) = Cost[x]  BY <1>1, <1>3, <3>1 DEF SettledSlots
    <3> QED  BY <2>1, <2>2, <3>2 DEF Full
  <2>3. CASE \A h \in Distinct : HandForCost[h] # x
    BY <1>1, <2>1, <2>3 DEF SettledSlots, Full
  <2> QED  BY <2>2, <2>3
<1>5. tmpCost = Full
  BY <1>2, <1>4, FullType
<1>6. TypeOK'  BY DEF IInv, TypeOK, Phases
<1>7. ThreadsOfPhase'  BY <1>1 DEF IInv, ThreadsOfPhase
<1>8. FileLoops'
  <2>1. file = <<>> /\ Len(file) = 0 /\ Least(0, MaxHand) = 0
    BY CostAssumption DEF IInv, FileLoops, Least
  <2> QED  BY <2>1 DEF FileLoops
<1> QED  BY <1>5, <1>6, <1>7, <1>8 DEF IInv, TableComplete, Full

(* The batches written so far are a prefix of the table. *)
LEMMA WriteSomeInv ==
  ASSUME IInv, WriteSome
  PROVE  IInv'
<1> DEFINE need == Least(MaxHand - at, WriteBatch)
           part == [k \in 1..need |-> tmpCost[at + k - 1]]
<1>1. /\ tmpCost = Full /\ at \in Nat /\ file \in Seq(Entries)
      /\ Len(file) = at
      /\ \A k \in 1..Len(file) : file[k] = Full[k - 1]
      /\ file' = file \o part
  BY CostAssumption DEF WriteSome, IInv, TypeOK, FileLoops, TableComplete, Least
<1>2. /\ need \in Nat /\ need <= MaxHand - at
      /\ at + need = Least(at + WriteBatch, MaxHand)
  BY <1>1, CostAssumption DEF Least, WriteSome
<1> HIDE DEF need
<1>3. ASSUME NEW k \in 1..need
      PROVE  /\ at + k - 1 \in Slots
             /\ part[k] = Full[at + k - 1] /\ part[k] \in Entries
  <2>1. at + k - 1 \in Slots
    <3>1. at \in Nat /\ MaxHand \in Nat  BY <1>1, CostAssumption
    <3> QED  BY <1>2, <3>1 DEF Slots
  <2>2. part[k] = Full[at + k - 1]  BY <1>1
  <2> QED  BY <2>1, <2>2, FullType
<1>4. part \in Seq(Entries) /\ Len(part) = need
  <2>1. part \in [1..need -> Entries]  BY <1>3
  <2> QED  BY <1>2, <2>1
<1> HIDE DEF part
<1>5. /\ file' \in Seq(Entries) /\ Len(file') = at + need
      /\ \A k \in 1..at : file'[k] = file[k]
      /\ \A k \in at + 1..at + need : file'[k] = part[k - at]
  <2>1. file \in Seq(Entries) /\ part \in Seq(Entries) /\ file' = file \o part
        /\ Len(file) = at /\ Len(part) = need /\ at \in Nat /\ need \in Nat
    BY <1>1, <1>2, <1>4
  <2>2. /\ file \o part \in Seq(Entries)
        /\ Len(file \o part) = Len(file) + Len(part)
        /\ \A k \in 1..Len(file) + Len(part) :
             (file \o part)[k] = IF k <= Len(file) THEN file[k] ELSE part[k - Len(file)]
    BY ONLY <2>1, Concat
  <2> QED  BY ONLY <2>1, <2>2
<1>6. ASSUME NEW k \in 1..Len(file')
      PROVE  file'[k] = Full[k - 1]
  <2>0. k \in Nat /\ 1 <= k /\ k <= at + need
    BY ONLY <1>1, <1>2, <1>5, k \in 1..Len(file')
  <2>1. CASE k <= at  BY <1>1, <1>5, <2>0, <2>1
  <2>2. CASE k > at
    <3>1. k - at \in 1..need /\ at + (k - at) - 1 = k - 1
      BY <1>1, <1>2, <2>0, <2>2
    <3>2. part[k - at] = Full[at + (k - at) - 1]  BY <1>3, <3>1
    <3>3. k \in at + 1..at + need  BY <1>1, <1>2, <2>0, <2>2
    <3> QED  BY <1>5, <3>1, <3>2, <3>3
  <2> QED  BY <1>1, <2>0, <2>1, <2>2
<1>7. TypeOK'
  BY <1>1, <1>5, CostAssumption DEF WriteSome, IInv, TypeOK
<1>8. FileLoops'
  BY <1>2, <1>5, <1>6 DEF WriteSome, FileLoops, Full
<1>9. ThreadsOfPhase'  BY DEF WriteSome, IInv, ThreadsOfPhase
<1> QED  BY <1>1, <1>7, <1>8, <1>9 DEF WriteSome, IInv, TableComplete, Full

LEMMA CloseFileInv ==
  ASSUME IInv, CloseFile
  PROVE  IInv'
<1> USE DEF CloseFile
<1>1. /\ tmpCost = Full /\ Len(file) = MaxHand
      /\ \A k \in 1..Len(file) : file[k] = Full[k - 1]
  BY CostAssumption DEF IInv, TypeOK, FileLoops, TableComplete, Least
<1>2. \A x \in Slots : file[x + 1] = Full[x]
  <2> SUFFICES ASSUME NEW x \in Slots
               PROVE  file[x + 1] = Full[x]
    OBVIOUS
  <2>1. x + 1 \in 1..Len(file) /\ (x + 1) - 1 = x
    BY <1>1, CostAssumption DEF Slots
  <2> QED  BY <1>1, <2>1
<1>3. TypeOK'  BY DEF IInv, TypeOK, Phases
<1>4. ThreadsOfPhase'  BY DEF IInv, ThreadsOfPhase
<1> QED  BY <1>1, <1>2, <1>3, <1>4 DEF IInv, TableComplete, FileLoops, Full

LEMMA StartLoadInv ==
  ASSUME IInv, StartLoad
  PROVE  IInv'
<1> USE DEF StartLoad
<1>1. Len(file) = MaxHand /\ \A x \in Slots : file[x + 1] = Full[x]
  BY DEF IInv, TableComplete
<1>2. tmpCost' \in [Slots -> Entries]  BY DEF Entries
<1>3. TypeOK'  BY <1>2 DEF IInv, TypeOK, Phases
<1>4. ThreadsOfPhase'  BY DEF IInv, ThreadsOfPhase
<1>5. \A x \in Slots : ~(x < at' * ReadBatch)
  BY CostAssumption DEF Slots
<1> QED
  BY <1>1, <1>2, <1>3, <1>4, <1>5 DEF IInv, TableComplete, FileLoops, Full

(* The batches read so far are a prefix of the file. *)
LEMMA ReadSomeInv ==
  ASSUME IInv, ReadSome
  PROVE  IInv'
<1> DEFINE from == at * ReadBatch
           nx == Least(ReadBatch, MaxHand - from)
<1>1. /\ \A x \in Slots : file[x + 1] = Full[x]
      /\ tmpCost \in [Slots -> Entries] /\ at \in Nat /\ Len(file) = MaxHand
      /\ \A x \in Slots : x < from => tmpCost[x] = Full[x]
  BY DEF ReadSome, IInv, TypeOK, TableComplete, FileLoops
<1>2. from \in Nat /\ at' * ReadBatch = from + ReadBatch /\ at' \in Nat
  <2>1. at \in Nat /\ ReadBatch \in Nat /\ at' = at + 1
    BY CostAssumption DEF ReadSome, IInv, TypeOK
  <2>2. at * ReadBatch \in Nat /\ (at + 1) * ReadBatch = at * ReadBatch + ReadBatch
    BY ONLY <2>1
  <2> QED  BY <2>1, <2>2
<1>3. tmpCost' = [x \in Slots |-> IF from <= x /\ x < from + nx
                                    THEN file[x + 1] ELSE tmpCost[x]]
  BY DEF ReadSome
<1> HIDE DEF from
<1>4. ASSUME NEW x \in Slots
      PROVE  /\ tmpCost'[x] \in Entries
             /\ x < from + ReadBatch => tmpCost'[x] = Full[x]
  <2>1. x \in Nat /\ x < MaxHand  BY CostAssumption DEF Slots
  <2>2. Full[x] \in Entries  BY FullType
  <2>3. from <= x /\ x < from + ReadBatch => x < from + nx
    BY <1>2, <2>1, CostAssumption DEF Least
  <2> QED  BY <1>1, <1>2, <1>3, <2>1, <2>2, <2>3
<1>5. tmpCost' \in [Slots -> Entries]  BY <1>3, <1>4
<1>6. TypeOK'  BY <1>2, <1>5 DEF ReadSome, IInv, TypeOK
<1>7. ThreadsOfPhase'  BY DEF ReadSome, IInv, ThreadsOfPhase
<1> QED
  BY <1>1, <1>2, <1>4, <1>5, <1>6, <1>7 DEF ReadSome, IInv, TableComplete, FileLoops, Full

(* The batches cover the table. *)
LEMMA EndLoadInv ==
  ASSUME IInv, EndLoad
  PROVE  IInv'
<1> USE DEF EndLoad
<1>1. /\ tmpCost \in [Slots -> Entries] /\ at \in Nat
      /\ \A x \in Slots : x < at * ReadBatch => tmpCost[x] = Full[x]
      /\ Len(file) = MaxHand /\ \A x \in Slots : file[x + 1] = Full[x]
  BY DEF IInv, TypeOK, TableComplete, FileLoops
<1>2. MaxHand <= at * ReadBatch
  <2> DEFINE m == MaxHand + ReadBatch - 1
  <2>1. m \in Int /\ ReadBatch \in Nat \ {0}  BY CostAssumption
  <2>2. /\ Batches \in Int /\ m % ReadBatch \in 0..ReadBatch - 1
        /\ m = ReadBatch * Batches + (m % ReadBatch)
    BY <2>1, DivMod DEF Batches
  <2>3. Batches * ReadBatch = ReadBatch * Batches /\ Batches * ReadBatch \in Int
    BY <2>1, <2>2
  <2>4. MaxHand <= Batches * ReadBatch
    BY <2>1, <2>2, <2>3, CostAssumption
  <2>5. CASE at = Batches  BY <2>4, <2>5
  <2>6. CASE Batches < at
    <3>1. Batches * ReadBatch + ReadBatch <= at * ReadBatch
      BY <1>1, <2>1, <2>2, <2>6, MultipleStep
    <3>2. at * ReadBatch \in Int  BY <1>1, <2>1
    <3> QED  BY <2>1, <2>3, <2>4, <3>1, <3>2, CostAssumption
  <2> QED  BY <1>1, <2>2, <2>5, <2>6
<1>3. ASSUME NEW x \in Slots
      PROVE  tmpCost[x] = Full[x]
  <2>1. at * ReadBatch \in Int  BY <1>1, CostAssumption
  <2>2. x < at * ReadBatch  BY <1>2, <2>1, CostAssumption DEF Slots
  <2> QED  BY <1>1, <2>2
<1>4. tmpCost = Full  BY <1>1, <1>3, FullType
<1>5. TypeOK'  BY DEF IInv, TypeOK, Phases
<1>6. ThreadsOfPhase'  BY DEF IInv, ThreadsOfPhase
<1> QED  BY <1>1, <1>4, <1>5, <1>6 DEF IInv, TableComplete, FileLoops, Full

------------------------------------------------------------------------------
LEMMA StutterInv ==
  ASSUME IInv, UNCHANGED vars
  PROVE  IInv'
<1> USE DEF vars
<1>1. TypeOK' /\ ThreadsOfPhase'  BY DEF IInv, TypeOK, ThreadsOfPhase
<1>2. phase = "cost" => NeverTwice' /\ OnlyDistinct'
  BY DEF IInv, NeverTwice, OnlyDistinct, Held, Buffered, Queued
<1>3. phase = "cost" => SettledSlots'
  BY DEF IInv, SettledSlots, Entry, Pending, Held, Buffered, Queued
<1>4. FileLoops' /\ TableComplete'
  BY DEF IInv, FileLoops, TableComplete, Full
<1> QED  BY <1>1, <1>2, <1>3, <1>4 DEF IInv

LEMMA NextInv == IInv /\ [Next]_vars => IInv'
<1> SUFFICES ASSUME IInv, [Next]_vars
             PROVE  IInv'
  OBVIOUS
<1>1. CASE MainThread
  BY <1>1, StartCostInv, OpenFileInv, WriteSomeInv, CloseFileInv, StartLoadInv,
     ReadSomeInv, EndLoadInv DEF MainThread
<1>2. ASSUME NEW w \in Workers, Worker(w)
      PROVE  IInv'
  BY <1>2, GetInv, FlushInv, SkipInv, RateInv, DrainInv DEF Worker
<1>3. CASE Ready  BY <1>3, StutterInv DEF Ready
<1>4. CASE UNCHANGED vars  BY <1>4, StutterInv
<1> QED  BY <1>1, <1>2, <1>3, <1>4 DEF Next

(* The invariant of the table. *)
THEOREM TableInvariant == Spec => []IInv
BY InitInv, NextInv, PTL DEF Spec

(* The type invariant of the table. *)
THEOREM TypeCorrect == Spec => []TypeOK
BY TableInvariant, PTL DEF IInv

LEMMA FreshOfInv == IInv => SlotsFresh
<1> SUFFICES ASSUME IInv, NEW w \in Workers, NEW k \in 1..Len(buffer[w])
             PROVE  LET x == HandForCost[buffer[w][k]]
                    IN  /\ tmpCost = None \/ tmpCost[x] = Unset
                        /\ \A l \in 1..Len(buffer[w]) :
                             HandForCost[buffer[w][l]] = x => l = k
  BY DEF SlotsFresh
<1>1. /\ buffer[w] \in Seq(HandIds) /\ buffer[w] # <<>>
      /\ \A l \in 1..Len(buffer[w]) : buffer[w][l] \in HandIds
  BY DEF IInv, TypeOK
<1>2. phase = "cost" /\ NeverTwice /\ OnlyDistinct /\ SettledSlots
  BY <1>1 DEF IInv, ThreadsOfPhase
<1>3. Buffered(w, buffer[w][k]) /\ buffer[w][k] \in Distinct
  BY <1>1, <1>2 DEF Buffered, OnlyDistinct
<1>4. Entry(HandForCost[buffer[w][k]]) = Unset
  BY <1>2, <1>3 DEF SettledSlots, Pending
<1>5. \A l \in 1..Len(buffer[w]) :
        HandForCost[buffer[w][l]] = HandForCost[buffer[w][k]] => l = k
  BY <1>1, <1>2, CostAssumption DEF NeverTwice
<1> QED  BY <1>4, <1>5 DEF Entry

(* The assertion of pushCosts never fails. *)
THEOREM AssertionHolds == Spec => []SlotsFresh
BY FreshOfInv, TableInvariant, PTL

(* The reserved memory is enough. *)
THEOREM BufferIsBounded == Spec => []BufferBounded
<1>1. IInv => BufferBounded  BY DEF IInv, ThreadsOfPhase, BufferBounded
<1> QED  BY <1>1, TableInvariant, PTL

(* The computed, the stored and the loaded table are complete. *)
THEOREM TableIsComplete == Spec => []TableComplete
BY TableInvariant, PTL DEF IInv

(* No push touches an entry that is set. *)
THEOREM EntriesAreFinal == Spec => EntriesFinal
<1> DEFINE Final == phase = "cost" /\ tmpCost # None =>
                      /\ tmpCost' # None
                      /\ \A x \in Slots : tmpCost[x] # Unset => tmpCost'[x] = tmpCost[x]
<1>1. IInv /\ IInv' /\ [Next]_vars => [Final]_vars
  <2> SUFFICES ASSUME IInv, IInv', Next, phase = "cost", tmpCost # None
               PROVE  /\ tmpCost' # None
                      /\ \A x \in Slots : tmpCost[x] # Unset => tmpCost'[x] = tmpCost[x]
    BY DEF vars
  <2>1. ASSUME NEW w \in Workers, PushCosts(w)
        PROVE  /\ tmpCost' # None
               /\ \A x \in Slots : tmpCost[x] # Unset => tmpCost'[x] = tmpCost[x]
    <3>1. tmpCost' # None
      <4>1. \A x \in Slots : (IF Pushed(w, x) THEN Cost[x] ELSE tmpCost[x]) \in Entries
        BY DEF IInv, TypeOK, Entries
      <4>2. tmpCost' \in [Slots -> Entries]  BY <2>1, <4>1 DEF PushCosts
      <4> QED  BY <4>2, CostAssumption
    <3>2. \A x \in Slots : Pushed(w, x) => tmpCost[x] = Unset
      BY FreshOfInv DEF SlotsFresh, Pushed
    <3> QED  BY <2>1, <3>1, <3>2 DEF PushCosts
  <2>2. CASE MainThread
    BY <2>2 DEF MainThread, StartCost, OpenFile, WriteSome, CloseFile, StartLoad,
                ReadSome, EndLoad
  <2>3. ASSUME NEW w \in Workers, Worker(w)
        PROVE  PushCosts(w) \/ tmpCost' = tmpCost
    BY <2>3 DEF Worker, Get, Flush, Skip, Rate, Drain
  <2>4. CASE Ready  BY <2>4 DEF Ready, vars
  <2> QED  BY <2>1, <2>2, <2>3, <2>4 DEF Next
<1> QED  BY <1>1, TableInvariant, PTL DEF Spec, EntriesFinal

(* How many steps worker w still takes at most: three for each hand that   *)
(* waits in the queue, and those for the hand and the buffer it has.       *)
OwnLeft(w) == CASE pc[w] = "joined" -> 0
                [] pc[w] = "drain" -> 1
                [] pc[w] = "get" -> 2
                [] pc[w] = "hand" -> IF Len(buffer[w]) = BufSize THEN 4 ELSE 3
WorkerLeft(w) == 3 * Len(q) + OwnLeft(w)

(* A worker's own steps bring its join nearer, and no step of another      *)
(* thread puts it off.                                                     *)
WorkersAdvance ==
  [][\A w \in Workers : phase = "cost" =>
       /\ WorkerLeft(w)' \in Nat
       /\ WorkerLeft(w)' <= WorkerLeft(w)
       /\ Worker(w) => WorkerLeft(w)' < WorkerLeft(w)]_vars

(* No round of the loops of dumpCost and loadCost leaves them where they   *)
(* were, and none is begun past the end.                                   *)
FileLoopsAdvance ==
  [][phase' = phase /\ phase \in {"dump", "load"} =>
       /\ at < IF phase = "dump" THEN MaxHand ELSE Batches
       /\ at' > at]_vars

(* The lengths that decide what a worker does next. *)
LEMMA QueueLengths ==
  ASSUME TypeOK
  PROVE  /\ Len(q) \in Nat
         /\ q # <<>> => Len(q) # 0 /\ Len(Tail(q)) = Len(q) - 1
<1>1. q \in Seq(HandIds) /\ Len(q) \in Nat  BY DEF TypeOK
<1> QED  BY <1>1, EmptySeq, HeadTailProperties

LEMMA OwnSteps ==
  ASSUME IInv, NEW w \in Workers, Worker(w)
  PROVE  /\ WorkerLeft(w)' \in Nat /\ WorkerLeft(w)' < WorkerLeft(w)
         /\ Len(q') \in Nat /\ Len(q') <= Len(q)
         /\ \A v \in Workers : v # w => OwnLeft(v)' = OwnLeft(v)
<1>1. /\ Len(q) \in Nat /\ pc[w] \in PCs
      /\ q # <<>> => Len(Tail(q)) \in Nat /\ Len(Tail(q)) = Len(q) - 1
      /\ pc \in [Workers -> PCs] /\ buffer \in [Workers -> Seq(HandIds)]
      /\ BufSize \in Nat \ {0}
  BY QueueLengths, CostAssumption DEF IInv, TypeOK
<1>2. CASE Get(w) /\ q = <<>>
  <2>1. pc[w] = "get" /\ pc' = [pc EXCEPT ![w] = "drain"] /\ q' = q /\ buffer' = buffer
    BY <1>2 DEF Get
  <2>2. OwnLeft(w) = 2 /\ OwnLeft(w)' = 1  BY <1>1, <2>1 DEF OwnLeft
  <2>3. \A v \in Workers : v # w => OwnLeft(v)' = OwnLeft(v)
    BY <1>1, <2>1 DEF OwnLeft
  <2> QED  BY <1>1, <2>1, <2>2, <2>3 DEF WorkerLeft
<1>3. CASE Get(w) /\ q # <<>>
  <2>1. /\ pc[w] = "get" /\ pc' = [pc EXCEPT ![w] = "hand"] /\ q' = Tail(q)
        /\ buffer' = buffer
    BY <1>3 DEF Get
  <2>2. OwnLeft(w) = 2 /\ OwnLeft(w)' \in {3, 4}  BY <1>1, <2>1 DEF OwnLeft
  <2>3. \A v \in Workers : v # w => OwnLeft(v)' = OwnLeft(v)
    BY <1>1, <2>1 DEF OwnLeft
  <2>4. Len(q') = Len(q) - 1 /\ Len(q') \in Nat  BY <1>1, <1>3, <2>1
  <2> QED  BY <1>1, <2>2, <2>3, <2>4 DEF WorkerLeft
<1>4. CASE Flush(w)
  <2>1. /\ pc[w] = "hand" /\ Len(buffer[w]) = BufSize /\ pc' = pc /\ q' = q
        /\ buffer' = [buffer EXCEPT ![w] = <<>>]
    BY <1>4 DEF Flush, PushCosts
  <2>2. Len(buffer'[w]) # BufSize  BY <1>1, <2>1
  <2>3. OwnLeft(w) = 4 /\ OwnLeft(w)' = 3  BY <2>1, <2>2 DEF OwnLeft
  <2>4. \A v \in Workers : v # w => OwnLeft(v)' = OwnLeft(v)
    BY <1>1, <2>1 DEF OwnLeft
  <2> QED  BY <1>1, <2>1, <2>3, <2>4 DEF WorkerLeft
<1>5. CASE Skip(w) \/ Rate(w)
  <2>1. /\ pc[w] = "hand" /\ Len(buffer[w]) # BufSize /\ q' = q
        /\ pc' = [pc EXCEPT ![w] = "get"]
        /\ \A v \in Workers : v # w => buffer'[v] = buffer[v]
    BY <1>1, <1>5 DEF Skip, Rate
  <2>2. OwnLeft(w) = 3 /\ OwnLeft(w)' = 2  BY <1>1, <2>1 DEF OwnLeft
  <2>3. \A v \in Workers : v # w => OwnLeft(v)' = OwnLeft(v)
    BY <1>1, <2>1 DEF OwnLeft
  <2> QED  BY <1>1, <2>1, <2>2, <2>3 DEF WorkerLeft
<1>6. CASE Drain(w)
  <2>1. /\ pc[w] = "drain" /\ q' = q /\ pc' = [pc EXCEPT ![w] = "joined"]
        /\ \A v \in Workers : v # w => buffer'[v] = buffer[v]
    BY <1>1, <1>6 DEF Drain, PushCosts
  <2>2. OwnLeft(w) = 1 /\ OwnLeft(w)' = 0  BY <1>1, <2>1 DEF OwnLeft
  <2>3. \A v \in Workers : v # w => OwnLeft(v)' = OwnLeft(v)
    BY <1>1, <2>1 DEF OwnLeft
  <2> QED  BY <1>1, <2>1, <2>2, <2>3 DEF WorkerLeft
<1> QED  BY <1>2, <1>3, <1>4, <1>5, <1>6 DEF Worker

LEMMA OwnLeftType ==
  ASSUME IInv, NEW w \in Workers
  PROVE  OwnLeft(w) \in Nat /\ Len(q) \in Nat
<1>1. pc[w] \in PCs  BY DEF IInv, TypeOK
<1> QED  BY <1>1, QueueLengths DEF OwnLeft, PCs, IInv

(* Each worker reaches its join in a number of own steps that is bounded   *)
(* from the start, whatever the others do.                                 *)
THEOREM WorkersAlwaysAdvance == Spec => WorkersAdvance
<1>1. IInv /\ [Next]_vars =>
        [\A w \in Workers : phase = "cost" =>
           /\ WorkerLeft(w)' \in Nat
           /\ WorkerLeft(w)' <= WorkerLeft(w)
           /\ Worker(w) => WorkerLeft(w)' < WorkerLeft(w)]_vars
  <2> SUFFICES ASSUME IInv, Next, phase = "cost", NEW w \in Workers
               PROVE  /\ WorkerLeft(w)' \in Nat
                      /\ WorkerLeft(w)' <= WorkerLeft(w)
                      /\ Worker(w) => WorkerLeft(w)' < WorkerLeft(w)
    BY DEF vars
  <2>1. CASE Worker(w)
    <3>1. WorkerLeft(w) \in Nat  BY OwnLeftType DEF WorkerLeft
    <3> QED  BY <2>1, <3>1, OwnSteps
  <2>2. CASE ~Worker(w)
    <3>1. OwnLeft(w) \in Nat /\ Len(q) \in Nat  BY OwnLeftType
    <3>2. /\ OwnLeft(w)' = OwnLeft(w)
          /\ Len(q') \in Nat /\ Len(q') <= Len(q)
      <4>1. CASE MainThread
        <5>1. pc' = pc /\ buffer' = buffer /\ q' = q
          BY <4>1 DEF MainThread, StartCost, OpenFile, WriteSome, CloseFile,
                      StartLoad, ReadSome, EndLoad
        <5> QED  BY <3>1, <5>1 DEF OwnLeft
      <4>2. ASSUME NEW v \in Workers, Worker(v)
            PROVE  /\ OwnLeft(w)' = OwnLeft(w)
                   /\ Len(q') \in Nat /\ Len(q') <= Len(q)
        BY <2>2, <4>2, OwnSteps
      <4>3. ~Ready  BY DEF Ready
      <4> QED  BY <4>1, <4>2, <4>3 DEF Next
    <3> QED  BY <2>2, <3>1, <3>2 DEF WorkerLeft
  <2> QED  BY <2>1, <2>2
<1> QED  BY <1>1, TableInvariant, PTL DEF Spec, WorkersAdvance

(* The file loops come to their ends. *)
THEOREM FilesAlwaysAdvance == Spec => FileLoopsAdvance
<1>1. IInv /\ [Next]_vars =>
        [phase' = phase /\ phase \in {"dump", "load"} =>
           /\ at < IF phase = "dump" THEN MaxHand ELSE Batches
           /\ at' > at]_vars
  <2> SUFFICES ASSUME IInv, Next, vars' # vars, phase \in {"dump", "load"}, phase' = phase
               PROVE  /\ at < IF phase = "dump" THEN MaxHand ELSE Batches
                      /\ at' > at
    OBVIOUS
  <2>1. at \in Nat /\ WriteBatch \in Nat \ {0}
    BY CostAssumption DEF IInv, TypeOK
  <2>2. \A w \in Workers : ~Worker(w)
    BY DEF IInv, ThreadsOfPhase, Worker, Get, Flush, Skip, Rate, Drain
  <2>3. ~Ready  BY DEF Ready
  <2>4. MainThread  BY <2>2, <2>3 DEF Next
  <2>5. (phase = "dump" /\ WriteSome) \/ (phase = "load" /\ ReadSome)
    BY <2>4 DEF MainThread, StartCost, OpenFile, WriteSome, CloseFile, StartLoad,
                ReadSome, EndLoad
  <2> QED  BY <2>1, <2>5 DEF WriteSome, ReadSome
<1> QED  BY <1>1, TableInvariant, PTL DEF Spec, FileLoopsAdvance

------------------------------------------------------------------------------
(* The category of a hand (HandCost), which the table holds.  For every    *)
(* number of cards, colours and values: the loops that run past the end of *)
(* the values take no hand for a straight that is none.                    *)

(* From the second value on, the values that pass the second loop rise by  *)
(* one: to turn from the king to the ace they would have to go down.       *)
LEMMA CircleRises ==
  ASSUME NEW v \in [Positions -> Values], Sorted(v), InCircle(v)
  PROVE  \A i \in 1..NHand - 2 : v[i] + 1 = v[i + 1]
<1> SUFFICES ASSUME NEW i \in 1..NHand - 2 PROVE v[i] + 1 = v[i + 1]
  OBVIOUS
<1>1. /\ i \in Positions /\ i + 1 \in Positions /\ i \in 0..NHand - 2
      /\ NVals \in Nat /\ NVals > 1
  BY RankAssumption DEF Positions
<1>2. v[i] \in 0..NVals - 1 /\ v[i + 1] \in 0..NVals - 1  BY <1>1 DEF Values
<1>3. (v[i] + 1) % NVals = v[i + 1] /\ v[i] <= v[i + 1]
  BY <1>1 DEF InCircle, Sorted
<1>4. CASE v[i] + 1 < NVals
  <2>1. v[i] + 1 \in 0..NVals - 1  BY <1>1, <1>2, <1>4
  <2>2. (0 * NVals + (v[i] + 1)) % NVals = v[i] + 1
    BY <1>1, <2>1, DivUnique
  <2> QED  BY <1>1, <1>2, <1>3, <2>2
<1>5. CASE v[i] + 1 = NVals
  <2>1. (1 * NVals + 0) % NVals = 0  BY <1>1, DivUnique
  <2> QED  BY <1>1, <1>2, <1>3, <1>5, <2>1
<1> QED  BY <1>1, <1>2, <1>4, <1>5

(* So the last value is that far above the second. *)
LEMMA LastOfCircle ==
  ASSUME NEW v \in [Positions -> Values], Sorted(v), InCircle(v)
  PROVE  v[NHand - 1] = v[1] + NHand - 2
<1> DEFINE S == {m \in 0..NHand - 2 : v[m + 1] = v[1] + m}
<1>1. NHand - 2 \in Nat /\ v[1] \in Int
  BY RankAssumption DEF Positions, Values
<1>2. 0 \in S  BY <1>1
<1>3. ASSUME NEW m \in 1..NHand - 2, m - 1 \in S PROVE m \in S
  <2>1. v[m] + 1 = v[m + 1]  BY CircleRises
  <2>2. v[m] = v[1] + (m - 1)  BY <1>3
  <2> QED  BY <1>1, <2>1, <2>2
<1> HIDE DEF S
<1>4. 0..NHand - 2 \subseteq S  BY <1>1, <1>2, <1>3, UpTo
<1>5. NHand - 2 \in S  BY <1>1, <1>4
<1> QED  BY <1>1, <1>5, RankAssumption DEF S

(* The comparison that closes the circle then only holds for the value     *)
(* below the second: NCards is a multiple of NVals.                        *)
LEMMA CircleIsSequence ==
  ASSUME NEW v \in [Positions -> Values], Sorted(v), InCircle(v)
  PROVE  InSequence(v)
<1> DEFINE g == NCards \div NVals
<1>1. /\ NVals \in Nat \ {0} /\ NVals > 1 /\ NHand \in Nat /\ NHand > 1
      /\ NCards \in Nat /\ NCards % NVals = 0
      /\ 0 \in Positions /\ 1 \in Positions
  BY RankAssumption DEF Positions
<1>2. g \in Int /\ NCards = NVals * g  BY <1>1, DivMod
<1> HIDE DEF g
<1>3. g * NVals = NCards /\ g * NVals \in Int  BY <1>1, <1>2
<1>4. v[0] \in 0..NVals - 1 /\ v[1] \in 0..NVals - 1 /\ v[0] <= v[1]
  BY <1>1 DEF Values, Sorted
<1>5. (g * NVals + (v[1] - 1)) % NVals = v[0]
  <2>1. (v[NHand - 1] + NCards - NHand + 1) % NVals = v[0]  BY DEF InCircle
  <2>2. v[NHand - 1] + NCards - NHand + 1 = g * NVals + (v[1] - 1)
    BY <1>1, <1>3, <1>4, LastOfCircle
  <2> QED  BY <2>1, <2>2
<1>6. v[0] + 1 = v[1]
  <2>1. CASE v[1] >= 1
    <3>1. v[1] - 1 \in 0..NVals - 1  BY <1>1, <1>4, <2>1
    <3>2. (g * NVals + (v[1] - 1)) % NVals = v[1] - 1
      BY <1>1, <1>2, <3>1, DivUnique
    <3> QED  BY <1>4, <1>5, <3>2
  <2>2. CASE v[1] = 0
    <3>1. (g - 1) * NVals + (NVals - 1) = g * NVals + (v[1] - 1)
      BY <1>1, <1>2, <2>2
    <3>2. ((g - 1) * NVals + (NVals - 1)) % NVals = NVals - 1
      BY <1>1, <1>2, DivUnique
    <3> QED  BY <1>1, <1>4, <1>5, <2>2, <3>1, <3>2
  <2> QED  BY <1>4, <2>1, <2>2
<1>7. ASSUME NEW i \in 0..NHand - 2 PROVE v[i] + 1 = v[i + 1]
  BY <1>1, <1>6, <1>7, CircleRises
<1> QED  BY <1>7 DEF InSequence

(* The return taken is one whose condition holds. *)
LEMMA FirstThatHolds ==
  ASSUME NEW s, NEW N \in Nat \ {0}, Len(s) = N, s[N].if
  PROVE  \E m \in 1..N : s[m].if /\ FirstThat(s) = s[m].then
<1> DEFINE I == {m \in 1..Len(s) : s[m].if}
           Before == {m \in 0..N : \A h \in 1..m : ~s[h].if}
<1>1. N \in I  OBVIOUS
<1>2. \E m \in I : \A h \in I : m <= h
  <2>1. SUFFICES ASSUME \A m \in I : \E h \in I : ~(m <= h) PROVE FALSE
    OBVIOUS
  <2>2. 0 \in Before  OBVIOUS
  <2>3. ASSUME NEW m \in 1..N, m - 1 \in Before PROVE m \in Before
    <3>1. m \notin I
      <4>1. ASSUME m \in I PROVE FALSE
        <5>1. PICK h \in I : ~(m <= h)  BY <2>1, <4>1
        <5>2. h \in 1..m - 1  BY <5>1
        <5> QED  BY <2>3, <5>1, <5>2
      <4> QED  BY <4>1
    <3>2. \A h \in 1..m : h = m \/ h \in 1..m - 1  OBVIOUS
    <3> QED  BY <2>3, <3>1, <3>2
  <2> HIDE DEF Before
  <2>4. 0..N \subseteq Before  BY <2>2, <2>3, UpTo
  <2>5. N \in Before /\ N \in 1..N  BY <2>4
  <2> QED  BY <2>5 DEF Before
<1>3. Min(I) \in I  BY <1>2 DEF Min
<1>4. SelectInSeq(s, LAMBDA e : e.if) = Min(I)
  BY <1>1 DEF SelectInSeq
<1>5. FirstThat(s) = s[Min(I)].then  BY <1>4 DEF FirstThat
<1> HIDE DEF I
<1>6. Min(I) \in 1..N /\ s[Min(I)].if  BY <1>3 DEF I
<1> QED  BY <1>5, <1>6

(* Each of the returns for a straight asks for one. *)
LEMMA StraightsAreStraight ==
  ASSUME NEW v \in [Positions -> Values], Sorted(v), NEW mem
  PROVE  /\ FirstThat(OneColour(v, mem)) \in {"Straight", "StraightFlush", "RoyalFlush"}
              => InSequence(v)
         /\ FirstThat(Colours(v, mem)) \in {"Straight", "StraightFlush", "RoyalFlush"}
              => InSequence(v)
<1>1. Straight(v, mem) => InSequence(v)  BY CircleIsSequence DEF Straight
<1> DEFINE r == OneColour(v, mem)
           c == Colours(v, mem)
<1>2. /\ Len(r) = 3 /\ r[3].if
      /\ r[1].if => Straight(v, mem)
      /\ r[2].if => Straight(v, mem)
      /\ r[3].then = "Flush"
  BY DEF OneColour
<1>3. /\ Len(c) = 7 /\ c[7].if
      /\ c[1].then = "Four" /\ c[2].then = "House"
      /\ c[3].if => Straight(v, mem)
      /\ c[4].then = "Three" /\ c[5].then = "TwoPairs" /\ c[6].then = "Jacks"
      /\ c[7].then = "Nothing"
  BY DEF Colours
<1> HIDE DEF r, c
<1>4. PICK m \in 1..3 : r[m].if /\ FirstThat(r) = r[m].then
  <2>1. 3 \in Nat \ {0}  OBVIOUS
  <2> QED  BY <1>2, <2>1, FirstThatHolds
<1>5. PICK h \in 1..7 : c[h].if /\ FirstThat(c) = c[h].then
  <2>1. 7 \in Nat \ {0}  OBVIOUS
  <2> QED  BY <1>3, <2>1, FirstThatHolds
<1>6. FirstThat(r) \in {"Straight", "StraightFlush", "RoyalFlush"} => InSequence(v)
  <2>1. m \in {1, 2, 3}  OBVIOUS
  <2> QED  BY <1>1, <1>2, <1>4, <2>1
<1>7. FirstThat(c) \in {"Straight", "StraightFlush", "RoyalFlush"} => InSequence(v)
  <2>1. h \in {1, 2, 3, 4, 5, 6, 7}  OBVIOUS
  <2> QED  BY <1>1, <1>3, <1>5, <2>1
<1> QED  BY <1>6, <1>7 DEF r, c

------------------------------------------------------------------------------
(* The groups of equal cards.  Counts stand for sets of positions, of which *)
(* a hand of five has room for two that hold more than one.                *)

(* How many positions hold a value is the size of a set of them. *)
With(v, x) == {i \in Positions : v[i] = x}

LEMMA WithFacts ==
  ASSUME NEW v, NEW x
  PROVE  /\ With(v, x) \subseteq Positions /\ IsFiniteSet(With(v, x))
         /\ IsFiniteSet(Positions) /\ Cardinality(Positions) = NHand
         /\ CntVals(v, x) = Cardinality(With(v, x))
         /\ CntVals(v, x) \in 0..NHand
<1>1. IsFiniteSet(Positions) /\ Cardinality(Positions) = NHand
  <2>1. NHand \in Int /\ NHand > 1 /\ 0 \in Int /\ NHand - 1 \in Int
    BY RankAssumption
  <2> QED  BY <2>1, FS_Interval DEF Positions
<1>2. With(v, x) \in SUBSET Positions  BY DEF With
<1>3. IsFiniteSet(With(v, x)) /\ Cardinality(With(v, x)) <= NHand
  BY <1>1, <1>2, FS_Subset
<1>4. Cardinality(With(v, x)) \in Nat  BY <1>3, FS_CardinalityType
<1>5. CntVals(v, x) = Cardinality(With(v, x))  BY DEF CntVals, With
<1> QED  BY <1>1, <1>2, <1>3, <1>4, <1>5, RankAssumption

(* A hand has no more places than those of two, or three, of its values. *)
LEMMA TwoCounts ==
  ASSUME NEW v, NEW x, NEW y, x # y
  PROVE  /\ CntVals(v, x) + CntVals(v, y) <= NHand
         /\ IsFiniteSet(With(v, x) \cup With(v, y))
         /\ Cardinality(With(v, x) \cup With(v, y)) = CntVals(v, x) + CntVals(v, y)
<1> DEFINE X == With(v, x)
           Y == With(v, y)
<1>1. /\ IsFiniteSet(X) /\ IsFiniteSet(Y) /\ IsFiniteSet(Positions)
      /\ Cardinality(X) = CntVals(v, x) /\ Cardinality(Y) = CntVals(v, y)
      /\ Cardinality(Positions) = NHand /\ X \cup Y \in SUBSET Positions
      /\ CntVals(v, x) \in Int /\ CntVals(v, y) \in Int
  BY WithFacts
<1>2. X \cap Y = {}  BY DEF With
<1> HIDE DEF X, Y
<1>3. /\ IsFiniteSet(X \cup Y)
      /\ Cardinality(X \cup Y) = Cardinality(X) + Cardinality(Y) - Cardinality(X \cap Y)
  BY <1>1, FS_Union
<1>4. Cardinality(X \cap Y) = 0  BY <1>2, FS_EmptySet
<1>5. Cardinality(X \cup Y) <= NHand  BY <1>1, FS_Subset
<1>6. Cardinality(X \cup Y) = CntVals(v, x) + CntVals(v, y)
  BY <1>1, <1>3, <1>4
<1> QED  BY <1>3, <1>5, <1>6 DEF X, Y

LEMMA ThreeCounts ==
  ASSUME NEW v, NEW x, NEW y, NEW z, x # y, x # z, y # z
  PROVE  CntVals(v, x) + CntVals(v, y) + CntVals(v, z) <= NHand
<1> DEFINE X == With(v, x) \cup With(v, y)
           Z == With(v, z)
<1>1. /\ IsFiniteSet(X) /\ Cardinality(X) = CntVals(v, x) + CntVals(v, y)
  BY TwoCounts
<1>2. /\ IsFiniteSet(Z) /\ IsFiniteSet(Positions)
      /\ Cardinality(Z) = CntVals(v, z)
      /\ Cardinality(Positions) = NHand /\ X \cup Z \in SUBSET Positions
      /\ CntVals(v, x) \in Int /\ CntVals(v, y) \in Int /\ CntVals(v, z) \in Int
  BY WithFacts
<1>3. X \cap Z = {}  BY DEF With
<1> HIDE DEF X, Z
<1>4. Cardinality(X \cup Z) = Cardinality(X) + Cardinality(Z) - Cardinality(X \cap Z)
  BY <1>1, <1>2, FS_Union
<1>5. Cardinality(X \cap Z) = 0  BY <1>3, FS_EmptySet
<1>6. Cardinality(X \cup Z) <= NHand  BY <1>2, FS_Subset
<1> QED  BY <1>1, <1>2, <1>4, <1>5, <1>6

(* A finite set has a part of every smaller size. *)
LEMMA PartOf ==
  ASSUME NEW S, IsFiniteSet(S), NEW m \in 0..Cardinality(S)
  PROVE  \E P \in SUBSET S : Cardinality(P) = m
<1> DEFINE N == Cardinality(S)
           T == {l \in 0..N : \E P \in SUBSET S : Cardinality(P) = N - l}
<1>1. N \in Nat  BY FS_CardinalityType
<1>2. 0 \in T  BY <1>1
<1>3. ASSUME NEW l \in 1..N, l - 1 \in T PROVE l \in T
  <2>1. PICK P \in SUBSET S : Cardinality(P) = N - (l - 1)  BY <1>3
  <2>2. IsFiniteSet(P) /\ Cardinality(P) # 0  BY <1>1, <2>1, FS_Subset
  <2>3. PICK x : x \in P  BY <2>2, FS_EmptySet
  <2>4. Cardinality(P \ {x}) = Cardinality(P) - 1  BY <2>2, <2>3, FS_RemoveElement
  <2>5. P \ {x} \in SUBSET S  OBVIOUS
  <2>6. Cardinality(P \ {x}) = N - l  BY <1>1, <2>1, <2>4
  <2> QED  BY <2>5, <2>6
<1> HIDE DEF T
<1>4. 0..N \subseteq T  BY <1>1, <1>2, <1>3, UpTo
<1>5. N - m \in T  BY <1>1, <1>4
<1>6. N - (N - m) = m  BY <1>1
<1> QED  BY <1>5, <1>6 DEF T

(* The rules' way to tell equal cards, by counts. *)
LEMMA AlikeCounts ==
  ASSUME NEW v \in [Positions -> Values], NEW m \in Nat \ {0}
  PROVE  Alike(v, m) <=> \E x \in Values : CntVals(v, x) >= m
<1>1. ASSUME Alike(v, m) PROVE \E x \in Values : CntVals(v, x) >= m
  <2>1. PICK P \in SUBSET Positions : Cardinality(P) = m /\ \A a, b \in P : v[a] = v[b]
    BY <1>1 DEF Alike
  <2>2. P # {}  BY <2>1, FS_EmptySet
  <2>3. PICK a : a \in P  BY <2>2
  <2>4. v[a] \in Values  BY <2>3
  <2>5. P \in SUBSET With(v, v[a])  BY <2>1, <2>3 DEF With
  <2>6. Cardinality(P) <= Cardinality(With(v, v[a]))
    BY <2>5, WithFacts, FS_Subset
  <2>7. CntVals(v, v[a]) >= m  BY <2>1, <2>6, WithFacts
  <2> QED  BY <2>4, <2>7
<1>2. ASSUME NEW x \in Values, CntVals(v, x) >= m PROVE Alike(v, m)
  <2>1. IsFiniteSet(With(v, x)) /\ m \in 0..Cardinality(With(v, x))
    BY <1>2, WithFacts
  <2>2. PICK P \in SUBSET With(v, x) : Cardinality(P) = m  BY <2>1, PartOf
  <2>3. P \in SUBSET Positions /\ \A a, b \in P : v[a] = v[b]  BY DEF With
  <2> QED  BY <2>2, <2>3 DEF Alike
<1> QED  BY <1>1, <1>2

LEMMA TwoGroupsCounts ==
  ASSUME NEW v \in [Positions -> Values], NEW m \in Nat \ {0}, NEW l \in Nat \ {0}
  PROVE  TwoGroups(v, m, l) <=>
           \E x, y \in Values : x # y /\ CntVals(v, x) >= m /\ CntVals(v, y) >= l
<1>1. ASSUME TwoGroups(v, m, l)
      PROVE  \E x, y \in Values : x # y /\ CntVals(v, x) >= m /\ CntVals(v, y) >= l
  <2>1. PICK P \in SUBSET Positions, Q \in SUBSET Positions :
              /\ Cardinality(P) = m /\ Cardinality(Q) = l
              /\ \A a, b \in P : v[a] = v[b]
              /\ \A a, b \in Q : v[a] = v[b]
              /\ \A a \in P, b \in Q : v[a] # v[b]
    BY <1>1 DEF TwoGroups
  <2>2. P # {} /\ Q # {}  BY <2>1, FS_EmptySet
  <2>3. PICK a, b : a \in P /\ b \in Q  BY <2>2
  <2>4. v[a] \in Values /\ v[b] \in Values /\ v[a] # v[b]  BY <2>1, <2>3
  <2>5. P \in SUBSET With(v, v[a]) /\ Q \in SUBSET With(v, v[b])
    BY <2>1, <2>3 DEF With
  <2>6. /\ Cardinality(P) <= Cardinality(With(v, v[a]))
        /\ Cardinality(Q) <= Cardinality(With(v, v[b]))
    BY <2>5, WithFacts, FS_Subset
  <2>7. CntVals(v, v[a]) >= m /\ CntVals(v, v[b]) >= l
    BY <2>1, <2>6, WithFacts
  <2> QED  BY <2>4, <2>7
<1>2. ASSUME NEW x \in Values, NEW y \in Values,
             x # y, CntVals(v, x) >= m, CntVals(v, y) >= l
      PROVE  TwoGroups(v, m, l)
  <2>1. /\ IsFiniteSet(With(v, x)) /\ m \in 0..Cardinality(With(v, x))
        /\ IsFiniteSet(With(v, y)) /\ l \in 0..Cardinality(With(v, y))
    BY <1>2, WithFacts
  <2>2. PICK P \in SUBSET With(v, x) : Cardinality(P) = m  BY <2>1, PartOf
  <2>3. PICK Q \in SUBSET With(v, y) : Cardinality(Q) = l  BY <2>1, PartOf
  <2>4. /\ P \in SUBSET Positions /\ \A a \in P : v[a] = x
        /\ Q \in SUBSET Positions /\ \A a \in Q : v[a] = y
    BY DEF With
  <2> QED  BY <1>2, <2>2, <2>3, <2>4 DEF TwoGroups
<1> QED  BY <1>1, <1>2

(* The counts of at most two values, the smaller first. *)
LEMMA RepeatSorts ==
  ASSUME NEW v
  PROVE  /\ MoreThanOnce(v) = {} => Repeat(v) = <<>>
         /\ \A x \in Values : MoreThanOnce(v) = {x} => Repeat(v) = <<CntVals(v, x)>>
         /\ \A x, y \in Values :
              MoreThanOnce(v) = {x, y} /\ x # y /\ CntVals(v, x) <= CntVals(v, y)
                => Repeat(v) = <<CntVals(v, x), CntVals(v, y)>>
<1> DEFINE InOrder(s) == \A i, j \in DOMAIN s : i <= j => CntVals(v, s[i]) <= CntVals(v, s[j])
           order == CHOOSE s \in Orders(v) : InOrder(s)
<1>1. Repeat(v) = [i \in DOMAIN order |-> CntVals(v, order[i])]
  BY DEF Repeat
<1>2. \A x : CntVals(v, x) \in Nat  BY WithFacts
<1>3. ASSUME MoreThanOnce(v) = {} PROVE Repeat(v) = <<>>
  <2>1. Cardinality(MoreThanOnce(v)) = 0  BY <1>3, FS_EmptySet
  <2>2. 1..0 = {}  OBVIOUS
  <2>3. <<>> \in Orders(v) /\ InOrder(<<>>)
    BY <1>3, <2>1, <2>2 DEF Orders, IsInjective
  <2>4. order \in Orders(v)  BY <2>3
  <2> HIDE DEF order
  <2>5. DOMAIN order = {}  BY <2>1, <2>2, <2>4 DEF Orders
  <2>6. Repeat(v) = [i \in {} |-> CntVals(v, order[i])]  BY <1>1, <2>5
  <2> QED  BY <2>6
<1>4. ASSUME NEW x \in Values, MoreThanOnce(v) = {x} PROVE Repeat(v) = <<CntVals(v, x)>>
  <2>1. Cardinality(MoreThanOnce(v)) = 1  BY <1>4, FS_Singleton
  <2>2. <<x>> \in Orders(v) /\ InOrder(<<x>>)
    BY <1>2, <1>4, <2>1 DEF Orders, IsInjective
  <2>3. order \in Orders(v)  BY <2>2
  <2> HIDE DEF order
  <2>4. DOMAIN order = 1..1 /\ order[1] = x
    <3>1. order \in [1..1 -> {x}]  BY <1>4, <2>1, <2>3 DEF Orders
    <3> QED  BY <3>1
  <2> QED  BY <1>1, <2>4
<1>5. ASSUME NEW x \in Values, NEW y \in Values, MoreThanOnce(v) = {x, y}, x # y,
             CntVals(v, x) <= CntVals(v, y)
      PROVE  Repeat(v) = <<CntVals(v, x), CntVals(v, y)>>
  <2>1. Cardinality(MoreThanOnce(v)) = 2
    <3>1. IsFiniteSet({x}) /\ Cardinality({x}) = 1  BY FS_Singleton
    <3>2. Cardinality({x} \cup {y}) = 1 + 1  BY <1>5, <3>1, FS_AddElement
    <3>3. {x} \cup {y} = {x, y}  OBVIOUS
    <3> QED  BY <1>5, <3>2, <3>3
  <2>2. <<x, y>> \in Orders(v)
    BY <1>5, <2>1 DEF Orders, IsInjective
  <2>3. InOrder(<<x, y>>)
    BY <1>2, <1>5
  <2>4. order \in Orders(v) /\ InOrder(order)  BY <2>2, <2>3
  <2> HIDE DEF order
  <2>5. /\ DOMAIN order = 1..2 /\ order[1] \in {x, y} /\ order[2] \in {x, y}
        /\ order[1] # order[2]
    <3>1. order \in [1..2 -> {x, y}] /\ IsInjective(order)
      BY <1>5, <2>1, <2>4 DEF Orders
    <3>2. \A i, j \in 1..2 : order[i] = order[j] => i = j
      BY <3>1 DEF IsInjective
    <3> QED  BY <3>1, <3>2
  <2>6. CntVals(v, order[1]) <= CntVals(v, order[2])
    BY <2>4, <2>5
  <2>7. CntVals(v, order[1]) = CntVals(v, x) /\ CntVals(v, order[2]) = CntVals(v, y)
    BY <1>2, <1>5, <2>5, <2>6
  <2> QED  BY <1>1, <2>5, <2>7
<1> QED  BY <1>3, <1>4, <1>5

(* Of five cards at most two values occur more than once. *)
LEMMA AtMostTwo ==
  ASSUME NEW v, NHand <= 5
  PROVE  \/ MoreThanOnce(v) = {}
         \/ \E x \in Values : MoreThanOnce(v) = {x}
         \/ \E x, y \in Values : /\ MoreThanOnce(v) = {x, y} /\ x # y
                                 /\ CntVals(v, x) <= CntVals(v, y)
<1> DEFINE R == MoreThanOnce(v)
<1>1. \A x : CntVals(v, x) \in Nat  BY WithFacts
<1>2. \A x \in R : x \in Values /\ CntVals(v, x) >= 2
  BY <1>1 DEF MoreThanOnce
<1> HIDE DEF R
<1>3. ASSUME NEW x \in R, NEW y \in R, NEW z \in R, x # y, x # z, y # z PROVE FALSE
  <2>1. CntVals(v, x) + CntVals(v, y) + CntVals(v, z) <= NHand
    BY <1>3, ThreeCounts
  <2> QED  BY <1>1, <1>2, <2>1, RankAssumption
<1>4. R = {} \/ (\E x \in R : R = {x}) \/ (\E x, y \in R : x # y /\ R = {x, y})
  <2> SUFFICES ASSUME R # {}, ~(\E x \in R : R = {x})
               PROVE  \E x, y \in R : x # y /\ R = {x, y}
    OBVIOUS
  <2>1. PICK x : x \in R  OBVIOUS
  <2>2. PICK y \in R : y # x  BY <2>1
  <2>3. R = {x, y}  BY <1>3, <2>1, <2>2
  <2> QED  BY <2>1, <2>2, <2>3
<1>5. ASSUME NEW x \in R, NEW y \in R, x # y, R = {x, y}
      PROVE  \E a, b \in Values : R = {a, b} /\ a # b /\ CntVals(v, a) <= CntVals(v, b)
  <2>1. CASE CntVals(v, x) <= CntVals(v, y)  BY <1>2, <1>5, <2>1
  <2>2. CASE CntVals(v, y) <= CntVals(v, x)
    <3>1. R = {y, x}  BY <1>5
    <3> QED  BY <1>2, <1>5, <2>2, <3>1
  <2> QED  BY <1>1, <2>1, <2>2
<1> QED  BY <1>2, <1>4, <1>5 DEF R

(* The return taken is the first whose condition holds. *)
LEMMA FirstThatIs ==
  ASSUME NEW s, NEW m \in 1..Len(s), Len(s) \in Nat, s[m].if, \A h \in 1..m - 1 : ~s[h].if
  PROVE  FirstThat(s) = s[m].then
<1> DEFINE I == {h \in 1..Len(s) : s[h].if}
<1>1. m \in I /\ \A h \in I : m <= h
  <2> SUFFICES ASSUME NEW h \in I PROVE m <= h
    OBVIOUS
  <2>1. h \notin 1..m - 1 /\ h \in Nat /\ h >= 1  OBVIOUS
  <2> QED  BY <2>1
<1>2. Min(I) = m
  <2>1. Min(I) \in I /\ \A h \in I : Min(I) <= h  BY <1>1 DEF Min
  <2>2. Min(I) <= m /\ m <= Min(I) /\ Min(I) \in Int  BY <1>1, <2>1
  <2> QED  BY <2>2
<1>3. SelectInSeq(s, LAMBDA e : e.if) = Min(I)
  BY <1>1 DEF SelectInSeq
<1> QED  BY <1>2, <1>3 DEF FirstThat

(* A hand out of sequence passes neither loop, so its category is that of  *)
(* its equal cards.                                                        *)
LEMMA CategoryOfGroups ==
  ASSUME NEW v \in [Positions -> Values], Sorted(v), ~InSequence(v), NEW mem,
         NHand <= 5, \A x \in Values : CntVals(v, x) <= 4
  PROVE  /\ FirstThat(OneColour(v, mem)) = "Flush"
         /\ FirstThat(Colours(v, mem)) =
              (IF Alike(v, 4) THEN "Four"
               ELSE IF TwoGroups(v, 3, 2) THEN "House"
               ELSE IF Alike(v, 3) THEN "Three"
               ELSE IF TwoGroups(v, 2, 2) THEN "TwoPairs"
               ELSE "Nothing")
<1> DEFINE f == OneColour(v, mem)
           c == Colours(v, mem)
           r == Repeat(v)
<1>1. ~Straight(v, mem)  BY CircleIsSequence DEF Straight
<1>2. /\ Len(f) = 3 /\ ~f[1].if /\ ~f[2].if /\ f[3].if /\ f[3].then = "Flush"
  BY <1>1 DEF OneColour
<1>3. /\ Len(c) = 7
      /\ c[1].if <=> r # <<>> /\ r[1] = 4
      /\ c[2].if <=> r = <<2, 3>>
      /\ ~c[3].if
      /\ c[4].if <=> r # <<>> /\ r[1] = 3
      /\ c[5].if <=> Len(r) = 2
      /\ ~c[6].if
      /\ c[7].if
  <2> USE DEF Colours
  <2>1. Len(c) = 7 /\ c[7].if  OBVIOUS
  <2>2. c[1].if <=> r # <<>> /\ r[1] = 4  OBVIOUS
  <2>3. c[2].if <=> r = <<2, 3>>  OBVIOUS
  <2>4. ~c[3].if  BY <1>1
  <2>5. c[4].if <=> r # <<>> /\ r[1] = 3  OBVIOUS
  <2>6. c[5].if <=> Len(r) = 2  OBVIOUS
  <2>7. ~c[6].if
    <3>1. Len(Repeats) = 0  BY DEF Repeats
    <3>2. c[6].if => Len(Repeats) = 1  OBVIOUS
    <3> QED  BY <3>1, <3>2
  <2> HIDE DEF c, r
  <2> QED  BY <2>1, <2>2, <2>3, <2>4, <2>5, <2>6, <2>7
<1>4. /\ c[1].then = "Four" /\ c[2].then = "House" /\ c[4].then = "Three"
      /\ c[5].then = "TwoPairs" /\ c[7].then = "Nothing"
  BY DEF Colours
<1> HIDE DEF f, c, r
<1>5. FirstThat(f) = "Flush"
  <2>1. \A h \in 1..3 - 1 : h = 1 \/ h = 2  OBVIOUS
  <2>2. \A h \in 1..3 - 1 : ~f[h].if  BY <1>2, <2>1
  <2>3. 3 \in 1..Len(f) /\ Len(f) \in Nat  BY <1>2
  <2> QED  BY <1>2, <2>2, <2>3, FirstThatIs
<1>6. /\ 1 \in 1..Len(c) /\ 2 \in 1..Len(c) /\ 4 \in 1..Len(c) /\ 5 \in 1..Len(c)
      /\ 7 \in 1..Len(c) /\ Len(c) \in Nat
      /\ \A h \in 1..1 - 1 : FALSE
      /\ \A h \in 1..2 - 1 : h = 1
      /\ \A h \in 1..4 - 1 : h = 1 \/ h = 2 \/ h = 3
      /\ \A h \in 1..5 - 1 : h = 1 \/ h = 2 \/ h = 3 \/ h = 4
      /\ \A h \in 1..7 - 1 : h = 1 \/ h = 2 \/ h = 3 \/ h = 4 \/ h = 5 \/ h = 6
  BY <1>3
<1>7. FirstThat(c) = IF r # <<>> /\ r[1] = 4 THEN "Four"
                     ELSE IF r = <<2, 3>> THEN "House"
                     ELSE IF r # <<>> /\ r[1] = 3 THEN "Three"
                     ELSE IF Len(r) = 2 THEN "TwoPairs"
                     ELSE "Nothing"
  <2>1. CASE r # <<>> /\ r[1] = 4
    <3>1. c[1].if /\ \A h \in 1..1 - 1 : ~c[h].if  BY <1>3, <1>6, <2>1
    <3>2. FirstThat(c) = c[1].then  BY <1>6, <3>1, FirstThatIs
    <3> QED  BY <1>4, <2>1, <3>2
  <2>2. CASE ~(r # <<>> /\ r[1] = 4) /\ r = <<2, 3>>
    <3>1. c[2].if /\ \A h \in 1..2 - 1 : ~c[h].if  BY <1>3, <1>6, <2>2
    <3>2. FirstThat(c) = c[2].then  BY <1>6, <3>1, FirstThatIs
    <3> QED  BY <1>4, <2>2, <3>2
  <2>3. CASE ~(r # <<>> /\ r[1] = 4) /\ r # <<2, 3>> /\ r # <<>> /\ r[1] = 3
    <3>1. c[4].if /\ \A h \in 1..4 - 1 : ~c[h].if  BY <1>3, <1>6, <2>3
    <3>2. FirstThat(c) = c[4].then  BY <1>6, <3>1, FirstThatIs
    <3> QED  BY <1>4, <2>3, <3>2
  <2>4. CASE /\ ~(r # <<>> /\ r[1] = 4) /\ r # <<2, 3>> /\ ~(r # <<>> /\ r[1] = 3)
             /\ Len(r) = 2
    <3>1. c[5].if /\ \A h \in 1..5 - 1 : ~c[h].if  BY <1>3, <1>6, <2>4
    <3>2. FirstThat(c) = c[5].then  BY <1>6, <3>1, FirstThatIs
    <3> QED  BY <1>4, <2>4, <3>2
  <2>5. CASE /\ ~(r # <<>> /\ r[1] = 4) /\ r # <<2, 3>> /\ ~(r # <<>> /\ r[1] = 3)
             /\ Len(r) # 2
    <3>1. c[7].if /\ \A h \in 1..7 - 1 : ~c[h].if  BY <1>3, <1>6, <2>5
    <3>2. FirstThat(c) = c[7].then  BY <1>6, <3>1, FirstThatIs
    <3> QED  BY <1>4, <2>5, <3>2
  <2> QED  BY <2>1, <2>2, <2>3, <2>4, <2>5
<1>8. \A x : CntVals(v, x) \in Nat  BY WithFacts
<1>9. \A x \in Values : x \in MoreThanOnce(v) <=> CntVals(v, x) >= 2
  BY <1>8 DEF MoreThanOnce
<1>10. /\ Alike(v, 4) <=> \E x \in Values : CntVals(v, x) >= 4
       /\ Alike(v, 3) <=> \E x \in Values : CntVals(v, x) >= 3
       /\ TwoGroups(v, 3, 2) <=>
            \E x, y \in Values : x # y /\ CntVals(v, x) >= 3 /\ CntVals(v, y) >= 2
       /\ TwoGroups(v, 2, 2) <=>
            \E x, y \in Values : x # y /\ CntVals(v, x) >= 2 /\ CntVals(v, y) >= 2
  <2>1. 2 \in Nat \ {0} /\ 3 \in Nat \ {0} /\ 4 \in Nat \ {0}  OBVIOUS
  <2> QED  BY <2>1, AlikeCounts, TwoGroupsCounts
<1>11. CASE MoreThanOnce(v) = {}
  <2>1. r = <<>> /\ Len(<<>>) = 0  BY <1>11, RepeatSorts DEF r
  <2>2. \A x \in Values : ~(CntVals(v, x) >= 2) /\ ~(CntVals(v, x) >= 3) /\ ~(CntVals(v, x) >= 4)
    BY <1>8, <1>9, <1>11
  <2>3. <<>> # <<2, 3>>  OBVIOUS
  <2> QED  BY <1>5, <1>7, <1>10, <2>1, <2>2, <2>3 DEF f, c
<1>12. CASE \E x \in Values : MoreThanOnce(v) = {x}
  <2>1. PICK x \in Values : MoreThanOnce(v) = {x}  BY <1>12
  <2>2. r = <<CntVals(v, x)>>  BY <2>1, RepeatSorts DEF r
  <2>3. r # <<>> /\ r # <<2, 3>> /\ Len(r) = 1 /\ r[1] = CntVals(v, x)  BY <2>2
  <2>4. CntVals(v, x) \in {2, 3, 4}  BY <1>8, <1>9, <2>1
  <2>5. \A y \in Values : y # x => /\ ~(CntVals(v, y) >= 2) /\ ~(CntVals(v, y) >= 3)
                                  /\ ~(CntVals(v, y) >= 4)
    BY <1>8, <1>9, <2>1
  <2>6. /\ Alike(v, 4) <=> CntVals(v, x) = 4
        /\ Alike(v, 3) <=> CntVals(v, x) \in {3, 4}
        /\ ~TwoGroups(v, 3, 2) /\ ~TwoGroups(v, 2, 2)
    BY <1>10, <2>4, <2>5
  <2> QED  BY <1>5, <1>7, <2>3, <2>4, <2>6 DEF f, c
<1>13. CASE \E x, y \in Values : /\ MoreThanOnce(v) = {x, y} /\ x # y
                                 /\ CntVals(v, x) <= CntVals(v, y)
  <2>1. PICK x \in Values, y \in Values : /\ MoreThanOnce(v) = {x, y} /\ x # y
                                         /\ CntVals(v, x) <= CntVals(v, y)
    BY <1>13
  <2>2. r = <<CntVals(v, x), CntVals(v, y)>>  BY <2>1, RepeatSorts DEF r
  <2>3. r # <<>> /\ Len(r) = 2 /\ r[1] = CntVals(v, x) /\ r[2] = CntVals(v, y)  BY <2>2
  <2>4. CntVals(v, x) + CntVals(v, y) <= 5
    <3>1. CntVals(v, x) + CntVals(v, y) <= NHand  BY <2>1, TwoCounts
    <3> QED  BY <1>8, <3>1, RankAssumption
  <2>5. CntVals(v, x) = 2 /\ CntVals(v, y) \in {2, 3}
    <3>1. x \in MoreThanOnce(v) /\ y \in MoreThanOnce(v)  BY <2>1
    <3>2. CntVals(v, x) >= 2 /\ CntVals(v, y) >= 2  BY <1>9, <3>1
    <3> QED  BY <1>8, <2>1, <2>4, <3>2
  <2>6. \A z \in Values : z # x /\ z # y => /\ ~(CntVals(v, z) >= 2) /\ ~(CntVals(v, z) >= 3)
                                           /\ ~(CntVals(v, z) >= 4)
    BY <1>8, <1>9, <2>1
  <2>7. /\ ~Alike(v, 4) /\ TwoGroups(v, 2, 2)
        /\ Alike(v, 3) <=> CntVals(v, y) = 3
        /\ TwoGroups(v, 3, 2) <=> CntVals(v, y) = 3
    BY <1>10, <2>1, <2>5, <2>6
  <2>8. r = <<2, 3>> <=> CntVals(v, y) = 3  BY <2>2, <2>5
  <2> QED  BY <1>5, <1>7, <2>3, <2>5, <2>7, <2>8 DEF f, c
<1> QED  BY <1>11, <1>12, <1>13, AtMostTwo

------------------------------------------------------------------------------
(* The inductive invariant of a call of getCostNoCache. *)
THEOREM RankInvariant == RankSpec => []RankInv
<1>1. RankInit => RankInv
  BY DEF RankInit, RankInv
<1>2. RankInv /\ [RankNext]_rankVars => RankInv'
  <2> SUFFICES ASSUME RankInv, [RankNext]_rankVars
               PROVE  RankInv'
    OBVIOUS
  <2>1. CASE GetCostNoCache
    <3>1. /\ vals' = vals /\ vals \in [Positions -> Values]
          /\ Sorted(vals) /\ Sorted(vals)' /\ Dealt(vals, suited)'
      BY <2>1 DEF GetCostNoCache, RankInv, Sorted, Dealt, CntVals
    <3>2. PICK mem \in Memory :
            cost' = FirstThat(IF suited THEN OneColour(vals, mem) ELSE Colours(vals, mem))
      BY <2>1 DEF GetCostNoCache
    <3>3. cost' \in {"Straight", "StraightFlush", "RoyalFlush"} => InSequence(vals)
      BY <3>1, <3>2, StraightsAreStraight
    <3>4. cost' \in {"Straight", "StraightFlush", "RoyalFlush"} => Run'
      BY <3>1, <3>3 DEF Run, InSequence
    <3> QED  BY <3>1, <3>4 DEF RankInv
  <2>2. CASE UNCHANGED rankVars
    BY <2>2 DEF RankInv, Run, InSequence, Sorted, Dealt, CntVals, rankVars
  <2> QED  BY <2>1, <2>2 DEF RankNext, Returned
<1> QED  BY <1>1, <1>2, PTL DEF RankSpec

(* A hand is rated as a straight only if it is one, whatever the memory    *)
(* behind its values holds.                                                *)
THEOREM OnlyStraightsAreRatedSo == RankSpec => []OnlyStraights
<1>1. RankInv => OnlyStraights  BY DEF RankInv, OnlyStraights
<1> QED  BY <1>1, RankInvariant, PTL

(* A hand of up to five cards of up to four colours that is no straight    *)
(* gets the category of its equal cards, or, with a pair of jacks or       *)
(* better, none above that.                                                *)
THEOREM GroupsAreRated ==
  ASSUME NHand <= 5, NSuits <= 4
  PROVE  RankSpec => []GroupsRated
<1>1. RankInit => GroupsRated
  BY DEF RankInit, GroupsRated
<1>2. RankInv /\ GroupsRated /\ [RankNext]_rankVars => GroupsRated'
  <2> SUFFICES ASSUME RankInv, GroupsRated, [RankNext]_rankVars
               PROVE  GroupsRated'
    OBVIOUS
  <2>1. CASE GetCostNoCache
    <3>1. /\ vals' = vals /\ suited' = suited /\ vals \in [Positions -> Values]
          /\ Sorted(vals) /\ Dealt(vals, suited)
      BY <2>1 DEF GetCostNoCache, RankInv
    <3>2. PICK mem \in Memory :
            cost' = FirstThat(IF suited THEN OneColour(vals, mem) ELSE Colours(vals, mem))
      BY <2>1 DEF GetCostNoCache
    <3>3. SUFFICES ASSUME ~InSequence(vals)
                   PROVE  cost' \in (IF suited THEN {"Flush"}
                                     ELSE IF Alike(vals, 4) THEN {"Four"}
                                     ELSE IF TwoGroups(vals, 3, 2) THEN {"House"}
                                     ELSE IF Alike(vals, 3) THEN {"Three"}
                                     ELSE IF TwoGroups(vals, 2, 2) THEN {"TwoPairs"}
                                     ELSE {"Nothing"})
      BY <3>1 DEF GroupsRated, Run, InSequence, Alike, TwoGroups, HighPair
    <3>4. \A x \in Values : CntVals(vals, x) <= 4
      <4>1. \A x \in Values : CntVals(vals, x) <= IF suited THEN 1 ELSE NSuits
        BY <3>1 DEF Dealt
      <4>2. NSuits \in Int /\ \A x : CntVals(vals, x) \in Int
        BY RankAssumption, WithFacts DEF NSuits
      <4> QED  BY <4>1, <4>2
    <3>5. CASE suited
      <4>1. cost' = "Flush"  BY <3>1, <3>2, <3>3, <3>4, <3>5, CategoryOfGroups
      <4> QED  BY <3>5, <4>1
    <3>6. CASE ~suited
      <4>1. cost' = FirstThat(Colours(vals, mem))  BY <3>2, <3>6
      <4>2. cost' = (IF Alike(vals, 4) THEN "Four"
                     ELSE IF TwoGroups(vals, 3, 2) THEN "House"
                     ELSE IF Alike(vals, 3) THEN "Three"
                     ELSE IF TwoGroups(vals, 2, 2) THEN "TwoPairs"
                     ELSE "Nothing")
        BY <3>1, <3>3, <3>4, <4>1, CategoryOfGroups
      <4> QED  BY <3>6, <4>2
    <3> QED  BY <3>5, <3>6
  <2>2. CASE UNCHANGED rankVars
    BY <2>2 DEF GroupsRated, Run, TenToAce, InSequence, Alike, TwoGroups, HighPair, rankVars
  <2> QED  BY <2>1, <2>2 DEF RankNext, Returned
<1> QED  BY <1>1, <1>2, RankInvariant, PTL DEF RankSpec
==============================================================================
