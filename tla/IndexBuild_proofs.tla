-------------------------- MODULE IndexBuild_proofs --------------------------
(***************************************************************************)
(* Proofs about IndexBuild: its inductive invariant, and that `solve init` *)
(* implements the safety part of IndexSpec, for any number of workers,     *)
(* seeds, passes and chunks and any assignment of keys to deals.  At the   *)
(* end, the proofs about ChunkIndex.                                       *)
(***************************************************************************)
EXTENDS IndexBuild, ChunkIndex, SharedLemmas, SequenceTheorems, FiniteSetTheorems, TLAPS

(* The sets a worker's address arithmetic stays in. *)
LEMMA Sizes ==
  /\ ChunkSize \in Nat \ {0} /\ ChunksPerPass \in Nat \ {0}
  /\ Seeds \subseteq Nat /\ Chunks \subseteq Nat /\ ChunkIds \subseteq Nat
  /\ NoDeals \in Deals
  /\ \A id : Exact(id) \in Deals
  /\ \A s \in Seeds : Low[s] \in Nat
  /\ \A p \in 0..NPass - 1 : p * ChunksPerPass \in Nat
  /\ \A p \in 0..NPass - 1 : p * ChunksPerPass * ChunkSize \in Nat
<1>1. NPass * ChunksPerPass * ChunkSize \in Nat
  BY IndexAssumption
<1>2. \A p \in 0..NPass - 1 : p * ChunksPerPass \in Nat
  BY IndexAssumption
<1> QED
  BY <1>1, <1>2, IndexAssumption
     DEF Seeds, Chunks, ChunkIds, NoDeals, Deals, Exact

(* The chunk number a worker computes within the slice is the chunk of the *)
(* key over all passes, and the slice test is that it lies in the slice.   *)
LEMMA KeyArithmetic ==
  ASSUME NEW s \in Seeds, passId \in 0..NPass - 1
  PROVE  /\ IsCurrentPass(s) => /\ GetChunkId(s) \in Chunks
                                /\ ChunkOf[s] = FirstId + GetChunkId(s)
         /\ \A c \in Chunks : ChunkOf[s] = FirstId + c
                              => IsCurrentPass(s) /\ GetChunkId(s) = c
<1> DEFINE L == FirstId * ChunkSize
           k == Low[s]
<1>1. /\ FirstId \in Nat /\ L \in Nat /\ k \in Nat
      /\ ChunksPerPass * ChunkSize \in Nat
      /\ LOW_KEY = L /\ HIGH_KEY = L + ChunksPerPass * ChunkSize
  BY Sizes, IndexAssumption DEF LOW_KEY, HIGH_KEY, FirstId
<1>2. ChunkOf[s] = k \div ChunkSize
  BY DEF ChunkOf
<1> HIDE DEF L, k
<1>3. ASSUME IsCurrentPass(s)
      PROVE  /\ GetChunkId(s) \in Chunks
             /\ ChunkOf[s] = FirstId + GetChunkId(s)
  <2> DEFINE g == (k - L) \div ChunkSize
             r == (k - L) % ChunkSize
  <2>1. k >= L /\ k < L + ChunksPerPass * ChunkSize /\ GetChunkId(s) = g
    BY <1>1, <1>3 DEF IsCurrentPass, GetChunkId, k
  <2>2. g \in Int /\ r \in 0..ChunkSize - 1 /\ k - L = ChunkSize * g + r
    <3>1. k - L \in Int  BY <1>1
    <3> QED  BY <3>1, DivMod, Sizes
  <2> HIDE DEF g, r
  <2>3. g * ChunkSize = ChunkSize * g /\ g * ChunkSize \in Int
    BY <2>2, IndexAssumption
  <2>4. 0 <= g
    <3>1. 0 * ChunkSize < g * ChunkSize + ChunkSize
      BY <1>1, <2>1, <2>2, <2>3, IndexAssumption
    <3> QED  BY <2>2, <3>1, MultipleOrder, IndexAssumption
  <2>5. g < ChunksPerPass
    <3>1. ASSUME ChunksPerPass <= g PROVE FALSE
      <4>1. g * ChunkSize < ChunksPerPass * ChunkSize
        BY <1>1, <2>1, <2>2, <2>3, IndexAssumption
      <4>2. CASE ChunksPerPass = g  BY <4>1, <4>2, <2>3
      <4>3. CASE ChunksPerPass < g
        <5>1. ChunksPerPass * ChunkSize + ChunkSize <= g * ChunkSize
          BY <4>3, <2>2, MultipleStep, IndexAssumption
        <5> QED  BY <5>1, <4>1, <2>3, <1>1, IndexAssumption
      <4> QED  BY <3>1, <4>2, <4>3, <2>2, IndexAssumption
    <3> QED  BY <3>1, <2>2, IndexAssumption
  <2>6. k = (FirstId + g) * ChunkSize + r
    BY <1>1, <2>2, <2>3, IndexAssumption DEF L
  <2>7. k \div ChunkSize = FirstId + g
    <3>1. FirstId + g \in Int  BY <1>1, <2>2
    <3> QED  BY <3>1, <2>6, <2>2, DivUnique, Sizes
  <2> QED  BY <2>1, <2>2, <2>4, <2>5, <2>7, <1>2, IndexAssumption DEF Chunks
<1>4. ASSUME NEW c \in Chunks, ChunkOf[s] = FirstId + c
      PROVE  IsCurrentPass(s) /\ GetChunkId(s) = c
  <2> DEFINE r == k % ChunkSize
  <2>1. r \in 0..ChunkSize - 1 /\ k = ChunkSize * (FirstId + c) + r
    <3>1. k \in Int  BY <1>1
    <3>2. r \in 0..ChunkSize - 1 /\ k = ChunkSize * (k \div ChunkSize) + r
      BY <3>1, DivMod, Sizes
    <3> QED  BY <3>2, <1>2, <1>4
  <2> HIDE DEF r
  <2>2. c \in Nat /\ c < ChunksPerPass /\ c * ChunkSize \in Nat
    BY IndexAssumption DEF Chunks
  <2>3. k = L + c * ChunkSize + r
    BY <2>1, <2>2, <1>1, IndexAssumption DEF L
  <2>4. c * ChunkSize + ChunkSize <= ChunksPerPass * ChunkSize
    BY <2>2, MultipleStep, IndexAssumption
  <2>5. IsCurrentPass(s)
    BY <1>1, <2>1, <2>2, <2>3, <2>4, IndexAssumption DEF IsCurrentPass, k
  <2>6. k - L = c * ChunkSize + r
    BY <2>3, <2>2, <2>1, <1>1, IndexAssumption
  <2>7. (k - L) \div ChunkSize = c
    <3>1. c \in Int /\ r \in 0..ChunkSize - 1  BY <2>1, <2>2
    <3>2. (c * ChunkSize + r) \div ChunkSize = c  BY ONLY <3>1, DivUnique, Sizes
    <3> QED  BY ONLY <3>2, <2>6
  <2> QED  BY <2>5, <2>7, <1>1 DEF GetChunkId, k
<1> QED  BY <1>3, <1>4

(* The block bases are naturals below MaxSeed, and the blocks tile Seeds.  *)
LEMMA Blocks ==
  /\ MaxSeed \div KeyChunk \in Nat
  /\ \A x \in 1..MaxSeed \div KeyChunk : (x - 1) * KeyChunk \in Nat
  /\ \A s \in Seeds : \E x \in 1..MaxSeed \div KeyChunk : s \in Block((x - 1) * KeyChunk)
  /\ \A s \in Seeds : \A x, y \in 1..MaxSeed \div KeyChunk :
       s \in Block((x - 1) * KeyChunk) /\ s \in Block((y - 1) * KeyChunk) => x = y
<1> DEFINE blocks == MaxSeed \div KeyChunk
<1>1. KeyChunk \in Nat \ {0} /\ MaxSeed \in Nat /\ MaxSeed % KeyChunk = 0
  BY IndexAssumption
<1>2. blocks \in Int /\ MaxSeed = KeyChunk * blocks
  BY <1>1, DivMod
<1> HIDE DEF blocks
<1>3. blocks * KeyChunk = MaxSeed
  BY <1>1, <1>2
<1>4. blocks \in Nat
  <2>1. 0 * KeyChunk < blocks * KeyChunk + KeyChunk  BY <1>1, <1>3
  <2> QED  BY <2>1, <1>1, <1>2, MultipleOrder
<1>5. ASSUME NEW x \in 1..blocks PROVE (x - 1) * KeyChunk \in Nat
  BY <1>1, <1>4
<1>6. ASSUME NEW s \in Seeds PROVE \E x \in 1..blocks : s \in Block((x - 1) * KeyChunk)
  <2> DEFINE g == s \div KeyChunk
             r == s % KeyChunk
  <2>1. s \in Int /\ 0 <= s /\ s < MaxSeed  BY <1>1 DEF Seeds
  <2>2. g \in Int /\ r \in 0..KeyChunk - 1 /\ s = KeyChunk * g + r
    BY <2>1, <1>1, DivMod
  <2> HIDE DEF g, r
  <2>3. g * KeyChunk = KeyChunk * g /\ g * KeyChunk \in Int
    BY <2>2, <1>1
  <2>4. 0 <= g
    <3>1. 0 * KeyChunk < g * KeyChunk + KeyChunk  BY <1>1, <2>1, <2>2, <2>3
    <3> QED  BY <3>1, <1>1, <2>2, MultipleOrder
  <2>5. g < blocks
    <3>1. ASSUME blocks <= g PROVE FALSE
      <4>1. g * KeyChunk < blocks * KeyChunk  BY <1>1, <1>3, <2>1, <2>2, <2>3
      <4>2. CASE blocks = g  BY <4>1, <4>2, <2>3
      <4>3. CASE blocks < g
        <5>1. blocks * KeyChunk + KeyChunk <= g * KeyChunk
          BY <4>3, <1>1, <1>4, <2>2, MultipleStep
        <5> QED  BY <5>1, <4>1, <1>1, <1>3, <2>3
      <4> QED  BY <3>1, <4>2, <4>3, <1>4, <2>2
    <3> QED  BY <3>1, <1>4, <2>2
  <2>6. g + 1 \in 1..blocks /\ (g + 1) - 1 = g
    BY <2>2, <2>4, <2>5, <1>4
  <2>7. s \in Block(g * KeyChunk)
    BY <2>1, <2>2, <2>3, <1>1 DEF Block
  <2> QED  BY <2>6, <2>7
<1>7. ASSUME NEW s \in Seeds, NEW x \in 1..blocks, NEW y \in 1..blocks,
             s \in Block((x - 1) * KeyChunk), s \in Block((y - 1) * KeyChunk)
      PROVE  x = y
  <2> DEFINE a == x - 1
             b == y - 1
  <2>1. a \in Int /\ b \in Int /\ x = a + 1 /\ y = b + 1  BY <1>4
  <2>2. s \in Block(a * KeyChunk) /\ s \in Block(b * KeyChunk)  BY <1>7
  <2> HIDE DEF a, b
  <2>3. a * KeyChunk \in Int /\ b * KeyChunk \in Int  BY <2>1, <1>1
  <2>4. a * KeyChunk < b * KeyChunk + KeyChunk /\ b * KeyChunk < a * KeyChunk + KeyChunk
    BY <2>2, <2>3, <1>1 DEF Block
  <2>5. a <= b /\ b <= a  BY <2>1, <2>4, <1>1, MultipleOrder
  <2> QED  BY <2>1, <2>5
<1> QED  BY <1>4, <1>5, <1>6, <1>7 DEF blocks

(* Chunk ids and chunk numbers within the slice correspond.                *)
LEMMA IdArithmetic ==
  ASSUME passId \in 0..NPass - 1
  PROVE  /\ FirstId \in Nat
         /\ \A id \in SliceIds : /\ id \in Nat
                                 /\ id % ChunksPerPass \in Chunks
                                 /\ id = FirstId + (id % ChunksPerPass)
         /\ \A c \in Chunks : FirstId + c \in SliceIds
         /\ \A id, jd \in SliceIds : id % ChunksPerPass = jd % ChunksPerPass => id = jd
<1>1. /\ ChunksPerPass \in Nat \ {0} /\ NPass \in Nat \ {0}
      /\ FirstId = passId * ChunksPerPass /\ FirstId \in Nat
      /\ passId \in Nat
  BY IndexAssumption DEF FirstId
<1>2. ASSUME NEW id \in SliceIds
      PROVE  /\ id \in Nat
             /\ id % ChunksPerPass \in Chunks
             /\ id = FirstId + (id % ChunksPerPass)
  <2> DEFINE r == id - FirstId
  <2>1. id \in Nat /\ r \in 0..ChunksPerPass - 1 /\ id = passId * ChunksPerPass + r
    BY <1>1 DEF SliceIds, ChunkIds
  <2> HIDE DEF r
  <2>2. id % ChunksPerPass = r
    BY <2>1, <1>1, DivUnique
  <2> QED  BY <2>1, <2>2, <1>1 DEF Chunks
<1>3. ASSUME NEW c \in Chunks PROVE FirstId + c \in SliceIds
  <2>1. (passId * ChunksPerPass) + ChunksPerPass <= NPass * ChunksPerPass
    BY <1>1, MultipleStep
  <2>2. NPass * ChunksPerPass \in Int  BY <1>1
  <2> QED  BY <2>1, <2>2, <1>1 DEF SliceIds, ChunkIds, Chunks
<1>4. ASSUME NEW id \in SliceIds, NEW jd \in SliceIds, id % ChunksPerPass = jd % ChunksPerPass
      PROVE id = jd
  BY <1>2, <1>4, <1>1 DEF Chunks
<1> QED  BY <1>1, <1>2, <1>3, <1>4

(* What Queue::get does to a worker, whichever stage it is in.             *)
LEMMA QueueGetTypes ==
  ASSUME TypeOK, NEW w \in Workers, NEW some \in PCs, NEW none \in PCs,
         QueueGet(w, some, none)
  PROVE  q' \in Seq(Nat) /\ pc' \in [Workers -> PCs] /\ item' \in [Workers -> Nat]
<1>1. CASE q = <<>>
  BY <1>1 DEF QueueGet, TypeOK
<1>2. CASE q # <<>>
  <2>1. Head(q) \in Nat /\ Tail(q) \in Seq(Nat)  BY <1>2 DEF TypeOK
  <2> QED  BY <1>2, <2>1 DEF QueueGet, TypeOK
<1> QED  BY <1>1, <1>2

LEMMA PushDataTypes ==
  ASSUME TypeOK, NEW w \in Workers, PushData(w)
  PROVE  /\ raw' \in [Chunks -> Deals]
         /\ buffer' \in [Workers -> Deals]
         /\ cursize' \in [Workers -> Nat]
<1>1. \A c \in Chunks, s \in Seeds : raw[c][s] \in Nat /\ buffer[w][s] \in Nat
  BY DEF TypeOK, Deals
<1>2. raw' \in [Chunks -> Deals]
  BY <1>1 DEF PushData, Deals
<1> QED  BY <1>2, Sizes DEF PushData, TypeOK

LEMMA PassChunkType ==
  ASSUME TypeOK, NEW w \in Workers
  PROVE  PassChunk(w) \in Chunks
<1>1. item[w] \in Int  BY DEF TypeOK
<1> QED  BY <1>1, Sizes, DivMod DEF PassChunk, Chunks

LEMMA InitType == Init => TypeOK
  BY Sizes, IndexAssumption DEF Init, TypeOK, Phases, PCs

LEMMA NextType == TypeOK /\ [Next]_vars => TypeOK'
<1> SUFFICES ASSUME TypeOK, [Next]_vars PROVE TypeOK'
  OBVIOUS
<1>1. CASE StartStage1
  <2>1. q' \in Seq(Nat)
    <3>1. [x \in 1..MaxSeed \div KeyChunk |-> (x - 1) * KeyChunk] \in Seq(Nat)
      BY Blocks
    <3> QED  BY <3>1, <1>1, ConcatProperties DEF StartStage1, TypeOK
  <2> QED  BY <1>1, <2>1, Sizes DEF StartStage1, TypeOK, Phases, PCs
<1>2. CASE StartStage2
  <2>1. q' \in Seq(Nat)
    <3>1. /\ ChunksPerPass \in Nat
          /\ \A x \in 1..ChunksPerPass : passId * ChunksPerPass + x - 1 \in Nat
      <4>1. passId * ChunksPerPass \in Nat  BY Sizes DEF TypeOK
      <4> QED  BY <4>1, Sizes
    <3>2. [x \in 1..ChunksPerPass |-> passId * ChunksPerPass + x - 1] \in Seq(Nat)
      BY <3>1
    <3> QED  BY <3>2, <1>2, ConcatProperties DEF StartStage2, TypeOK
  <2> QED  BY <1>2, <2>1 DEF StartStage2, TypeOK, Phases, PCs, chunks
<1>3. CASE EndPass
  BY <1>3, IndexAssumption DEF EndPass, TypeOK, Phases, worker, chunks
<1>4. ASSUME NEW w \in Workers, Stage1(w) PROVE TypeOK'
  <2>1. CASE Get1(w)
    BY <2>1, QueueGetTypes DEF Get1, TypeOK, PCs, chunks
  <2>2. CASE Flush(w)
    BY <2>2, PushDataTypes DEF Flush, TypeOK
  <2>3. CASE Fill(w)
    <3>1. buffer' \in [Workers -> Deals]
      <4>1. \A s \in Seeds : buffer[w][s] \in Nat  BY DEF TypeOK, Deals
      <4> QED  BY <2>3, <4>1 DEF Fill, TypeOK, Deals
    <3> QED  BY <2>3, <3>1, IndexAssumption DEF Fill, TypeOK, PCs, chunks
  <2>4. CASE Drain(w)
    BY <2>4, PushDataTypes DEF Drain, TypeOK, PCs
  <2> QED  BY <1>4, <2>1, <2>2, <2>3, <2>4 DEF Stage1
<1>5. ASSUME NEW w \in Workers, Stage2(w) PROVE TypeOK'
  <2>1. CASE Get2(w)
    BY <2>1, QueueGetTypes DEF Get2, TypeOK, PCs, chunks
  <2>2. CASE Transform(w)
    BY <2>2, PassChunkType, Sizes DEF Transform, TypeOK, PCs
  <2>3. CASE Dump(w)
    BY <2>3, PassChunkType DEF Dump, TypeOK, PCs, chunks
  <2> QED  BY <1>5, <2>1, <2>2, <2>3 DEF Stage2
<1>6. CASE UNCHANGED vars
  BY <1>6 DEF vars, worker, chunks, TypeOK
<1> QED  BY <1>1, <1>2, <1>3, <1>4, <1>5, <1>6 DEF Next, MainThread, Exited

(* Every variable of the index build keeps its type.                       *)
THEOREM TypeCorrect == Spec => []TypeOK
  BY InitType, NextType, PTL DEF Spec

------------------------------------------------------------------------------
(* The inductive invariant, one lemma per action.                          *)

LEMMA InitIInv == Init => IInv
<1> SUFFICES ASSUME Init PROVE IInv
  OBVIOUS
<1>1. TypeOK /\ ExactlyOnce /\ ChunksOfSlice /\ ChunksEmptied
  BY InitType DEF Init, ExactlyOnce, ChunksOfSlice, ChunksEmptied
<1>2. ThreadsOfPhase
  <2>1. 0 % KeyChunk = 0
    <3>1. KeyChunk \in Nat \ {0} /\ 0 \in 0..KeyChunk - 1 /\ 0 * KeyChunk + 0 = 0
      BY IndexAssumption
    <3> QED  BY <3>1, DivUnique
  <2>2. 0 <= BufferSize  BY IndexAssumption
  <2>3. \A w \in Workers : /\ pc[w] = "joined" /\ buffer[w] = NoDeals /\ cursize[w] = 0
                          /\ phase = "rebase" /\ q = <<>>
    BY DEF Init
  <2> QED  BY <2>1, <2>2, <2>3 DEF ThreadsOfPhase
<1>3. FilesOfPasses
  <2>1. FirstId = 0  BY Sizes DEF Init, FirstId
  <2> QED  BY <2>1, Sizes DEF Init, FilesOfPasses
<1> QED  BY <1>1, <1>2, <1>3 DEF IInv

LEMMA StartStage1IInv ==
  ASSUME IInv, TypeOK', StartStage1 PROVE IInv'
<1>1. /\ phase = "rebase" /\ phase' = "stage1" /\ passId' = passId
      /\ raw' = raw /\ disk' = disk /\ FirstId' = FirstId
  BY DEF StartStage1, FirstId
<1>2. q = <<>>
  BY <1>1, IndexAssumption DEF IInv, ThreadsOfPhase
<1>3. q' = [x \in 1..MaxSeed \div KeyChunk |-> (x - 1) * KeyChunk]
  <2>1. [x \in 1..MaxSeed \div KeyChunk |-> (x - 1) * KeyChunk] \in Seq(Nat)
    BY Blocks
  <2> QED  BY <1>2, <2>1, ConcatEmptySeq DEF StartStage1
<1>4. ThreadsOfPhase'
  BY <1>1, IndexAssumption DEF StartStage1, IInv, ThreadsOfPhase
<1>5. ExactlyOnce'
  <2> SUFFICES ASSUME NEW s \in Seeds
               PROVE  NeverTwice(s)' /\ OnlyOwnChunk(s)' /\ NotLost(s)'
    BY DEF ExactlyOnce
  <2>1. Len(q') = MaxSeed \div KeyChunk
    BY <1>3, Blocks
  <2>2. Queued(s)' /\ \A x, y \in 1..Len(q') : s \in Block(q'[x]) /\ s \in Block(q'[y]) => x = y
    BY <1>3, <2>1, Blocks DEF Queued
  <2>3. \A w \in Workers : ~Shuffling(w, s)' /\ ~Buffered(w, s)' /\ buffer'[w][s] <= 1
    BY DEF StartStage1, Shuffling, Buffered, NoDeals
  <2>4. \A c \in Chunks : ~Stored(c, s)' /\ raw'[c][s] <= 1
    BY <1>1 DEF IInv, ChunksEmptied, Stored, NoDeals
  <2> QED  BY <2>2, <2>3, <2>4 DEF NeverTwice, OnlyOwnChunk, NotLost
<1>6. ChunksOfSlice' /\ ChunksEmptied'
  BY <1>1 DEF ChunksOfSlice, ChunksEmptied
<1>7. FilesOfPasses'
  BY <1>1 DEF IInv, FilesOfPasses
<1> QED  BY <1>4, <1>5, <1>6, <1>7 DEF IInv

(* When every worker has returned from stage 1, each chunk holds exactly   *)
(* its deals.                                                              *)
LEMMA Stage1Complete ==
  ASSUME IInv, phase = "stage1", AllJoined, NEW id \in SliceIds
  PROVE  raw[id % ChunksPerPass] = Exact(id)
<1> DEFINE c == id % ChunksPerPass
<1>1. c \in Chunks /\ id = FirstId + c /\ passId \in 0..NPass - 1 /\ FirstId \in Nat
  BY IdArithmetic DEF IInv, TypeOK
<1> HIDE DEF c
<1>2. q = <<>>
  BY IndexAssumption DEF AllJoined, IInv, ThreadsOfPhase
<1>3. ASSUME NEW s \in Seeds PROVE raw[c][s] = IF ChunkOf[s] = id THEN 1 ELSE 0
  <2>1. ~Queued(s)
    BY <1>2 DEF Queued
  <2>2. \A w \in Workers : ~Shuffling(w, s) /\ ~Buffered(w, s)
    <3>1. \A w \in Workers : pc[w] = "joined"  BY DEF AllJoined
    <3>2. \A w \in Workers : buffer[w] = NoDeals  BY <3>1 DEF IInv, ThreadsOfPhase
    <3>3. NoDeals[s] = 0  BY DEF NoDeals
    <3>4. ASSUME NEW w \in Workers PROVE ~Shuffling(w, s) /\ ~Buffered(w, s)
      <4>1. buffer[w][s] = 0  BY <3>2, <3>3
      <4> QED  BY <3>1, <4>1 DEF Shuffling, Buffered
    <3> QED  BY <3>4
  <2>3. NeverTwice(s) /\ OnlyOwnChunk(s) /\ NotLost(s)
    BY DEF IInv, ExactlyOnce
  <2>4. raw[c][s] \in Nat /\ raw[c][s] <= 1
    BY <1>1, <2>3 DEF NeverTwice, IInv, TypeOK, Deals
  <2>5. CASE ChunkOf[s] = id
    <3>1. IsCurrentPass(s) /\ GetChunkId(s) = c  BY <1>1, <2>5, KeyArithmetic
    <3>2. Stored(c, s)  BY <3>1, <2>1, <2>2, <2>3 DEF NotLost
    <3> QED  BY <3>2, <2>4, <2>5 DEF Stored
  <2>6. CASE ChunkOf[s] # id
    <3>1. ~Stored(c, s)
      <4>1. ASSUME Stored(c, s) PROVE FALSE
        <5>1. IsCurrentPass(s) /\ GetChunkId(s) = c  BY <1>1, <4>1, <2>3 DEF OnlyOwnChunk
        <5>2. ChunkOf[s] = FirstId + c  BY <1>1, <5>1, KeyArithmetic
        <5> QED  BY <5>2, <1>1, <2>6
      <4> QED  BY <4>1
    <3> QED  BY <3>1, <2>4, <2>6 DEF Stored
  <2> QED  BY <2>5, <2>6
<1>4. raw[c] \in Deals
  BY <1>1 DEF IInv, TypeOK
<1>5. raw[c] = Exact(id)
  BY <1>3, <1>4 DEF Exact, Deals
<1> QED  BY <1>5 DEF c

LEMMA StartStage2IInv ==
  ASSUME IInv, TypeOK', StartStage2 PROVE IInv'
<1>1. /\ phase = "stage1" /\ phase' = "stage2" /\ passId' = passId /\ AllJoined
      /\ UNCHANGED <<raw, index, disk>>
      /\ FirstId' = FirstId /\ SliceIds' = SliceIds
  BY DEF StartStage2, FirstId, SliceIds, chunks
<1>2. q = <<>>
  BY <1>1, IndexAssumption DEF AllJoined, IInv, ThreadsOfPhase
<1>3. FirstId = passId * ChunksPerPass /\ FirstId \in Nat /\ ChunksPerPass \in Nat
  BY IdArithmetic, Sizes DEF IInv, TypeOK, FirstId
<1>4. q' = [x \in 1..ChunksPerPass |-> FirstId + x - 1]
  <2>1. [x \in 1..ChunksPerPass |-> FirstId + x - 1] \in Seq(Nat)
    BY <1>3
  <2> QED  BY <1>2, <1>3, <2>1, ConcatEmptySeq DEF StartStage2
<1>5. Len(q') = ChunksPerPass /\ \A x \in 1..ChunksPerPass : q'[x] = FirstId + (x - 1)
  BY <1>3, <1>4
<1>6. \A w \in Workers : pc'[w] = "get2" /\ ~Sorting(w)'
  BY DEF StartStage2, Sorting
<1>7. ThreadsOfPhase'
  <2>1. \A w \in Workers : pc[w] = "joined"  BY <1>1 DEF AllJoined
  <2> QED  BY <1>1, <1>6, <2>1 DEF StartStage2, IInv, ThreadsOfPhase
<1>8. ExactlyOnce' /\ ChunksEmptied'
  BY <1>1 DEF ExactlyOnce, ChunksEmptied
<1>9. ChunksOfSlice'
  <2>1. ASSUME NEW id \in SliceIds PROVE Unsorted(id)'
    <3>1. raw[id % ChunksPerPass] = Exact(id)  BY <1>1, Stage1Complete
    <3>2. id \in ChunkIds /\ id >= FirstId  BY <1>3 DEF SliceIds, ChunkIds
    <3>3. disk[id] = None  BY <1>1, <3>2 DEF IInv, FilesOfPasses
    <3> QED  BY <3>1, <3>3, <1>1 DEF Unsorted
  <2>2. ASSUME NEW x \in 1..Len(q') PROVE q'[x] \in SliceIds
    <3>1. x - 1 \in Chunks /\ q'[x] = FirstId + (x - 1)  BY <1>3, <1>5 DEF Chunks
    <3> QED  BY <3>1, IdArithmetic DEF IInv, TypeOK
  <2>3. \A x, y \in 1..Len(q') : q'[x] = q'[y] => x = y
    BY <1>3, <1>5
  <2>4. ASSUME NEW id \in SliceIds PROVE \E x \in 1..Len(q') : q'[x] = id
    <3> DEFINE c == id % ChunksPerPass
    <3>1. c \in Chunks /\ id = FirstId + c  BY IdArithmetic DEF IInv, TypeOK
    <3> HIDE DEF c
    <3>2. c + 1 \in 1..Len(q') /\ q'[c + 1] = id  BY <3>1, <1>3, <1>5 DEF Chunks
    <3> QED  BY <3>2
  <2> QED  BY <1>1, <1>6, <2>1, <2>2, <2>3, <2>4
           DEF ChunksOfSlice, QueuedChunks, HeldChunks, OtherChunksWritten, Sorting
<1>10. FilesOfPasses'
  BY <1>1 DEF IInv, FilesOfPasses
<1> QED  BY <1>7, <1>8, <1>9, <1>10 DEF IInv

(* When every worker has returned from stage 2, the files of the slice are *)
(* written and its chunks are empty.                                       *)
LEMMA Stage2Complete ==
  ASSUME IInv, phase = "stage2", AllJoined
  PROVE  /\ \A id \in SliceIds : Written(id)
         /\ raw = [c \in Chunks |-> NoDeals]
         /\ q = <<>>
<1>1. q = <<>>
  BY IndexAssumption DEF AllJoined, IInv, ThreadsOfPhase
<1>2. \A id \in SliceIds : Written(id)
  BY <1>1 DEF AllJoined, Sorting, IInv, ChunksOfSlice, OtherChunksWritten
<1>3. ASSUME NEW c \in Chunks PROVE raw[c] = NoDeals
  <2>1. FirstId + c \in SliceIds  BY IdArithmetic DEF IInv, TypeOK
  <2>2. (FirstId + c) % ChunksPerPass = c
    <3> DEFINE d == (FirstId + c) % ChunksPerPass
    <3>1. d \in Chunks /\ FirstId + c = FirstId + d /\ FirstId \in Nat
      BY <2>1, IdArithmetic DEF IInv, TypeOK
    <3> HIDE DEF d
    <3>2. d = c  BY <3>1, Sizes
    <3> QED  BY <3>2 DEF d
  <2> QED  BY <2>1, <2>2, <1>2 DEF Written
<1>4. raw = [c \in Chunks |-> NoDeals]
  BY <1>3 DEF IInv, TypeOK
<1> QED  BY <1>1, <1>2, <1>4

LEMMA EndPassIInv ==
  ASSUME IInv, TypeOK', EndPass PROVE IInv'
<1>1. /\ phase = "stage2" /\ AllJoined
      /\ UNCHANGED <<q, pc, item, buffer, cursize, raw, index, disk>>
      /\ phase' \in {"rebase", "end"}
  BY DEF EndPass, worker, chunks
<1>2. /\ \A id \in SliceIds : Written(id)
      /\ raw = [c \in Chunks |-> NoDeals]
      /\ q = <<>>
  BY <1>1, Stage2Complete
<1>3. ThreadsOfPhase'
  <2>1. \A w \in Workers : pc[w] = "joined"  BY <1>1 DEF AllJoined
  <2> QED  BY <1>1, <1>2, <2>1 DEF IInv, ThreadsOfPhase
<1>4. ExactlyOnce' /\ ChunksOfSlice'
  BY <1>1 DEF ExactlyOnce, ChunksOfSlice
<1>5. ChunksEmptied'
  BY <1>1, <1>2 DEF ChunksEmptied
<1>6. FilesOfPasses'
  <2> SUFFICES ASSUME NEW id \in ChunkIds
               PROVE  /\ id < FirstId' \/ phase' = "end" => disk[id] = Exact(id)
                      /\ id >= FirstId' /\ phase' = "rebase" => disk[id] = None
    <3>1. ChunksPerPass \in Nat /\ ChunkIds \subseteq Nat /\ FirstId' \in Nat
      BY Sizes DEF TypeOK, FirstId
    <3>2. \A f \in Nat, id \in ChunkIds : id >= f + ChunksPerPass => id >= f
      BY <3>1
    <3>3. \A id \in ChunkIds : id >= FirstId' + ChunksPerPass => id >= FirstId'
      BY <3>1, <3>2
    <3> QED  BY <1>1, <3>3 DEF FilesOfPasses
  <2>1. FirstId \in Nat /\ ChunksPerPass \in Nat /\ id \in Nat /\ passId \in Nat
    BY Sizes, IdArithmetic DEF IInv, TypeOK
  <2>2. \/ phase' = "rebase" /\ passId' = passId + 1
        \/ phase' = "end" /\ passId' = passId /\ passId + 1 = NPass
    BY <1>1, IndexAssumption DEF EndPass, IInv, TypeOK
  <2>3. (passId + 1) * ChunksPerPass = FirstId + ChunksPerPass
    BY <2>1 DEF FirstId
  <2>4. ASSUME id < FirstId + ChunksPerPass PROVE disk[id] = Exact(id)
    <3>1. CASE id < FirstId  BY <3>1 DEF IInv, FilesOfPasses
    <3>2. CASE ~(id < FirstId)
      <4>1. id \in SliceIds  BY <2>1, <2>4, <3>2 DEF SliceIds
      <4> QED  BY <4>1, <1>2 DEF Written
    <3> QED  BY <3>1, <3>2
  <2>5. ASSUME id >= FirstId + ChunksPerPass PROVE disk[id] = None
    BY <1>1, <2>5 DEF IInv, FilesOfPasses
  <2>6. CASE phase' = "rebase" /\ passId' = passId + 1
    <3>1. FirstId' = FirstId + ChunksPerPass  BY <2>3, <2>6 DEF FirstId
    <3> QED  BY <3>1, <2>4, <2>5, <2>6
  <2>7. CASE phase' = "end" /\ passId' = passId /\ passId + 1 = NPass
    <3>1. id < FirstId + ChunksPerPass  BY <2>1, <2>3, <2>7 DEF ChunkIds
    <3> QED  BY <3>1, <2>4, <2>7
  <2> QED  BY <2>2, <2>6, <2>7
<1> QED  BY <1>3, <1>4, <1>5, <1>6 DEF IInv

(* A worker of stage 1 leaves the files and the invariants of the other    *)
(* phases alone.                                                           *)
LEMMA Stage1Frame ==
  ASSUME IInv, phase = "stage1", UNCHANGED <<phase, passId, disk>>
  PROVE  /\ ChunksOfSlice' /\ FilesOfPasses' /\ ChunksEmptied'
         /\ FirstId' = FirstId
         /\ \A s \in Seeds : /\ IsCurrentPass(s)' = IsCurrentPass(s)
                             /\ GetChunkId(s)' = GetChunkId(s)
<1>1. FirstId' = FirstId  BY DEF FirstId
<1>2. FilesOfPasses'  BY <1>1 DEF IInv, FilesOfPasses
<1>3. ChunksOfSlice' /\ ChunksEmptied'  BY DEF ChunksOfSlice, ChunksEmptied
<1>4. LOW_KEY' = LOW_KEY /\ HIGH_KEY' = HIGH_KEY  BY DEF LOW_KEY, HIGH_KEY
<1>5. \A s \in Seeds : /\ IsCurrentPass(s)' = IsCurrentPass(s)
                      /\ GetChunkId(s)' = GetChunkId(s)
  BY <1>4 DEF IsCurrentPass, GetChunkId
<1> QED  BY <1>1, <1>2, <1>3, <1>5

LEMMA Get1IInv ==
  ASSUME IInv, TypeOK', NEW w \in Workers, Get1(w) PROVE IInv'
<1>1. /\ pc[w] = "get1" /\ QueueGet(w, "fill", "drain")
      /\ UNCHANGED <<phase, passId, buffer, cursize, raw, index, disk>>
  BY DEF Get1, chunks
<1>2. phase = "stage1"
  BY <1>1 DEF IInv, TypeOK, Phases, ThreadsOfPhase
<1>3. ChunksOfSlice' /\ FilesOfPasses' /\ ChunksEmptied'
      /\ \A s \in Seeds : /\ IsCurrentPass(s)' = IsCurrentPass(s)
                          /\ GetChunkId(s)' = GetChunkId(s)
  BY <1>1, <1>2, Stage1Frame
<1>4. ThreadsOfPhase'
  <2>1. /\ (pc'[w] = "drain" /\ q = <<>> /\ q' = <<>>) \/ pc'[w] = "fill"
        /\ q = <<>> => q' = <<>>
        /\ \A v \in Workers : v # w => pc'[v] = pc[v]
    BY <1>1, <1>2 DEF QueueGet, IInv, TypeOK, ThreadsOfPhase
  <2> QED  BY <1>1, <1>2, <2>1 DEF IInv, ThreadsOfPhase
<1>5. ASSUME NEW s \in Seeds PROVE NeverTwice(s)' /\ OnlyOwnChunk(s)' /\ NotLost(s)'
  <2>0. NeverTwice(s) /\ OnlyOwnChunk(s) /\ NotLost(s)
    BY <1>2 DEF IInv, ExactlyOnce
  <2>1. OnlyOwnChunk(s)'
    BY <2>0, <1>1, <1>3 DEF OnlyOwnChunk, Stored
  <2>2. CASE q = <<>>
    <3>1. q' = q /\ pc' = [pc EXCEPT ![w] = "drain"] /\ item' = item
      BY <1>1, <2>2 DEF QueueGet
    <3>2. Queued(s)' = Queued(s)  BY <3>1 DEF Queued
    <3>3. \A v \in Workers : Shuffling(v, s)' = Shuffling(v, s)
      BY <3>1, <1>1 DEF IInv, TypeOK, Shuffling
    <3>4. \A v \in Workers : Buffered(v, s)' = Buffered(v, s)  BY <1>1 DEF Buffered
    <3>5. \A c \in Chunks : Stored(c, s)' = Stored(c, s)  BY <1>1 DEF Stored
    <3>6. NeverTwice(s)'
      BY <2>0, <3>1, <3>2, <3>3, <3>4, <3>5, <1>1 DEF NeverTwice
    <3>7. NotLost(s)'
      BY <2>0, <1>1, <1>3, <3>2, <3>3, <3>4, <3>5 DEF NotLost, Stored
    <3> QED  BY <2>1, <3>6, <3>7
  <2>3. CASE q # <<>>
    <3>1. q' = Tail(q) /\ pc' = [pc EXCEPT ![w] = "fill"] /\ item' = [item EXCEPT ![w] = Head(q)]
      BY <1>1, <2>3 DEF QueueGet
    <3>2. /\ Len(q) \in Nat /\ 1 \in 1..Len(q) /\ Head(q) = q[1]
          /\ Len(q') = Len(q) - 1 /\ \A x \in 1..Len(q') : x + 1 \in 1..Len(q) /\ q'[x] = q[x + 1]
      <4>1. q \in Seq(Nat)  BY DEF IInv, TypeOK
      <4> QED  BY ONLY <2>3, <3>1, <4>1
    <3>3. \A v \in Workers : Shuffling(v, s)' <=> Shuffling(v, s) \/ (v = w /\ s \in Block(q[1]))
      BY <3>1, <3>2, <1>1 DEF IInv, TypeOK, Shuffling
    <3>4. \A v \in Workers : Buffered(v, s)' = Buffered(v, s)  BY <1>1 DEF Buffered
    <3>5. \A c \in Chunks : Stored(c, s)' = Stored(c, s)  BY <1>1 DEF Stored
    <3>6. Queued(s)' => Queued(s)  BY <3>2 DEF Queued
    <3>7. s \in Block(q[1]) => Queued(s) /\ ~Queued(s)'
      <4>1. s \in Block(q[1]) => Queued(s)  BY <3>2 DEF Queued
      <4>2. ASSUME s \in Block(q[1]), NEW x \in 1..Len(q'), s \in Block(q'[x]) PROVE FALSE
        <5>1. x + 1 = 1  BY <4>2, <3>2, <2>0 DEF NeverTwice
        <5> QED  BY <5>1, <3>2
      <4> QED  BY <4>1, <4>2 DEF Queued
    <3>8. Queued(s) => Queued(s)' \/ s \in Block(q[1])
      <4>1. ASSUME NEW x \in 1..Len(q), s \in Block(q[x]), x # 1 PROVE Queued(s)'
        <5>1. x - 1 \in 1..Len(q') /\ q'[x - 1] = q[x]  BY <4>1, <3>2
        <5> QED  BY <5>1, <4>1 DEF Queued
      <4> QED  BY <4>1 DEF Queued
    <3>9. NeverTwice(s)'
      <4>1. \A x, y \in 1..Len(q') : s \in Block(q'[x]) /\ s \in Block(q'[y]) => x = y
        <5> SUFFICES ASSUME NEW x \in 1..Len(q'), NEW y \in 1..Len(q'),
                            s \in Block(q'[x]), s \in Block(q'[y])
                     PROVE  x = y
          OBVIOUS
        <5>1. x + 1 = y + 1  BY <3>2, <2>0 DEF NeverTwice
        <5> QED  BY <5>1
      <4> QED  BY <2>0, <4>1, <3>3, <3>4, <3>5, <3>6, <3>7, <1>1 DEF NeverTwice
    <3>10. NotLost(s)'
      BY <2>0, <1>1, <1>3, <3>3, <3>4, <3>5, <3>8 DEF NotLost, Stored
    <3> QED  BY <2>1, <3>9, <3>10
  <2> QED  BY <2>2, <2>3
<1> QED  BY <1>3, <1>4, <1>5 DEF IInv, ExactlyOnce

(* Pushing a buffer moves its deals of the slice to their chunks.          *)
LEMMA PushDataMoves ==
  ASSUME IInv, phase = "stage1", NEW w \in Workers, PushData(w),
         UNCHANGED <<phase, passId, q, item, disk>>,
         NEW s \in Seeds,
         \A v \in Workers : Shuffling(v, s)' = Shuffling(v, s)
  PROVE  NeverTwice(s)' /\ OnlyOwnChunk(s)' /\ NotLost(s)'
<1>0. NeverTwice(s) /\ OnlyOwnChunk(s) /\ NotLost(s)
  BY DEF IInv, ExactlyOnce
<1>1. /\ IsCurrentPass(s)' = IsCurrentPass(s) /\ GetChunkId(s)' = GetChunkId(s)
      /\ Queued(s)' = Queued(s)
  BY Stage1Frame DEF Queued
<1>2. /\ buffer'[w][s] = 0
      /\ \A v \in Workers : v # w => buffer'[v] = buffer[v]
      /\ \A v \in Workers : Buffered(v, s)' <=> Buffered(v, s) /\ v # w
  <2>1. NoDeals[s] = 0  BY DEF NoDeals
  <2> QED  BY <2>1 DEF PushData, IInv, TypeOK, Buffered
<1>3. /\ \A c \in Chunks : raw[c][s] \in Nat
      /\ buffer[w][s] \in Nat /\ buffer[w][s] <= 1
  BY <1>0 DEF NeverTwice, IInv, TypeOK, Deals
<1>4. \A c \in Chunks : raw'[c][s] = raw[c][s] + IF IsCurrentPass(s) /\ GetChunkId(s) = c
                                                   THEN buffer[w][s] ELSE 0
  BY DEF PushData
<1>5. \A c \in Chunks : Stored(c, s)' <=>
        Stored(c, s) \/ (Buffered(w, s) /\ IsCurrentPass(s) /\ GetChunkId(s) = c)
  BY <1>3, <1>4 DEF Stored, Buffered
<1>6. \A c \in Chunks : raw'[c][s] <= 1
  <2> SUFFICES ASSUME NEW c \in Chunks PROVE raw'[c][s] <= 1
    OBVIOUS
  <2>1. raw[c][s] <= 1  BY <1>0 DEF NeverTwice
  <2>2. buffer[w][s] > 0 => ~(raw[c][s] > 0)  BY <1>0 DEF NeverTwice, Stored, Buffered
  <2> QED  BY <2>1, <2>2, <1>3, <1>4
<1>7. \A v \in Workers : buffer'[v][s] <= 1
  BY <1>0, <1>2 DEF NeverTwice
<1>8. NeverTwice(s)'
  <2>1. \A x, y \in 1..Len(q') : s \in Block(q'[x]) /\ s \in Block(q'[y]) => x = y
    BY <1>0 DEF NeverTwice
  <2> QED  BY <1>0, <1>1, <1>2, <1>5, <1>6, <1>7, <2>1 DEF NeverTwice
<1>9. OnlyOwnChunk(s)'
  BY <1>0, <1>1, <1>5 DEF OnlyOwnChunk
<1>10. NotLost(s)'
  <2> SUFFICES ASSUME IsCurrentPass(s), ~Queued(s),
                      \A v \in Workers : ~Shuffling(v, s)' /\ ~Buffered(v, s)'
               PROVE  Stored(GetChunkId(s), s)'
    BY <1>1 DEF NotLost
  <2>1. GetChunkId(s) \in Chunks  BY KeyArithmetic DEF IInv, TypeOK
  <2>2. CASE Buffered(w, s)  BY <2>1, <2>2, <1>1, <1>5 DEF Stored
  <2>3. CASE ~Buffered(w, s)
    <3>1. \A v \in Workers : ~Shuffling(v, s) /\ ~Buffered(v, s)  BY <2>3, <1>2
    <3>2. Stored(GetChunkId(s), s)  BY <3>1, <1>0 DEF NotLost
    <3> QED  BY <3>2, <2>1, <1>1, <1>5 DEF Stored
  <2> QED  BY <2>2, <2>3
<1> QED  BY <1>8, <1>9, <1>10

LEMMA FlushIInv ==
  ASSUME IInv, TypeOK', NEW w \in Workers, Flush(w) \/ Drain(w) PROVE IInv'
<1>1. /\ pc[w] \in {"fill", "drain"} /\ PushData(w)
      /\ UNCHANGED <<phase, passId, q, item, index, disk>>
      /\ \/ pc' = pc /\ pc[w] = "fill"
         \/ pc[w] = "drain" /\ pc' = [pc EXCEPT ![w] = "joined"]
  BY DEF Flush, Drain
<1>2. phase = "stage1"
  BY <1>1 DEF IInv, TypeOK, Phases, ThreadsOfPhase
<1>3. ChunksOfSlice' /\ FilesOfPasses' /\ ChunksEmptied'
  BY <1>1, <1>2, Stage1Frame
<1>4. ThreadsOfPhase'
  <2>1. 0 <= BufferSize /\ 0 % KeyChunk = 0
    <3>1. KeyChunk \in Nat \ {0} /\ 0 \in 0..KeyChunk - 1 /\ 0 * KeyChunk + 0 = 0
      BY IndexAssumption
    <3> QED  BY <3>1, DivUnique, IndexAssumption
  <2>2. buffer'[w] = NoDeals /\ cursize'[w] = 0
        /\ \A v \in Workers : v # w => buffer'[v] = buffer[v] /\ cursize'[v] = cursize[v]
    BY <1>1 DEF PushData, IInv, TypeOK
  <2>3. ASSUME NEW v \in Workers, v # w PROVE pc'[v] = pc[v]
    BY <1>1, <2>3 DEF IInv, TypeOK
  <2>4. pc'[w] \in {"fill", "joined"} /\ (pc'[w] = "joined" => q = <<>>)
    BY <1>1, <1>2 DEF IInv, TypeOK, ThreadsOfPhase
  <2> QED  BY <1>1, <1>2, <2>1, <2>2, <2>3, <2>4 DEF IInv, ThreadsOfPhase
<1>5. ASSUME NEW s \in Seeds, NEW v \in Workers PROVE Shuffling(v, s)' = Shuffling(v, s)
  BY <1>1 DEF Shuffling, IInv, TypeOK
<1>6. ASSUME NEW s \in Seeds PROVE NeverTwice(s)' /\ OnlyOwnChunk(s)' /\ NotLost(s)'
  BY <1>1, <1>2, <1>5, PushDataMoves
<1> QED  BY <1>3, <1>4, <1>6 DEF IInv, ExactlyOnce

LEMMA FillIInv ==
  ASSUME IInv, TypeOK', NEW w \in Workers, Fill(w) PROVE IInv'
<1>1. /\ pc[w] = "fill" /\ cursize[w] # BufferSize
      /\ pc' = [pc EXCEPT ![w] = "get1"]
      /\ buffer' = [buffer EXCEPT ![w] = [s \in Seeds |->
                       buffer[w][s] + IF s \in Block(item[w]) THEN 1 ELSE 0]]
      /\ cursize' = [cursize EXCEPT ![w] = cursize[w] + KeyChunk]
      /\ UNCHANGED <<phase, passId, q, item, raw, index, disk>>
  BY DEF Fill, chunks
<1>2. phase = "stage1"
  BY <1>1 DEF IInv, TypeOK, Phases, ThreadsOfPhase
<1>3. ChunksOfSlice' /\ FilesOfPasses' /\ ChunksEmptied'
      /\ \A s \in Seeds : /\ IsCurrentPass(s)' = IsCurrentPass(s)
                          /\ GetChunkId(s)' = GetChunkId(s)
  BY <1>1, <1>2, Stage1Frame
<1>4. cursize[w] + KeyChunk <= BufferSize /\ (cursize[w] + KeyChunk) % KeyChunk = 0
  <2>1. /\ KeyChunk \in Nat \ {0} /\ BufferSize \in Nat /\ BufferSize % KeyChunk = 0
        /\ cursize[w] \in Nat /\ cursize[w] <= BufferSize /\ cursize[w] % KeyChunk = 0
    BY IndexAssumption DEF IInv, TypeOK, ThreadsOfPhase
  <2> QED  BY <2>1, <1>1, NextMultiple
<1>5. ThreadsOfPhase'
  <2>1. cursize'[w] = cursize[w] + KeyChunk /\ pc'[w] = "get1"
        /\ \A v \in Workers : v # w => /\ cursize'[v] = cursize[v]
                                      /\ buffer'[v] = buffer[v] /\ pc'[v] = pc[v]
    BY <1>1 DEF IInv, TypeOK
  <2> QED  BY <2>1, <1>1, <1>2, <1>4 DEF IInv, ThreadsOfPhase
<1>6. ASSUME NEW s \in Seeds PROVE NeverTwice(s)' /\ OnlyOwnChunk(s)' /\ NotLost(s)'
  <2>0. NeverTwice(s) /\ OnlyOwnChunk(s) /\ NotLost(s)
    BY <1>2 DEF IInv, ExactlyOnce
  <2>1. buffer[w][s] \in Nat  BY DEF IInv, TypeOK, Deals
  <2>2. /\ buffer'[w][s] = buffer[w][s] + IF s \in Block(item[w]) THEN 1 ELSE 0
        /\ \A v \in Workers : v # w => buffer'[v] = buffer[v]
    BY <1>1 DEF IInv, TypeOK
  <2>3. \A v \in Workers : Buffered(v, s)' <=> Buffered(v, s) \/ (v = w /\ Shuffling(w, s))
    BY <1>1, <2>1, <2>2 DEF Buffered, Shuffling
  <2>4. \A v \in Workers : Shuffling(v, s)' <=> Shuffling(v, s) /\ v # w
    BY <1>1 DEF Shuffling, IInv, TypeOK
  <2>5. Queued(s)' = Queued(s)  BY <1>1 DEF Queued
  <2>6. \A c \in Chunks : Stored(c, s)' = Stored(c, s)  BY <1>1 DEF Stored
  <2>7. \A v \in Workers : buffer'[v][s] <= 1
    <3>1. Shuffling(w, s) => ~(buffer[w][s] > 0)  BY <2>0 DEF NeverTwice, Buffered
    <3>2. s \in Block(item[w]) => Shuffling(w, s)  BY <1>1 DEF Shuffling
    <3> QED  BY <3>1, <3>2, <2>0, <2>1, <2>2 DEF NeverTwice
  <2>8. NeverTwice(s)'
    <3>1. /\ \A x, y \in 1..Len(q') : s \in Block(q'[x]) /\ s \in Block(q'[y]) => x = y
          /\ \A c \in Chunks : raw'[c][s] <= 1
      BY <2>0, <1>1 DEF NeverTwice
    <3> QED  BY <2>0, <2>3, <2>4, <2>5, <2>6, <2>7, <3>1 DEF NeverTwice
  <2>9. OnlyOwnChunk(s)'  BY <2>0, <2>6, <1>3 DEF OnlyOwnChunk
  <2>10. NotLost(s)'
    <3>1. Stored(GetChunkId(s), s)' = Stored(GetChunkId(s), s)  BY <1>1, <1>3 DEF Stored
    <3> QED  BY <2>0, <2>3, <2>4, <2>5, <3>1, <1>3 DEF NotLost
  <2> QED  BY <2>8, <2>9, <2>10
<1> QED  BY <1>3, <1>5, <1>6 DEF IInv, ExactlyOnce

(* A worker of stage 2 leaves the invariants of the other phases alone.    *)
LEMMA Stage2Frame ==
  ASSUME IInv, phase = "stage2", UNCHANGED <<phase, passId>>
  PROVE  /\ ExactlyOnce' /\ ChunksEmptied'
         /\ FirstId' = FirstId /\ SliceIds' = SliceIds
         /\ FirstId \in Nat /\ ChunksPerPass \in Nat
<1>1. FirstId' = FirstId  BY DEF FirstId
<1>2. SliceIds' = SliceIds  BY <1>1 DEF SliceIds
<1>3. ExactlyOnce' /\ ChunksEmptied'  BY DEF ExactlyOnce, ChunksEmptied
<1> QED  BY <1>1, <1>2, <1>3, IdArithmetic, Sizes DEF IInv, TypeOK

LEMMA Get2IInv ==
  ASSUME IInv, TypeOK', NEW w \in Workers, Get2(w) PROVE IInv'
<1>1. /\ pc[w] = "get2" /\ QueueGet(w, "transform", "joined")
      /\ UNCHANGED <<phase, passId, buffer, cursize, raw, index, disk>>
  BY DEF Get2, chunks
<1>2. phase = "stage2"
  BY <1>1 DEF IInv, TypeOK, Phases, ThreadsOfPhase
<1>3. /\ ExactlyOnce' /\ ChunksEmptied'
      /\ FirstId' = FirstId /\ SliceIds' = SliceIds
  BY <1>1, <1>2, Stage2Frame
<1>4. ThreadsOfPhase'
  BY <1>1, <1>2 DEF QueueGet, IInv, TypeOK, ThreadsOfPhase
<1>5. FilesOfPasses'
  BY <1>1, <1>3 DEF IInv, FilesOfPasses
<1>6. \A id : /\ Unsorted(id)' = Unsorted(id)
             /\ Sorted(id)' = Sorted(id)
             /\ Written(id)' = Written(id)
  BY <1>1 DEF Unsorted, Sorted, Written
<1>7. ChunksOfSlice'
  <2>1. CASE q = <<>>
    <3>1. q' = q /\ pc' = [pc EXCEPT ![w] = "joined"] /\ item' = item
      BY <1>1, <2>1 DEF QueueGet
    <3>2. \A v \in Workers : Sorting(v)' = Sorting(v)
      BY <3>1, <1>1 DEF Sorting, IInv, TypeOK
    <3>3. \A v \in Workers : /\ pc'[v] = "transform" => pc[v] = "transform"
                            /\ pc'[v] = "dump" => pc[v] = "dump"
      BY <3>1 DEF IInv, TypeOK
    <3> QED  BY <1>2, <1>3, <1>6, <3>1, <3>2, <3>3
             DEF IInv, ChunksOfSlice, QueuedChunks, HeldChunks, OtherChunksWritten
  <2>2. CASE q # <<>>
    <3>1. q' = Tail(q) /\ pc' = [pc EXCEPT ![w] = "transform"] /\ item' = [item EXCEPT ![w] = Head(q)]
      BY <1>1, <2>2 DEF QueueGet
    <3>2. /\ Len(q) \in Nat /\ 1 \in 1..Len(q) /\ Head(q) = q[1]
          /\ Len(q') = Len(q) - 1 /\ \A x \in 1..Len(q') : x + 1 \in 1..Len(q) /\ q'[x] = q[x + 1]
      <4>1. q \in Seq(Nat)  BY DEF IInv, TypeOK
      <4> QED  BY ONLY <2>2, <3>1, <4>1
    <3>3. /\ item'[w] = q[1] /\ pc'[w] = "transform" /\ Sorting(w)' /\ ~Sorting(w)
          /\ \A v \in Workers : v # w => item'[v] = item[v] /\ pc'[v] = pc[v]
      BY <3>1, <3>2, <1>1 DEF Sorting, IInv, TypeOK
    <3>4. \A v \in Workers : v # w => Sorting(v)' = Sorting(v)
      BY <3>3 DEF Sorting
    <3>5. \A x \in 1..Len(q') : q'[x] # q[1]
      <4> SUFFICES ASSUME NEW x \in 1..Len(q'), q'[x] = q[1] PROVE FALSE
        OBVIOUS
      <4>1. x + 1 = 1  BY <3>2, <1>2 DEF IInv, ChunksOfSlice, QueuedChunks, HeldChunks, OtherChunksWritten
      <4> QED  BY <4>1, <3>2
    <3>6. \A x, y \in 1..Len(q') : q'[x] = q'[y] => x = y
      <4> SUFFICES ASSUME NEW x \in 1..Len(q'), NEW y \in 1..Len(q'), q'[x] = q'[y] PROVE x = y
        OBVIOUS
      <4>1. x + 1 = y + 1  BY <3>2, <1>2 DEF IInv, ChunksOfSlice, QueuedChunks, HeldChunks, OtherChunksWritten
      <4> QED  BY <4>1
    <3>7. /\ \A x \in 1..Len(q') : q'[x] \in SliceIds /\ Unsorted(q'[x])
          /\ q[1] \in SliceIds /\ Unsorted(q[1])
          /\ \A v \in Workers : Sorting(v) => /\ item[v] \in SliceIds /\ item[v] # q[1]
                                              /\ \A x \in 1..Len(q') : q'[x] # item[v]
      BY <3>2, <1>2 DEF IInv, ChunksOfSlice, QueuedChunks, HeldChunks, OtherChunksWritten
    <3>8. \A v \in Workers : Sorting(v)' => /\ item'[v] \in SliceIds
                                           /\ \A x \in 1..Len(q') : q'[x] # item'[v]
      BY <3>3, <3>4, <3>5, <3>7
    <3>9. \A u, v \in Workers : Sorting(u)' /\ Sorting(v)' /\ item'[u] = item'[v] => u = v
      BY <3>3, <3>4, <3>7, <1>2 DEF IInv, ChunksOfSlice, QueuedChunks, HeldChunks, OtherChunksWritten
    <3>11. ASSUME NEW id \in SliceIds
           PROVE  \/ \E x \in 1..Len(q') : q'[x] = id
                  \/ \E v \in Workers : Sorting(v)' /\ item'[v] = id
                  \/ Written(id)
      <4>1. CASE \E x \in 1..Len(q) : q[x] = id
        <5>1. PICK x \in 1..Len(q) : q[x] = id  BY <4>1
        <5>2. CASE x = 1  BY <5>1, <5>2, <3>3
        <5>3. CASE x # 1
          <6>1. x - 1 \in 1..Len(q') /\ q'[x - 1] = q[x]  BY <5>3, <3>2
          <6> QED  BY <6>1, <5>1
        <5> QED  BY <5>2, <5>3
      <4>2. CASE \E v \in Workers : Sorting(v) /\ item[v] = id
        BY <4>2, <3>3, <3>4
      <4> QED  BY <4>1, <4>2, <1>2 DEF IInv, ChunksOfSlice, QueuedChunks, HeldChunks, OtherChunksWritten
    <3>12. \A x \in 1..Len(q') : Unsorted(q[x])'
      BY <3>7, <1>1 DEF Unsorted
    <3>14. QueuedChunks'
      BY <1>3, <3>6, <3>7, <3>12 DEF QueuedChunks
    <3>15. HeldChunks'
      <4>1. ASSUME NEW v \in Workers, Sorting(v)'
            PROVE  item'[v] \in SliceIds' /\ \A x \in 1..Len(q') : q'[x] # item'[v]
        BY <4>1, <1>3, <3>8
      <4>2. ASSUME NEW u \in Workers, NEW v \in Workers,
                   Sorting(u)', Sorting(v)', item'[u] = item'[v]
            PROVE  u = v
        BY <4>2, <3>9
      <4>3. ASSUME NEW v \in Workers, pc'[v] = "transform" PROVE Unsorted(item[v])'
        <5>1. CASE v = w  BY <5>1, <3>3, <3>7, <1>1 DEF Unsorted
        <5>2. CASE v # w
          <6>1. Unsorted(item[v]) /\ item'[v] = item[v]
            BY <4>3, <5>2, <3>3, <1>2 DEF IInv, ChunksOfSlice, HeldChunks
          <6> QED  BY <6>1, <1>1 DEF Unsorted
        <5> QED  BY <5>1, <5>2
      <4>4. ASSUME NEW v \in Workers, pc'[v] = "dump" PROVE Sorted(item[v])'
        <5>1. Sorted(item[v]) /\ item'[v] = item[v]
          BY <4>4, <3>3, <1>2 DEF IInv, ChunksOfSlice, HeldChunks
        <5> QED  BY <5>1, <1>1 DEF Sorted
      <4> QED  BY <4>1, <4>2, <4>3, <4>4 DEF HeldChunks
    <3>16. OtherChunksWritten'
      BY <1>3, <1>6, <3>11 DEF OtherChunksWritten
    <3> QED  BY <3>14, <3>15, <3>16 DEF ChunksOfSlice
  <2> QED  BY <2>1, <2>2
<1> QED  BY <1>3, <1>4, <1>5, <1>7 DEF IInv

(* The chunk a worker of stage 2 holds is in memory at the place of its id, *)
(* and no other worker's chunk is at that place.                            *)
LEMMA HeldChunk ==
  ASSUME IInv, phase = "stage2", NEW w \in Workers, Sorting(w)
  PROVE  /\ item[w] \in SliceIds /\ item[w] \in ChunkIds /\ PassChunk(w) \in Chunks
         /\ \A id \in SliceIds : id # item[w] => id % ChunksPerPass # PassChunk(w)
<1>1. item[w] \in SliceIds
  BY DEF IInv, ChunksOfSlice, HeldChunks
<1>2. \A id \in SliceIds : id # item[w] => id % ChunksPerPass # PassChunk(w)
  BY <1>1, IdArithmetic DEF IInv, TypeOK, PassChunk
<1> QED  BY <1>1, <1>2, PassChunkType DEF IInv, SliceIds

LEMMA TransformIInv ==
  ASSUME IInv, TypeOK', NEW w \in Workers, Transform(w) PROVE IInv'
<1>1. /\ pc[w] = "transform" /\ pc' = [pc EXCEPT ![w] = "dump"]
      /\ index' = [index EXCEPT ![PassChunk(w)] = raw[PassChunk(w)]]
      /\ raw' = [raw EXCEPT ![PassChunk(w)] = NoDeals]
      /\ UNCHANGED <<phase, passId, q, item, buffer, cursize, disk>>
      /\ Sorting(w)
  BY DEF Transform, Sorting
<1>2. phase = "stage2"
  BY <1>1 DEF IInv, TypeOK, Phases, ThreadsOfPhase
<1>3. /\ ExactlyOnce' /\ ChunksEmptied'
      /\ FirstId' = FirstId /\ SliceIds' = SliceIds
  BY <1>1, <1>2, Stage2Frame
<1>4. /\ item[w] \in SliceIds /\ PassChunk(w) \in Chunks
      /\ PassChunk(w) = item[w] % ChunksPerPass
      /\ \A id \in SliceIds : id # item[w] => id % ChunksPerPass # PassChunk(w)
  BY <1>1, <1>2, HeldChunk DEF PassChunk
<1>5. ThreadsOfPhase'
  BY <1>1, <1>2 DEF IInv, TypeOK, ThreadsOfPhase
<1>6. FilesOfPasses'
  BY <1>1, <1>3 DEF IInv, FilesOfPasses
<1>7. ASSUME NEW id \in SliceIds, id # item[w]
      PROVE  raw'[id % ChunksPerPass] = raw[id % ChunksPerPass]
             /\ index'[id % ChunksPerPass] = index[id % ChunksPerPass]
  <2>1. id % ChunksPerPass \in Chunks /\ id % ChunksPerPass # PassChunk(w)
    BY <1>4, <1>7, IdArithmetic DEF IInv, TypeOK
  <2> QED  BY <2>1, <1>1 DEF IInv, TypeOK
<1>8. Sorted(item[w])'
  <2>1. Unsorted(item[w])  BY <1>1, <1>2 DEF IInv, ChunksOfSlice, HeldChunks
  <2> QED  BY <2>1, <1>1, <1>4 DEF Unsorted, Sorted, IInv, TypeOK
<1>9. \A v \in Workers : Sorting(v)' = Sorting(v) /\ (v # w => pc'[v] = pc[v])
  BY <1>1 DEF Sorting, IInv, TypeOK
<1>10. QueuedChunks'
  <2>1. ASSUME NEW x \in 1..Len(q) PROVE q[x] \in SliceIds /\ Unsorted(q[x])'
    <3>1. q[x] \in SliceIds /\ Unsorted(q[x]) /\ q[x] # item[w]
      BY <1>1, <1>2 DEF IInv, ChunksOfSlice, QueuedChunks, HeldChunks
    <3> QED  BY <3>1, <1>1, <1>7 DEF Unsorted
  <2> QED  BY <2>1, <1>1, <1>2, <1>3 DEF IInv, ChunksOfSlice, QueuedChunks
<1>11. HeldChunks'
  <2>1. \A v \in Workers : Sorting(v) =>
           item[v] \in SliceIds' /\ \A x \in 1..Len(q') : q'[x] # item[v]
    BY <1>1, <1>2, <1>3 DEF IInv, ChunksOfSlice, HeldChunks
  <2>2. \A u, v \in Workers : Sorting(u) /\ Sorting(v) /\ item[u] = item[v] => u = v
    BY <1>2 DEF IInv, ChunksOfSlice, HeldChunks
  <2>3. ASSUME NEW v \in Workers, pc'[v] = "transform" PROVE Unsorted(item[v])'
    <3>1. v # w /\ pc[v] = "transform" /\ Sorting(v)  BY <2>3, <1>1, <1>9 DEF Sorting, IInv, TypeOK
    <3>2. Unsorted(item[v]) /\ item[v] \in SliceIds /\ item[v] # item[w]
      BY <3>1, <1>1, <1>2, <2>2 DEF IInv, ChunksOfSlice, HeldChunks
    <3> QED  BY <3>2, <1>1, <1>7 DEF Unsorted
  <2>4. ASSUME NEW v \in Workers, pc'[v] = "dump" PROVE Sorted(item[v])'
    <3>1. CASE v = w  BY <3>1, <1>8
    <3>2. CASE v # w
      <4>1. pc[v] = "dump" /\ Sorting(v)  BY <2>4, <3>2, <1>9 DEF Sorting
      <4>2. Sorted(item[v]) /\ item[v] \in SliceIds /\ item[v] # item[w]
        BY <4>1, <3>2, <1>1, <1>2, <2>2 DEF IInv, ChunksOfSlice, HeldChunks
      <4> QED  BY <4>2, <1>1, <1>7 DEF Sorted
    <3> QED  BY <3>1, <3>2
  <2> QED  BY <1>1, <1>9, <2>1, <2>2, <2>3, <2>4 DEF HeldChunks
<1>12. OtherChunksWritten'
  <2> SUFFICES ASSUME NEW id \in SliceIds
               PROVE  \/ \E x \in 1..Len(q) : q[x] = id
                      \/ \E v \in Workers : Sorting(v) /\ item[v] = id
                      \/ Written(id)'
    BY <1>1, <1>3, <1>9 DEF OtherChunksWritten
  <2>1. CASE id = item[w]  BY <2>1, <1>1
  <2>2. CASE id # item[w]
    <3>1. Written(id) => Written(id)'  BY <2>2, <1>1, <1>7 DEF Written
    <3> QED  BY <3>1, <1>2 DEF IInv, ChunksOfSlice, OtherChunksWritten
  <2> QED  BY <2>1, <2>2
<1> QED  BY <1>3, <1>5, <1>6, <1>10, <1>11, <1>12 DEF IInv, ChunksOfSlice

LEMMA DumpIInv ==
  ASSUME IInv, TypeOK', NEW w \in Workers, Dump(w)
  PROVE  /\ IInv'
         /\ item[w] \in ChunkIds /\ disk[item[w]] = None
         /\ disk' = [disk EXCEPT ![item[w]] = Exact(item[w])]
<1>1. /\ pc[w] = "dump" /\ pc' = [pc EXCEPT ![w] = "get2"]
      /\ disk' = [disk EXCEPT ![item[w]] = index[PassChunk(w)]]
      /\ UNCHANGED <<phase, passId, q, item, buffer, cursize, raw, index>>
      /\ Sorting(w)
  BY DEF Dump, Sorting, chunks
<1>2. phase = "stage2"
  BY <1>1 DEF IInv, TypeOK, Phases, ThreadsOfPhase
<1>3. /\ ExactlyOnce' /\ ChunksEmptied'
      /\ FirstId' = FirstId /\ SliceIds' = SliceIds
      /\ FirstId \in Nat /\ ChunksPerPass \in Nat
  BY <1>1, <1>2, Stage2Frame
<1>4. item[w] \in SliceIds /\ item[w] \in ChunkIds
  BY <1>1, <1>2, HeldChunk
<1>5. Sorted(item[w])
  BY <1>1, <1>2 DEF IInv, ChunksOfSlice, HeldChunks
<1>6. disk[item[w]] = None /\ disk' = [disk EXCEPT ![item[w]] = Exact(item[w])]
  BY <1>1, <1>5 DEF Sorted, PassChunk
<1>7. ThreadsOfPhase'
  BY <1>1, <1>2 DEF IInv, TypeOK, ThreadsOfPhase
<1>8. ASSUME NEW id \in ChunkIds, id # item[w] PROVE disk'[id] = disk[id]
  BY <1>6, <1>8 DEF IInv, TypeOK
<1>9. FilesOfPasses'
  <2>1. ASSUME NEW id \in ChunkIds, id < FirstId \/ id >= FirstId + ChunksPerPass
        PROVE  disk'[id] = disk[id]
    <3>1. id # item[w]  BY <2>1, <1>3, <1>4, Sizes DEF SliceIds
    <3> QED  BY <3>1, <1>8
  <2> QED  BY <2>1, <1>1, <1>2, <1>3 DEF IInv, FilesOfPasses
<1>10. Written(item[w])'
  <2>1. disk'[item[w]] = Exact(item[w])  BY <1>4, <1>6 DEF IInv, TypeOK
  <2> QED  BY <2>1, <1>1, <1>5 DEF Written, Sorted
<1>11. \A v \in Workers : /\ Sorting(v)' <=> Sorting(v) /\ v # w
                         /\ v # w => pc'[v] = pc[v]
  BY <1>1 DEF Sorting, IInv, TypeOK
<1>12. SliceIds \subseteq ChunkIds
  BY DEF SliceIds
<1>13. QueuedChunks'
  <2>1. ASSUME NEW x \in 1..Len(q) PROVE q[x] \in SliceIds /\ Unsorted(q[x])'
    <3>1. q[x] \in SliceIds /\ Unsorted(q[x]) /\ q[x] # item[w]
      BY <1>1, <1>2 DEF IInv, ChunksOfSlice, QueuedChunks, HeldChunks
    <3> QED  BY <3>1, <1>1, <1>8, <1>12 DEF Unsorted
  <2> QED  BY <2>1, <1>1, <1>2, <1>3 DEF IInv, ChunksOfSlice, QueuedChunks
<1>14. HeldChunks'
  <2>1. \A v \in Workers : Sorting(v) =>
           item[v] \in SliceIds' /\ \A x \in 1..Len(q') : q'[x] # item[v]
    BY <1>1, <1>2, <1>3 DEF IInv, ChunksOfSlice, HeldChunks
  <2>2. \A u, v \in Workers : Sorting(u) /\ Sorting(v) /\ item[u] = item[v] => u = v
    BY <1>2 DEF IInv, ChunksOfSlice, HeldChunks
  <2>3. ASSUME NEW v \in Workers, pc'[v] = "transform" PROVE Unsorted(item[v])'
    <3>1. v # w /\ pc[v] = "transform" /\ Sorting(v)  BY <2>3, <1>1, <1>11 DEF Sorting, IInv, TypeOK
    <3>2. Unsorted(item[v]) /\ item[v] \in SliceIds /\ item[v] # item[w]
      BY <3>1, <1>1, <1>2, <2>2 DEF IInv, ChunksOfSlice, HeldChunks
    <3> QED  BY <3>2, <1>1, <1>8, <1>12 DEF Unsorted
  <2>4. ASSUME NEW v \in Workers, pc'[v] = "dump" PROVE Sorted(item[v])'
    <3>1. v # w /\ pc[v] = "dump" /\ Sorting(v)  BY <2>4, <1>1, <1>11 DEF Sorting, IInv, TypeOK
    <3>2. Sorted(item[v]) /\ item[v] \in SliceIds /\ item[v] # item[w]
      BY <3>1, <1>1, <1>2, <2>2 DEF IInv, ChunksOfSlice, HeldChunks
    <3> QED  BY <3>2, <1>1, <1>8, <1>12 DEF Sorted
  <2>5. ASSUME NEW v \in Workers, Sorting(v)'
        PROVE  Sorting(v) /\ item'[v] \in SliceIds' /\ \A x \in 1..Len(q') : q'[x] # item'[v]
    <3>1. v # w  BY <2>5, <1>1 DEF Sorting, IInv, TypeOK
    <3>2. Sorting(v)  BY <3>1, <2>5, <1>1 DEF Sorting, IInv, TypeOK
    <3> QED  BY <3>2, <2>1, <1>1
  <2>6. ASSUME NEW u \in Workers, NEW v \in Workers,
               Sorting(u)', Sorting(v)', item'[u] = item'[v]
        PROVE  u = v
    BY <2>6, <2>2, <2>5, <1>1
  <2> QED  BY <2>3, <2>4, <2>5, <2>6 DEF HeldChunks
<1>15. OtherChunksWritten'
  <2>1. ASSUME NEW id \in SliceIds
        PROVE  \/ \E x \in 1..Len(q') : q'[x] = id
               \/ \E v \in Workers : Sorting(v)' /\ item'[v] = id
               \/ Written(id)'
    <3>1. CASE id = item[w]  BY <3>1, <1>10, <1>1 DEF Written
    <3>2. CASE id # item[w]
      <4>1. CASE \E x \in 1..Len(q) : q[x] = id  BY <4>1, <1>1
      <4>2. CASE \E v \in Workers : Sorting(v) /\ item[v] = id
        <5>1. PICK v \in Workers : Sorting(v) /\ item[v] = id  BY <4>2
        <5>2. Sorting(v)' /\ item'[v] = id
          BY <5>1, <3>2, <1>1 DEF Sorting, IInv, TypeOK
        <5> QED  BY <5>1, <5>2
      <4>3. CASE Written(id)  BY <4>3, <3>2, <1>1, <1>8, <1>12 DEF Written
      <4>4. \/ \E x \in 1..Len(q) : q[x] = id
            \/ \E v \in Workers : Sorting(v) /\ item[v] = id
            \/ Written(id)
        BY <1>2 DEF IInv, ChunksOfSlice, OtherChunksWritten
      <4> QED  BY <4>1, <4>2, <4>3, <4>4
    <3> QED  BY <3>1, <3>2
  <2> QED  BY <2>1, <1>3 DEF OtherChunksWritten
<1> QED  BY <1>3, <1>4, <1>6, <1>7, <1>9, <1>13, <1>14, <1>15 DEF IInv, ChunksOfSlice

LEMMA NextIInv == IInv /\ [Next]_vars => IInv'
<1> SUFFICES ASSUME IInv, [Next]_vars PROVE IInv'
  OBVIOUS
<1>1. TypeOK'
  BY NextType DEF IInv
<1>2. CASE MainThread
  BY <1>1, <1>2, StartStage1IInv, StartStage2IInv, EndPassIInv DEF MainThread
<1>3. ASSUME NEW w \in Workers, Stage1(w) PROVE IInv'
  BY <1>1, <1>3, Get1IInv, FlushIInv, FillIInv DEF Stage1
<1>4. ASSUME NEW w \in Workers, Stage2(w) PROVE IInv'
  BY <1>1, <1>4, Get2IInv, TransformIInv, DumpIInv DEF Stage2
<1>5. CASE UNCHANGED vars
  <2> USE <1>5 DEF vars, worker, chunks
  <2>1. FirstId' = FirstId  BY DEF FirstId
  <2>2. SliceIds' = SliceIds  BY <2>1 DEF SliceIds
  <2>3. ThreadsOfPhase'  BY DEF IInv, ThreadsOfPhase
  <2>4. \A s \in Seeds : /\ Queued(s)' = Queued(s)
                        /\ IsCurrentPass(s)' = IsCurrentPass(s)
                        /\ GetChunkId(s)' = GetChunkId(s)
    BY DEF Queued, IsCurrentPass, GetChunkId, LOW_KEY, HIGH_KEY
  <2>5. ExactlyOnce'
    BY <2>4 DEF IInv, ExactlyOnce, NeverTwice, OnlyOwnChunk, NotLost,
                Shuffling, Buffered, Stored
  <2>6. ChunksOfSlice'
    BY <2>2 DEF IInv, ChunksOfSlice, QueuedChunks, HeldChunks, OtherChunksWritten,
                Unsorted, Sorted, Written, Sorting
  <2>7. FilesOfPasses' /\ ChunksEmptied'
    BY <2>1 DEF IInv, FilesOfPasses, ChunksEmptied
  <2> QED  BY <1>1, <2>3, <2>5, <2>6, <2>7 DEF IInv
<1> QED  BY <1>2, <1>3, <1>4, <1>5 DEF Next, Exited

(* The inductive invariant holds of every run of `solve init`.             *)
THEOREM IndexInvariant == Spec => []IInv
  BY InitIInv, NextIInv, PTL DEF Spec

(* During stage 1 no deal of the slice is lost, stored twice or stored in  *)
(* another chunk, whatever the interleaving of the workers.                *)
THEOREM NoDealLost == Spec => []ExactlyOnce
<1>1. IInv => ExactlyOnce  BY DEF IInv
<1> QED  BY <1>1, IndexInvariant, PTL

(* An empty buffer has no deals, and one that is left alone as many as it  *)
(* had.                                                                    *)
LEMMA BufferCounts ==
  ASSUME NEW w \in Workers
  PROVE  /\ buffer[w] = NoDeals => Cardinality(InBuffer(w)) = 0
         /\ buffer'[w] = NoDeals => Cardinality(InBuffer(w)') = 0
         /\ buffer'[w] = buffer[w] => InBuffer(w)' = InBuffer(w)
<1>1. buffer[w] = NoDeals => InBuffer(w) = {}  BY DEF NoDeals, InBuffer, Buffered
<1>2. buffer'[w] = NoDeals => InBuffer(w)' = {}  BY DEF NoDeals, InBuffer, Buffered
<1>3. buffer'[w] = buffer[w] => InBuffer(w)' = InBuffer(w)  BY DEF InBuffer, Buffered
<1> QED  BY <1>1, <1>2, <1>3, FS_EmptySet

(* Filling adds the deals of a block, none of which is in the buffer yet.  *)
LEMMA FillCounts ==
  ASSUME IInv, CountInv, NEW w \in Workers, Fill(w)
  PROVE  cursize'[w] = Cardinality(InBuffer(w)')
<1> DEFINE block == item[w]..item[w] + KeyChunk - 1
<1>1. pc[w] = "fill" /\ phase = "stage1"
  BY DEF Fill, IInv, TypeOK, Phases, ThreadsOfPhase
<1>2. item[w] \in Nat /\ KeyChunk \in Nat \ {0} /\ MaxSeed \in Nat
  BY IndexAssumption DEF IInv, TypeOK
<1>3. block \subseteq Seeds
  BY <1>1, <1>2 DEF CountInv, BlocksFit, Seeds
<1>4. IsFiniteSet(block) /\ Cardinality(block) = KeyChunk
  <2> DEFINE a == item[w]
             b == item[w] + KeyChunk - 1
  <2>1. a \in Int /\ b \in Int /\ a <= b /\ b - a + 1 = KeyChunk  BY <1>2
  <2> HIDE DEF a, b
  <2>2. IsFiniteSet(a..b) /\ Cardinality(a..b) = IF a > b THEN 0 ELSE b - a + 1
    BY <2>1, FS_Interval
  <2> QED  BY <2>1, <2>2 DEF a, b
<1>5. IsFiniteSet(InBuffer(w))
  <2>1. IsFiniteSet(Seeds)
    <3>1. 0 \in Int /\ MaxSeed - 1 \in Int  BY <1>2
    <3> QED  BY <3>1, FS_Interval DEF Seeds
  <2> QED  BY <2>1, FS_Subset DEF InBuffer
<1>6. InBuffer(w) \cap block = {}
  BY <1>1, <1>3 DEF IInv, ExactlyOnce, NeverTwice, Shuffling, InBuffer, Block
<1>7. InBuffer(w)' = InBuffer(w) \cup block
  <2>1. \A s \in Seeds : buffer'[w][s] = buffer[w][s] + IF s \in block THEN 1 ELSE 0
    BY DEF Fill, IInv, TypeOK, Block
  <2>2. \A s \in Seeds : buffer[w][s] \in Nat  BY DEF IInv, TypeOK, Deals
  <2>3. \A s \in Seeds : buffer'[w][s] > 0 <=> buffer[w][s] > 0 \/ s \in block
    BY <2>1, <2>2
  <2> QED  BY <2>3, <1>3 DEF InBuffer, Buffered
<1>8. Cardinality(InBuffer(w)') = Cardinality(InBuffer(w)) + KeyChunk
  <2> HIDE DEF block
  <2>1. Cardinality(InBuffer(w) \cup block) =
          Cardinality(InBuffer(w)) + Cardinality(block) - Cardinality(InBuffer(w) \cap block)
    BY <1>4, <1>5, FS_Union
  <2>2. Cardinality(InBuffer(w) \cap block) = 0  BY <1>6, FS_EmptySet
  <2>3. Cardinality(InBuffer(w)) \in Nat  BY <1>5, FS_CardinalityType
  <2> QED  BY <1>2, <1>4, <1>7, <2>1, <2>2, <2>3
<1>9. cursize'[w] = cursize[w] + KeyChunk  BY DEF Fill, IInv, TypeOK
<1> QED  BY <1>8, <1>9 DEF CountInv

LEMMA BlocksStayInSeeds == IInv /\ CountInv /\ [Next]_vars => BlocksFit'
<1> SUFFICES ASSUME IInv, CountInv, [Next]_vars, phase' = "stage1"
             PROVE  /\ \A a \in 1..Len(q') : q'[a] + KeyChunk <= MaxSeed
                    /\ \A w \in Workers : pc'[w] = "fill" => item'[w] + KeyChunk <= MaxSeed
  BY DEF BlocksFit
<1>1. CASE MainThread
  <2>1. StartStage1  BY <1>1 DEF MainThread, StartStage2, EndPass
  <2>2. q = <<>>  BY <2>1, IndexAssumption DEF StartStage1, IInv, ThreadsOfPhase
  <2>3. q' = [x \in 1..MaxSeed \div KeyChunk |-> (x - 1) * KeyChunk]
    <3>1. [x \in 1..MaxSeed \div KeyChunk |-> (x - 1) * KeyChunk] \in Seq(Nat)  BY Blocks
    <3> QED  BY <2>1, <2>2, <3>1, ConcatEmptySeq DEF StartStage1
  <2>4. MaxSeed \div KeyChunk \in Nat /\ KeyChunk * (MaxSeed \div KeyChunk) = MaxSeed
    <3>1. KeyChunk \in Nat \ {0} /\ MaxSeed \in Nat /\ MaxSeed % KeyChunk = 0
      BY IndexAssumption
    <3>2. MaxSeed = KeyChunk * (MaxSeed \div KeyChunk) + (MaxSeed % KeyChunk)
      BY <3>1, DivMod
    <3>3. MaxSeed \div KeyChunk \in Nat  BY Blocks
    <3> QED  BY <3>1, <3>2, <3>3
  <2>5. ASSUME NEW x \in 1..MaxSeed \div KeyChunk
        PROVE  (x - 1) * KeyChunk + KeyChunk <= MaxSeed
    <3> DEFINE blocks == MaxSeed \div KeyChunk
    <3>1. blocks \in Nat /\ KeyChunk * blocks = MaxSeed /\ x \in 1..blocks  BY <2>4
    <3> HIDE DEF blocks
    <3>2. x * KeyChunk <= blocks * KeyChunk  BY <3>1, IndexAssumption
    <3> QED  BY <3>1, <3>2, IndexAssumption
  <2>6. Len(q') = MaxSeed \div KeyChunk  BY <2>3, <2>4
  <2>7. \A w \in Workers : pc'[w] # "fill"  BY <2>1 DEF StartStage1
  <2> QED  BY <2>3, <2>5, <2>6, <2>7
<1>2. ASSUME NEW w \in Workers, Get1(w)
      PROVE  /\ \A a \in 1..Len(q') : q'[a] + KeyChunk <= MaxSeed
             /\ \A v \in Workers : pc'[v] = "fill" => item'[v] + KeyChunk <= MaxSeed
  <2>1. phase = "stage1"  BY <1>2 DEF Get1
  <2>2. CASE q = <<>>
    BY <1>2, <2>1, <2>2 DEF Get1, QueueGet, CountInv, BlocksFit, IInv, TypeOK
  <2>3. CASE q # <<>>
    <3>1. q \in Seq(Nat)  BY DEF IInv, TypeOK
    <3>2. /\ Head(q) = q[1] /\ 1 \in 1..Len(q) /\ Len(Tail(q)) = Len(q) - 1
          /\ \A a \in 1..Len(Tail(q)) : a + 1 \in 1..Len(q) /\ Tail(q)[a] = q[a + 1]
      BY <2>3, <3>1
    <3>3. /\ q' = Tail(q) /\ item'[w] = Head(q)
          /\ \A v \in Workers : v # w => item'[v] = item[v] /\ pc'[v] = pc[v]
      BY <1>2, <2>3 DEF Get1, QueueGet, IInv, TypeOK
    <3> QED  BY <2>1, <3>2, <3>3 DEF CountInv, BlocksFit
  <2> QED  BY <2>2, <2>3
<1>3. ASSUME NEW w \in Workers, Flush(w) \/ Fill(w) \/ Drain(w)
      PROVE  /\ \A a \in 1..Len(q') : q'[a] + KeyChunk <= MaxSeed
             /\ \A v \in Workers : pc'[v] = "fill" => item'[v] + KeyChunk <= MaxSeed
  <2>1. phase = "stage1" /\ q' = q /\ item' = item  BY <1>3 DEF Flush, Fill, Drain
  <2>2. \A v \in Workers : pc'[v] = "fill" => pc[v] = "fill"
    BY <1>3 DEF Flush, Fill, Drain, IInv, TypeOK
  <2> QED  BY <2>1, <2>2 DEF CountInv, BlocksFit
<1>4. ASSUME NEW w \in Workers, Stage2(w) PROVE FALSE
  <2>1. pc[w] \in {"get2", "transform", "dump"} /\ phase' = phase
    BY <1>4 DEF Stage2, Get2, Transform, Dump
  <2> QED  BY <2>1 DEF IInv, ThreadsOfPhase
<1>5. CASE UNCHANGED vars
  BY <1>5 DEF vars, worker, CountInv, BlocksFit
<1> QED  BY <1>1, <1>2, <1>3, <1>4, <1>5 DEF Next, Stage1, Exited

LEMMA NextCount == IInv /\ CountInv /\ [Next]_vars => CountInv'
<1> SUFFICES ASSUME IInv, CountInv, [Next]_vars, NEW v \in Workers
             PROVE  cursize'[v] = Cardinality(InBuffer(v)')
  BY BlocksStayInSeeds DEF CountInv
<1>1. CASE buffer'[v] = buffer[v] /\ cursize'[v] = cursize[v]
  BY <1>1, BufferCounts DEF CountInv
<1>2. CASE buffer'[v] = NoDeals /\ cursize'[v] = 0
  BY <1>2, BufferCounts
<1>3. CASE Fill(v)  BY <1>3, FillCounts
<1>4. CASE StartStage1  BY <1>4, <1>2 DEF StartStage1
<1>5. CASE StartStage2 \/ EndPass \/ UNCHANGED vars
  BY <1>1, <1>5 DEF StartStage2, EndPass, vars, worker
<1>6. ASSUME NEW w \in Workers, Stage1(w) PROVE cursize'[v] = Cardinality(InBuffer(v)')
  <2>1. CASE Get1(w)  BY <1>1, <2>1 DEF Get1
  <2>2. CASE Flush(w) \/ Drain(w)
    <3>1. PushData(w)  BY <2>2 DEF Flush, Drain
    <3>2. CASE v = w  BY <1>2, <3>1, <3>2 DEF PushData, IInv, TypeOK
    <3>3. CASE v # w  BY <1>1, <3>1, <3>3 DEF PushData, IInv, TypeOK
    <3> QED  BY <3>2, <3>3
  <2>3. CASE Fill(w)
    <3>1. CASE v # w  BY <1>1, <2>3, <3>1 DEF Fill, IInv, TypeOK
    <3> QED  BY <1>3, <2>3, <3>1
  <2> QED  BY <1>6, <2>1, <2>2, <2>3 DEF Stage1
<1>7. ASSUME NEW w \in Workers, Stage2(w) PROVE cursize'[v] = Cardinality(InBuffer(v)')
  BY <1>1, <1>7 DEF Stage2, Get2, Transform, Dump
<1> QED  BY <1>4, <1>5, <1>6, <1>7 DEF Next, MainThread, Exited

(* A worker's cursize is the number of deals in its buffer, and it never   *)
(* writes past the buffer.                                                 *)
THEOREM NoOverrun == Spec => []BufferBounded
<1>1. Init => CountInv
  <2> SUFFICES ASSUME Init PROVE CountInv
    OBVIOUS
  <2>1. \A w \in Workers : cursize[w] = 0 /\ buffer[w] = NoDeals  BY DEF Init
  <2> QED  BY <2>1, BufferCounts DEF Init, CountInv, BlocksFit
<1>2. IInv /\ CountInv => BufferBounded
  BY DEF IInv, ThreadsOfPhase, CountInv, BufferBounded
<1> QED  BY <1>1, <1>2, NextCount, IndexInvariant, PTL DEF Spec

(* A chunk is sorted and written by one worker only.                       *)
THEOREM ChunkOwnership == Spec => []ChunkOwned
<1>1. IInv => ChunkOwned
  <2> SUFFICES ASSUME IInv, NEW v \in Workers, NEW w \in Workers,
                      Sorting(v), Sorting(w), PassChunk(v) = PassChunk(w)
               PROVE  v = w
    BY DEF ChunkOwned
  <2>1. phase = "stage2"
    BY DEF Sorting, IInv, TypeOK, Phases, ThreadsOfPhase
  <2>2. item[v] = item[w]
    BY <2>1, HeldChunk, IdArithmetic DEF PassChunk, IInv, TypeOK
  <2> QED  BY <2>1, <2>2 DEF IInv, ChunksOfSlice, HeldChunks
<1> QED  BY <1>1, IndexInvariant, PTL

(* No chunk is sorted while a deal of stage 1 is still on its way.         *)
THEOREM BarrierBetweenStages == Spec => JoinBetweenStages
<1>1. IInv /\ [Next]_vars => (index' # index /\ phase = "stage2" =>
         \A w \in Workers : cursize[w] = 0 /\ pc[w] \notin {"fill", "drain"})
  BY DEF IInv, ThreadsOfPhase
<1> QED  BY <1>1, IndexInvariant, PTL DEF Spec, JoinBetweenStages

(* Every step of `solve init` that changes a file writes it for the first  *)
(* time, with exactly the deals of its chunk: the safety part of IndexSpec.*)
THEOREM WritesExactFiles == Spec => Promise!Init /\ [][Promise!Next]_disk
<1>1. Init => Promise!Init
  BY DEF Init, Promise!Init
<1>2. IInv /\ [Next]_vars => [Promise!Next]_disk
  <2> SUFFICES ASSUME IInv, [Next]_vars PROVE [Promise!Next]_disk
    OBVIOUS
  <2>1. TypeOK'  BY NextType DEF IInv
  <2>2. ASSUME NEW w \in Workers, Dump(w) PROVE Promise!Next
    <3>1. /\ item[w] \in ChunkIds /\ disk[item[w]] = None
          /\ disk' = [disk EXCEPT ![item[w]] = Exact(item[w])]
      BY <2>1, <2>2, DumpIInv
    <3>2. Promise!Publish(item[w])
      BY <3>1 DEF Promise!Publish, Promise!Exact, Exact
    <3> QED  BY <3>1, <3>2 DEF Promise!Next
  <2>3. CASE ~(\E w \in Workers : Dump(w))
    <3>1. UNCHANGED disk
      BY <2>3 DEF Next, MainThread, Exited, vars, worker, chunks, Stage1, Stage2,
                  StartStage1, StartStage2, EndPass, Get1, Flush, Fill, Drain,
                  Get2, Transform
    <3> QED  BY <3>1
  <2> QED  BY <2>2, <2>3
<1> QED  BY <1>1, <1>2, IndexInvariant, PTL DEF Spec

(* How many steps worker w still takes at most before it is joined: three  *)
(* for each block or chunk that waits in the queue, and those for the one  *)
(* it holds and for its buffer.                                            *)
OwnLeft(w) == CASE pc[w] = "joined" -> 0
                [] pc[w] = "drain" -> 1
                [] pc[w] \in {"get1", "get2"} -> 2
                [] pc[w] = "fill" -> IF cursize[w] = BufferSize THEN 4 ELSE 3
                [] pc[w] = "transform" -> 4
                [] pc[w] = "dump" -> 3
ThreadLeft(w) == 3 * Len(q) + OwnLeft(w)
Running(w) == Stage1(w) \/ Stage2(w)

(* Within a stage a worker's own steps bring its join nearer, and no step  *)
(* of another worker puts it off.                                          *)
ThreadsAdvance ==
  [][\A w \in Workers : phase' = phase =>
       /\ ThreadLeft(w)' \in Nat
       /\ ThreadLeft(w)' <= ThreadLeft(w)
       /\ Running(w) => ThreadLeft(w)' < ThreadLeft(w)]_vars

LEMMA OwnLeftType ==
  ASSUME TypeOK, NEW w \in Workers
  PROVE  /\ OwnLeft(w) \in Nat /\ Len(q) \in Nat
         /\ q # <<>> => Len(Tail(q)) \in Nat /\ Len(Tail(q)) = Len(q) - 1
<1>1. pc[w] \in PCs /\ q \in Seq(Nat) /\ Len(q) \in Nat  BY DEF TypeOK
<1>2. OwnLeft(w) \in Nat  BY <1>1 DEF OwnLeft, PCs
<1>3. q # <<>> => Len(q) # 0 /\ Len(Tail(q)) = Len(q) - 1
  BY <1>1, EmptySeq, HeadTailProperties
<1> QED  BY <1>1, <1>2, <1>3

LEMMA OwnSteps ==
  ASSUME TypeOK, NEW w \in Workers, Running(w)
  PROVE  /\ ThreadLeft(w)' \in Nat /\ ThreadLeft(w)' < ThreadLeft(w)
         /\ Len(q') \in Nat /\ Len(q') <= Len(q)
         /\ \A v \in Workers : v # w => OwnLeft(v)' = OwnLeft(v)
<1>1. /\ Len(q) \in Nat
      /\ q # <<>> => Len(Tail(q)) \in Nat /\ Len(Tail(q)) = Len(q) - 1
      /\ pc \in [Workers -> PCs] /\ cursize \in [Workers -> Nat]
      /\ BufferSize \in Nat \ {0}
  BY OwnLeftType, IndexAssumption DEF TypeOK
<1>2. CASE (Get1(w) \/ Get2(w)) /\ q = <<>>
  <2>1. PICK to \in {"drain", "joined"} :
          pc' = [pc EXCEPT ![w] = to] /\ q' = q /\ cursize' = cursize
    BY <1>2 DEF Get1, Get2, QueueGet
  <2>2. pc[w] \in {"get1", "get2"}  BY <1>2 DEF Get1, Get2
  <2>3. OwnLeft(w) = 2 /\ OwnLeft(w)' \in {0, 1}
    BY <1>1, <2>1, <2>2 DEF OwnLeft
  <2>4. \A v \in Workers : v # w => OwnLeft(v)' = OwnLeft(v)
    BY <1>1, <2>1 DEF OwnLeft
  <2> QED  BY <1>1, <2>1, <2>3, <2>4 DEF ThreadLeft
<1>3. CASE (Get1(w) \/ Get2(w)) /\ q # <<>>
  <2>1. PICK to \in {"fill", "transform"} :
          pc' = [pc EXCEPT ![w] = to] /\ q' = Tail(q) /\ cursize' = cursize
    BY <1>3 DEF Get1, Get2, QueueGet
  <2>2. pc[w] \in {"get1", "get2"}  BY <1>3 DEF Get1, Get2
  <2>3. OwnLeft(w) = 2 /\ OwnLeft(w)' \in {3, 4}
    BY <1>1, <2>1, <2>2 DEF OwnLeft
  <2>4. \A v \in Workers : v # w => OwnLeft(v)' = OwnLeft(v)
    BY <1>1, <2>1 DEF OwnLeft
  <2>5. Len(q') = Len(q) - 1 /\ Len(q') \in Nat  BY <1>1, <1>3, <2>1
  <2> QED  BY <1>1, <2>3, <2>4, <2>5 DEF ThreadLeft
<1>4. CASE Flush(w)
  <2>1. /\ pc[w] = "fill" /\ cursize[w] = BufferSize /\ pc' = pc /\ q' = q
        /\ cursize' = [cursize EXCEPT ![w] = 0]
    BY <1>4 DEF Flush, PushData
  <2>2. OwnLeft(w) = 4 /\ OwnLeft(w)' = 3  BY <1>1, <2>1 DEF OwnLeft
  <2>3. \A v \in Workers : v # w => OwnLeft(v)' = OwnLeft(v)
    BY <1>1, <2>1 DEF OwnLeft
  <2> QED  BY <1>1, <2>1, <2>2, <2>3 DEF ThreadLeft
<1>5. CASE Fill(w)
  <2>1. /\ pc[w] = "fill" /\ cursize[w] # BufferSize /\ q' = q
        /\ pc' = [pc EXCEPT ![w] = "get1"]
        /\ \A v \in Workers : v # w => cursize'[v] = cursize[v]
    BY <1>1, <1>5 DEF Fill
  <2>2. OwnLeft(w) = 3 /\ OwnLeft(w)' = 2  BY <1>1, <2>1 DEF OwnLeft
  <2>3. \A v \in Workers : v # w => OwnLeft(v)' = OwnLeft(v)
    BY <1>1, <2>1 DEF OwnLeft
  <2> QED  BY <1>1, <2>1, <2>2, <2>3 DEF ThreadLeft
<1>6. CASE Drain(w)
  <2>1. /\ pc[w] = "drain" /\ q' = q /\ pc' = [pc EXCEPT ![w] = "joined"]
        /\ \A v \in Workers : v # w => cursize'[v] = cursize[v]
    BY <1>1, <1>6 DEF Drain, PushData
  <2>2. OwnLeft(w) = 1 /\ OwnLeft(w)' = 0  BY <1>1, <2>1 DEF OwnLeft
  <2>3. \A v \in Workers : v # w => OwnLeft(v)' = OwnLeft(v)
    BY <1>1, <2>1 DEF OwnLeft
  <2> QED  BY <1>1, <2>1, <2>2, <2>3 DEF ThreadLeft
<1>7. CASE Transform(w)
  <2>1. /\ pc[w] = "transform" /\ pc' = [pc EXCEPT ![w] = "dump"] /\ q' = q
        /\ cursize' = cursize
    BY <1>7 DEF Transform
  <2>2. OwnLeft(w) = 4 /\ OwnLeft(w)' = 3  BY <1>1, <2>1 DEF OwnLeft
  <2>3. \A v \in Workers : v # w => OwnLeft(v)' = OwnLeft(v)
    BY <1>1, <2>1 DEF OwnLeft
  <2> QED  BY <1>1, <2>1, <2>2, <2>3 DEF ThreadLeft
<1>8. CASE Dump(w)
  <2>1. /\ pc[w] = "dump" /\ pc' = [pc EXCEPT ![w] = "get2"] /\ q' = q
        /\ cursize' = cursize
    BY <1>8 DEF Dump
  <2>2. OwnLeft(w) = 3 /\ OwnLeft(w)' = 2  BY <1>1, <2>1 DEF OwnLeft
  <2>3. \A v \in Workers : v # w => OwnLeft(v)' = OwnLeft(v)
    BY <1>1, <2>1 DEF OwnLeft
  <2> QED  BY <1>1, <2>1, <2>2, <2>3 DEF ThreadLeft
<1> QED
  BY <1>2, <1>3, <1>4, <1>5, <1>6, <1>7, <1>8 DEF Running, Stage1, Stage2

(* Each stage ends: its workers reach the join in a number of own steps    *)
(* that is bounded from the start, whatever the others do.                 *)
THEOREM ThreadsAlwaysAdvance == Spec => ThreadsAdvance
<1>1. TypeOK /\ [Next]_vars =>
        [\A w \in Workers : phase' = phase =>
           /\ ThreadLeft(w)' \in Nat
           /\ ThreadLeft(w)' <= ThreadLeft(w)
           /\ Running(w) => ThreadLeft(w)' < ThreadLeft(w)]_vars
  <2> SUFFICES ASSUME TypeOK, Next, phase' = phase, vars' # vars, NEW w \in Workers
               PROVE  /\ ThreadLeft(w)' \in Nat
                      /\ ThreadLeft(w)' <= ThreadLeft(w)
                      /\ Running(w) => ThreadLeft(w)' < ThreadLeft(w)
    OBVIOUS
  <2>1. ThreadLeft(w) \in Nat /\ OwnLeft(w) \in Nat /\ Len(q) \in Nat
    BY OwnLeftType DEF ThreadLeft
  <2>2. PICK v \in Workers : Running(v)
    <3>1. ~MainThread
      BY DEF MainThread, StartStage1, StartStage2, EndPass
    <3>2. ~Exited  BY DEF Exited
    <3> QED  BY <3>1, <3>2 DEF Next, Running
  <2>3. CASE v = w
    BY <2>1, <2>2, <2>3, OwnSteps
  <2>4. CASE v # w
    <3>1. /\ OwnLeft(w)' = OwnLeft(w)
          /\ Len(q') \in Nat /\ Len(q') <= Len(q)
      BY <2>2, <2>4, OwnSteps
    <3>2. ThreadLeft(w)' \in Nat /\ ThreadLeft(w)' <= ThreadLeft(w)
      BY <2>1, <3>1 DEF ThreadLeft
    <3>3. Running(w) => ThreadLeft(w)' < ThreadLeft(w)
      BY OwnSteps
    <3> QED  BY <3>2, <3>3
  <2> QED  BY <2>3, <2>4
<1> QED  BY <1>1, TypeCorrect, PTL DEF Spec, ThreadsAdvance

------------------------------------------------------------------------------
(* The layout of a chunk (ChunkIndex), which stage 2 makes with transform  *)
(* and dump.  For every chunk size, every base and every chunk of deals:   *)
(* each key gets exactly its deals, after transform and after load, and no *)
(* array is written outside its bounds.                                    *)

(* What the entries of a sequence of deals are. *)
LEMMA DealAt ==
  ASSUME input \in Seq(Deal), NEW m \in 0..n - 1
  PROVE  /\ n \in Nat
         /\ m + 1 \in 1..n
         /\ LowAt(m) \in Base..Base + ChunkKeys - 1
         /\ input[m + 1].high \in High
<1>1. n \in Nat  BY DEF n
<1>2. m + 1 \in 1..n  BY <1>1
<1>3. input[m + 1] \in Deal  BY <1>2 DEF n
<1> QED  BY <1>1, <1>2, <1>3 DEF Deal, LowAt

(* The sorted input, read with the indices of the code. *)
LEMMA Order ==
  ASSUME input \in Seq(Deal), SortedByLow(input),
         NEW a \in 0..n - 1, NEW b \in 0..n - 1, a <= b
  PROVE  LowAt(a) <= LowAt(b)
<1>1. n \in Nat  BY DEF n
<1> QED  BY <1>1 DEF SortedByLow, LowAt, n

(* InitFrom starts the loop with nothing done. *)
LEMMA InitInv ==
  ASSUME ChunkInit
  PROVE  ChunkInv
<1>1. PICK s \in Seq(Deal) : SortedByLow(s) /\ InitFrom(s)  BY DEF ChunkInit
<1>2. /\ input = s /\ raw_data = s /\ n \in Nat /\ n = Len(s)
      /\ input \in Seq(Deal)
  BY <1>1 DEF InitFrom, n
<1>3. ChunkTypeOK
  BY <1>1, <1>2, ChunkAssumption DEF ChunkTypeOK, InitFrom
<1>4. LoopInv
  <2>1. data \in [0..n - 1 -> High \union {Junk}]
    BY <1>1, <1>2 DEF InitFrom
  <2>2. \A m \in 0..n - 1 : m < i <=> LowAt(m) < last
    <3> SUFFICES ASSUME NEW m \in 0..n - 1
                 PROVE  m < i <=> LowAt(m) < last
      OBVIOUS
    <3>1. LowAt(m) \in Base..Base + ChunkKeys - 1  BY <1>2, DealAt
    <3> QED  BY <1>1, <1>2, <3>1, ChunkAssumption DEF InitFrom
  <2> QED
    BY <1>1, <1>2, <2>1, <2>2, ChunkAssumption DEF LoopInv, InitFrom
<1>5. LayoutInv  BY <1>1 DEF LayoutInv, InitFrom
<1> QED  BY <1>3, <1>4, <1>5 DEF ChunkInv

(* The keys from last up to the key of deal i start at place datapos. *)
LEMMA StartRowInv ==
  ASSUME ChunkInv, StartRow
  PROVE  ChunkInv'
<1> USE DEF StartRow
<1>1. /\ input' = input /\ raw_data' = raw_data /\ n' = n /\ n \in Nat
      /\ input \in Seq(Deal) /\ SortedByLow(input)
      /\ raw_data = input /\ i \in 0..n - 1 /\ datapos = i /\ i \in Nat
      /\ last \in Base..Base + ChunkKeys
      /\ \A m \in 0..n - 1 : m < i <=> LowAt(m) < last
      /\ \A k \in 0..last - Base - 1 : Separates(pos[k], k)
  BY DEF ChunkInv, ChunkTypeOK, LoopInv, n
<1>2. /\ LowAt(i) \in Base..Base + ChunkKeys - 1
      /\ last' = LowAt(i) + 1
  BY <1>1, DealAt DEF LowAt
<1>3. last' \in Base..Base + ChunkKeys
  BY <1>2, ChunkAssumption
<1>4. ChunkTypeOK'
  <2>1. pos' \in [0..ChunkKeys -> Nat \union {Junk}]
    BY <1>1 DEF ChunkInv, ChunkTypeOK, FillPos
  <2>2. last' \in Nat  BY <1>3, ChunkAssumption
  <2> QED  BY <1>1, <2>1, <2>2 DEF ChunkInv, ChunkTypeOK
<1>5. ASSUME NEW k \in 0..last' - Base - 1
      PROVE  Separates(pos[k], k)'
  <2>1. k \in 0..ChunkKeys /\ k \in Nat
    BY <1>3, ChunkAssumption
  <2>2. CASE Base + k < last
    <3>1. pos'[k] = pos[k]
      BY <1>1, <2>1, <2>2, ChunkAssumption DEF FillPos
    <3>2. k \in 0..last - Base - 1
      BY <1>1, <2>1, <2>2, ChunkAssumption
    <3>3. Separates(pos[k], k)
      BY <1>1, <3>2
    <3> QED  BY <1>1, <3>1, <3>3 DEF Separates, LowAt
  <2>3. CASE last <= Base + k
    <3>1. pos'[k] = i
      BY <1>1, <1>2, <2>1, <2>3, ChunkAssumption DEF FillPos, LowAt
    <3>2. ASSUME NEW m \in 0..n - 1
          PROVE  m < i <=> LowAt(m) < Base + k
      <4>1. LowAt(m) \in Int  BY <1>1, DealAt, ChunkAssumption
      <4>2. i <= m => LowAt(i) <= LowAt(m)  BY <1>1, Order
      <4>3. LowAt(i) \in Int /\ Base + k \in Int /\ Base + k <= LowAt(i)
        BY <1>2, <2>1, ChunkAssumption
      <4>4. m < i <=> LowAt(m) < last
        BY <1>1
      <4>5. last \in Int /\ m \in Int /\ i \in Int
        BY ONLY <1>1, ChunkAssumption, m \in 0..n - 1
      <4> QED  BY ONLY <2>3, <4>1, <4>2, <4>3, <4>4, <4>5
    <3> QED  BY <1>1, <3>1, <3>2 DEF Separates, LowAt
  <2> QED  BY <1>1, <2>1, <2>2, <2>3, ChunkAssumption
<1>6. LoopInv'
  <2>1. /\ data \in [0..n - 1 -> High \union {Junk}]
        /\ \A m \in 0..datapos - 1 : data[m] = input[m + 1].high
    BY <1>1 DEF ChunkInv, LoopInv
  <2>2. /\ step' = "copy" /\ i' = i /\ j' = i /\ data' = data /\ datapos' = datapos
        /\ \A m : LowAt(m)' = LowAt(m)
    BY <1>1 DEF LowAt
  <2>3. SortedByLow(input)'  BY <1>1
  <2>4. i < n /\ i \in i..n /\ i..i - 1 = {} /\ i \in 0..n  BY <1>1
  <2> QED  BY ONLY <1>1, <1>2, <1>3, <1>5, <2>1, <2>2, <2>3, <2>4 DEF LoopInv
<1>7. LayoutInv'  BY DEF LayoutInv
<1> QED  BY <1>4, <1>6, <1>7 DEF ChunkInv

(* One more deal of the row is copied. *)
LEMMA CopyDealInv ==
  ASSUME ChunkInv, CopyDeal
  PROVE  ChunkInv'
<1> USE DEF CopyDeal
<1>1. /\ input' = input /\ raw_data' = raw_data /\ n' = n /\ n \in Nat
      /\ input \in Seq(Deal) /\ raw_data = input /\ i \in 0..n - 1
      /\ j \in i..n /\ datapos = j /\ j < n /\ j \in 0..n - 1
      /\ LowAt(j) = LowAt(i)
      /\ data \in [0..n - 1 -> High \union {Junk}]
      /\ \A m \in 0..datapos - 1 : data[m] = input[m + 1].high
      /\ \A m \in i..j - 1 : LowAt(m) = LowAt(i)
  <2>1. /\ input' = input /\ raw_data' = raw_data /\ n' = n /\ n \in Nat
        /\ input \in Seq(Deal) /\ step = "copy"
    BY DEF ChunkInv, ChunkTypeOK, n
  <2>2. /\ raw_data = input /\ i \in 0..n - 1 /\ j \in i..n /\ datapos = j
        /\ data \in [0..n - 1 -> High \union {Junk}]
        /\ \A m \in 0..datapos - 1 : data[m] = input[m + 1].high
        /\ \A m \in i..j - 1 : LowAt(m) = LowAt(i)
    BY <2>1 DEF ChunkInv, LoopInv
  <2>3. j < n /\ LowAt(j) = LowAt(i)  BY <2>2 DEF SameRow, LowAt, n
  <2> QED  BY <2>1, <2>2, <2>3
<1>2. ChunkTypeOK'  BY <1>1 DEF ChunkInv, ChunkTypeOK
<1>3. /\ data' \in [0..n - 1 -> High \union {Junk}]
      /\ \A m \in 0..datapos' - 1 : data'[m] = input[m + 1].high
  <2>1. input[j + 1].high \in High  BY <1>1, DealAt
  <2>2. data' = [data EXCEPT ![j] = input[j + 1].high] /\ datapos' = j + 1
    BY <1>1
  <2>3. ASSUME NEW m \in 0..j
        PROVE  data'[m] = input[m + 1].high
    <3>1. CASE m = j  BY <1>1, <2>2, <3>1
    <3>2. CASE m # j
      <4>1. m \in 0..datapos - 1 /\ m \in 0..n - 1  BY <1>1, <3>2
      <4> QED  BY <1>1, <2>2, <3>2, <4>1
    <3> QED  BY <3>1, <3>2
  <2>4. 0..datapos' - 1 = 0..j  BY <1>1, <2>2
  <2> QED  BY <1>1, <2>1, <2>2, <2>3, <2>4
<1>4. \A m \in i..j' - 1 : LowAt(m) = LowAt(i)
  BY <1>1
<1>5. \A k \in 0..last - Base - 1 : Separates(pos[k], k)'
  BY <1>1 DEF ChunkInv, LoopInv, Separates, LowAt
<1>6. LoopInv'
  BY <1>1, <1>3, <1>4, <1>5 DEF ChunkInv, LoopInv, LowAt
<1>7. LayoutInv'  BY DEF ChunkInv, LoopInv, LayoutInv
<1> QED  BY <1>2, <1>6, <1>7 DEF ChunkInv

(* The row is over: every deal before j has a key below last. *)
LEMMA EndRowInv ==
  ASSUME ChunkInv, EndRow
  PROVE  ChunkInv'
<1> USE DEF EndRow
<1>1. /\ input' = input /\ raw_data' = raw_data /\ n' = n /\ n \in Nat
      /\ input \in Seq(Deal) /\ SortedByLow(input)
      /\ raw_data = input /\ i \in 0..n - 1
      /\ j \in i..n /\ datapos = j /\ last = LowAt(i) + 1
      /\ j < n => LowAt(j) # LowAt(i)
      /\ \A m \in i..j - 1 : LowAt(m) = LowAt(i)
  BY DEF ChunkInv, ChunkTypeOK, LoopInv, n, SameRow, LowAt
<1>2. ChunkTypeOK'  BY <1>1 DEF ChunkInv, ChunkTypeOK
<1>3. ASSUME NEW m \in 0..n - 1
      PROVE  m < j <=> LowAt(m) < last
  <2>1. LowAt(m) \in Int /\ LowAt(i) \in Int
    BY <1>1, DealAt, ChunkAssumption
  <2>2. CASE m < i
    <3>1. LowAt(m) <= LowAt(i)  BY <1>1, <2>2, Order
    <3> QED  BY <1>1, <2>1, <2>2, <3>1
  <2>3. CASE i <= m /\ m < j
    BY <1>1, <2>1, <2>3
  <2>4. CASE j <= m
    <3>1. j \in 0..n - 1 /\ LowAt(j) \in Int
      BY <1>1, <2>4, DealAt, ChunkAssumption
    <3>2. LowAt(i) <= LowAt(j)  BY <1>1, <3>1, Order
    <3>3. LowAt(j) <= LowAt(m)  BY <1>1, <2>4, <3>1, Order
    <3> QED  BY <1>1, <2>1, <2>4, <3>1, <3>2, <3>3
  <2> QED  BY <1>1, <2>2, <2>3, <2>4
<1>4. \A k \in 0..last - Base - 1 : Separates(pos[k], k)'
  BY <1>1 DEF ChunkInv, LoopInv, Separates, LowAt
<1>5. i' = j /\ i' \in 0..n
  BY <1>1
<1>6. LoopInv'
  BY <1>1, <1>3, <1>4, <1>5 DEF ChunkInv, LoopInv, LowAt
<1>7. LayoutInv'  BY DEF LayoutInv
<1> QED  BY <1>2, <1>6, <1>7 DEF ChunkInv

(* No deal is left: the remaining keys start at the end of data. *)
LEMMA FillTailInv ==
  ASSUME ChunkInv, FillTail
  PROVE  ChunkInv'
<1> USE DEF FillTail
<1>1. /\ input' = input /\ n' = n /\ n \in Nat
      /\ input \in Seq(Deal) /\ SortedByLow(input)
      /\ raw_data = input /\ i = n /\ datapos = n
      /\ last \in Base..Base + ChunkKeys
      /\ data \in [0..n - 1 -> High \union {Junk}]
      /\ \A m \in 0..n - 1 : data[m] = input[m + 1].high
      /\ \A m \in 0..n - 1 : LowAt(m) < last
      /\ \A k \in 0..last - Base - 1 : Separates(pos[k], k)
  BY DEF ChunkInv, ChunkTypeOK, LoopInv, n
<1>2. ChunkTypeOK'  BY <1>1 DEF ChunkInv, ChunkTypeOK, FillPos
<1>3. LoopInv'  BY <1>1 DEF ChunkInv, LoopInv
<1>4. ASSUME NEW k \in 0..ChunkKeys
      PROVE  Separates(pos'[k], k)
  <2>1. CASE Base + k < last
    <3>1. pos'[k] = pos[k] /\ Separates(pos[k], k)
      BY <1>1, <2>1, ChunkAssumption DEF FillPos
    <3> QED  BY <3>1
  <2>2. CASE last <= Base + k
    <3>1. pos'[k] = n
      BY <1>1, <2>2, ChunkAssumption DEF FillPos
    <3>2. ASSUME NEW m \in 0..n - 1
          PROVE  LowAt(m) < Base + k
      <4>1. LowAt(m) \in Int  BY <1>1, DealAt, ChunkAssumption
      <4> QED  BY <1>1, <2>2, <4>1, ChunkAssumption
    <3> QED  BY <1>1, <3>1, <3>2 DEF Separates
  <2> QED  BY <1>1, <2>1, <2>2, ChunkAssumption
<1>5. pos' \in [0..ChunkKeys -> 0..n]
  BY <1>4 DEF FillPos, Separates
<1>6. data' = [m \in 0..n - 1 |-> input[m + 1].high]
  BY <1>1
<1>7. WholeLayout(Arrays)'
  BY <1>1, <1>4, <1>5, <1>6 DEF WholeLayout, Arrays, Separates, LowAt
<1> QED  BY <1>2, <1>3, <1>7 DEF ChunkInv, LayoutInv

(* A whole layout survives the trip through the file. *)
LEMMA DumpInv ==
  ASSUME ChunkInv, ChunkDump
  PROVE  ChunkInv'
<1> USE DEF ChunkDump
<1>1. /\ input' = input /\ n' = n /\ n \in Nat
      /\ input \in Seq(Deal)
      /\ WholeLayout(Arrays)
  BY DEF ChunkInv, ChunkTypeOK, LayoutInv, n
<1>2. ChunkTypeOK'  BY DEF ChunkInv, ChunkTypeOK
<1>3. LoopInv'  BY <1>1 DEF ChunkInv, LoopInv
<1>4. pos[ChunkKeys] = n
  <2>1. Separates(pos[ChunkKeys], ChunkKeys)
    BY <1>1, ChunkAssumption DEF WholeLayout, Arrays
  <2>2. \A m \in 0..n - 1 : LowAt(m) < Base + ChunkKeys
    BY <1>1, DealAt, ChunkAssumption
  <2>3. pos[ChunkKeys] \in 0..n
         /\ \A m \in 0..n - 1 : m < pos[ChunkKeys]
    BY <2>1, <2>2 DEF Separates
  <2>4. CASE n = 0
    BY <2>3, <2>4
  <2>5. CASE n > 0
    <3>1. n - 1 \in 0..n - 1  BY <1>1, <2>5
    <3> QED  BY <1>1, <2>3, <3>1
  <2> QED  BY <1>1, <2>4, <2>5
<1>5. file' = Arrays
  BY <1>1, <1>4 DEF WholeLayout, Arrays
<1>6. WholeLayout(file)'
  BY <1>1, <1>5 DEF WholeLayout, Separates, LowAt
<1> QED  BY <1>2, <1>3, <1>6 DEF ChunkInv, LayoutInv

LEMMA LoadInv ==
  ASSUME ChunkInv, ChunkLoad
  PROVE  ChunkInv'
<1> USE DEF ChunkLoad
<1>1. /\ input' = input /\ n' = n /\ n \in Nat
      /\ input \in Seq(Deal)
      /\ WholeLayout(file)
  BY DEF ChunkInv, ChunkTypeOK, LayoutInv, n
<1>2. ChunkTypeOK'  BY <1>1 DEF ChunkInv, ChunkTypeOK, WholeLayout
<1>3. LoopInv'  BY <1>1 DEF ChunkInv, LoopInv
<1>4. file.pos[ChunkKeys] = n
  <2>1. Separates(file.pos[ChunkKeys], ChunkKeys)
    BY <1>1, ChunkAssumption DEF WholeLayout
  <2>2. \A m \in 0..n - 1 : LowAt(m) < Base + ChunkKeys
    BY <1>1, DealAt, ChunkAssumption
  <2>3. file.pos[ChunkKeys] \in 0..n
         /\ \A m \in 0..n - 1 : m < file.pos[ChunkKeys]
    BY <2>1, <2>2 DEF Separates
  <2>4. CASE n = 0
    BY <2>3, <2>4
  <2>5. CASE n > 0
    <3>1. n - 1 \in 0..n - 1  BY <1>1, <2>5
    <3> QED  BY <1>1, <2>3, <3>1
  <2> QED  BY <1>1, <2>4, <2>5
<1>5. Arrays'.pos = file.pos /\ Arrays'.data = file.data
  BY <1>1, <1>4 DEF WholeLayout, Arrays
<1>6. WholeLayout(Arrays)' /\ WholeLayout(file)'
  BY <1>1, <1>5 DEF WholeLayout, Arrays, Separates, LowAt
<1> QED  BY <1>2, <1>3, <1>6 DEF ChunkInv, LayoutInv

LEMMA StutterInv ==
  ASSUME ChunkInv, UNCHANGED chunkVars
  PROVE  ChunkInv'
BY DEF ChunkInv, ChunkTypeOK, LoopInv, LayoutInv, WholeLayout, Arrays, Separates,
       LowAt, n, chunkVars

------------------------------------------------------------------------------
(* The loop of transform and the file keep the layout they promise. *)
THEOREM LayoutInvariant == ChunkSpec => []ChunkInv
<1>1. ChunkInit => ChunkInv  BY InitInv
<1>2. ChunkInv /\ [ChunkNext]_chunkVars => ChunkInv'
  <2> SUFFICES ASSUME ChunkInv, [ChunkNext]_chunkVars
               PROVE  ChunkInv'
    OBVIOUS
  <2>1. CASE StartRow  BY <2>1, StartRowInv
  <2>2. CASE CopyDeal  BY <2>2, CopyDealInv
  <2>3. CASE EndRow  BY <2>3, EndRowInv
  <2>4. CASE FillTail  BY <2>4, FillTailInv
  <2>5. CASE ChunkDump  BY <2>5, DumpInv
  <2>6. CASE ChunkLoad  BY <2>6, LoadInv
  <2>7. CASE Loaded  BY <2>7, StutterInv DEF Loaded
  <2>8. CASE UNCHANGED chunkVars  BY <2>8, StutterInv
  <2> QED
    BY <2>1, <2>2, <2>3, <2>4, <2>5, <2>6, <2>7, <2>8 DEF ChunkNext
<1> QED  BY <1>1, <1>2, PTL DEF ChunkSpec

(* The type invariant of the chunk. *)
THEOREM ChunkTypeCorrect == ChunkSpec => []ChunkTypeOK
BY LayoutInvariant, PTL DEF ChunkInv

(* After transform, and again after load, each key's row of data holds     *)
(* exactly the deals with that key.                                        *)
THEOREM RowsCorrect == ChunkSpec => []RowsExact
<1>1. ChunkInv => RowsExact
  <2> SUFFICES ASSUME ChunkInv, step \in {"built", "loaded"}
               PROVE  /\ \A k \in 0..ChunkKeys - 1 :
                           KeyRow(k) = pos[k]..pos[k + 1] - 1
                      /\ \A m \in 0..n - 1 : data[m] = input[m + 1].high
    BY DEF RowsExact
  <2>1. /\ WholeLayout(Arrays) /\ input \in Seq(Deal) /\ n \in Nat
    BY DEF ChunkInv, LayoutInv, ChunkTypeOK, n
  <2>2. /\ \A k \in 0..ChunkKeys : Separates(pos[k], k)
        /\ data = [m \in 0..n - 1 |-> input[m + 1].high]
    BY <2>1 DEF WholeLayout, Arrays
  <2>3. ASSUME NEW k \in 0..ChunkKeys - 1
        PROVE  KeyRow(k) = pos[k]..pos[k + 1] - 1
    <3>1. /\ k \in Nat /\ pos[k] \in 0..n /\ pos[k + 1] \in 0..n
          /\ \A m \in 0..n - 1 : /\ m < pos[k] <=> LowAt(m) < Base + k
                                 /\ m < pos[k + 1] <=> LowAt(m) < Base + (k + 1)
      BY <2>2, ChunkAssumption DEF Separates
    <3>2. ASSUME NEW m \in 0..n - 1
          PROVE  m \in KeyRow(k) <=> m \in pos[k]..pos[k + 1] - 1
      <4>1. LowAt(m) \in Int  BY <2>1, DealAt, ChunkAssumption
      <4>2. LowAt(m) = Base + k <=> ~(m < pos[k]) /\ m < pos[k + 1]
        BY <3>1, <4>1, ChunkAssumption
      <4> QED  BY <3>1, <4>2 DEF KeyRow
    <3>3. KeyRow(k) \subseteq 0..n - 1 /\ pos[k]..pos[k + 1] - 1 \subseteq 0..n - 1
      BY <2>1, <3>1 DEF KeyRow
    <3> QED  BY <3>2, <3>3
  <2> QED  BY <2>2, <2>3
<1> QED  BY <1>1, LayoutInvariant, PTL

(* No step of transform writes outside data or pos. *)
THEOREM WritesInBounds == ChunkSpec => []InBounds
<1>1. ChunkInv => InBounds
  BY ChunkAssumption DEF ChunkInv, ChunkTypeOK, LoopInv, InBounds, SameRow, n
<1> QED  BY <1>1, LayoutInvariant, PTL

------------------------------------------------------------------------------
(* How many steps transform, dump and load still take at most: three for   *)
(* each deal that is not yet in a finished row.                            *)
StepsLeft == CASE step = "row" -> 3 * (n - i) + 3
               [] step = "copy" /\ j = i -> 3 * (n - i) + 2
               [] step = "copy" /\ j # i -> 3 * (n - j) + 4
               [] step = "built" -> 2
               [] step = "dumped" -> 1
               [] step = "loaded" -> 0

(* Every step of the chunk brings its end nearer: the loops of transform,  *)
(* whose outer index is set by the inner one, never stand still.           *)
Descends == [][/\ StepsLeft \in Nat /\ StepsLeft' \in Nat
               /\ StepsLeft' < StepsLeft]_chunkVars

(* A row is left only after its own first deal was copied. *)
LEMMA RowMoves ==
  ASSUME ChunkInv, EndRow
  PROVE  j # i
<1>1. i \in 0..n - 1 /\ n \in Nat /\ raw_data = input
  BY DEF ChunkInv, ChunkTypeOK, LoopInv, EndRow, n
<1> QED  BY <1>1 DEF EndRow, SameRow, n

LEMMA StepDescends ==
  ASSUME ChunkInv, ChunkNext, chunkVars' # chunkVars
  PROVE  StepsLeft \in Nat /\ StepsLeft' \in Nat /\ StepsLeft' < StepsLeft
<1>1. /\ n \in Nat /\ i \in Nat /\ j \in Nat
      /\ step \in {"row", "copy"} => raw_data = input /\ i \in 0..n
      /\ step = "copy" => i < n /\ j \in i..n
  BY DEF ChunkInv, ChunkTypeOK, LoopInv, n
<1>2. CASE StartRow
  <2>1. step = "row" /\ i < n /\ step' = "copy" /\ i' = i /\ j' = i /\ n' = n
    BY <1>1, <1>2 DEF StartRow, n
  <2> QED  BY <1>1, <2>1 DEF StepsLeft
<1>3. CASE CopyDeal
  <2>1. /\ step = "copy" /\ step' = "copy" /\ i' = i /\ j' = j + 1 /\ n' = n
        /\ j < n
    BY <1>1, <1>3 DEF CopyDeal, SameRow, n
  <2>2. StepsLeft' = 3 * (n - (j + 1)) + 4
    BY <1>1, <2>1 DEF StepsLeft
  <2>3. StepsLeft = IF j = i THEN 3 * (n - i) + 2 ELSE 3 * (n - j) + 4
    BY <1>1, <2>1 DEF StepsLeft
  <2> QED  BY <1>1, <2>1, <2>2, <2>3
<1>4. CASE EndRow
  <2>1. step = "copy" /\ step' = "row" /\ i' = j /\ n' = n
    BY <1>4 DEF EndRow, n
  <2>2. j # i  BY <1>4, RowMoves
  <2> QED  BY <1>1, <2>1, <2>2 DEF StepsLeft
<1>5. CASE FillTail
  <2>1. step = "row" /\ step' = "built" /\ i = n
    BY <1>1, <1>5 DEF FillTail, n
  <2> QED  BY <1>1, <2>1 DEF StepsLeft
<1>6. CASE ChunkDump
  BY <1>6 DEF ChunkDump, StepsLeft
<1>7. CASE ChunkLoad
  BY <1>7 DEF ChunkLoad, StepsLeft
<1>8. ~Loaded  BY DEF Loaded
<1> QED  BY <1>2, <1>3, <1>4, <1>5, <1>6, <1>7, <1>8 DEF ChunkNext

(* What Terminates rests on besides fairness. *)
THEOREM AlwaysNearer == ChunkSpec => Descends
<1>1. ChunkInv /\ [ChunkNext]_chunkVars
        => [/\ StepsLeft \in Nat /\ StepsLeft' \in Nat
            /\ StepsLeft' < StepsLeft]_chunkVars
  BY StepDescends
<1> QED  BY <1>1, LayoutInvariant, PTL DEF ChunkSpec, Descends
==============================================================================
