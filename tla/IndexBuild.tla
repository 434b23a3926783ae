------------------------------ MODULE IndexBuild ------------------------------
(***************************************************************************)
(* `solve init`: Manager::init_compute and the worker threads it runs.     *)
(*                                                                         *)
(* The index of all deals does not fit in memory, so it is built in NPass  *)
(* passes, one per slice of the key space.  A pass has two stages with a   *)
(* join between them.  In stage 1 the workers take blocks of seeds from a  *)
(* shared queue, shuffle a deck for each seed into a private buffer, and   *)
(* push the buffer to the chunks of the current slice under a lock.  In    *)
(* stage 2 they take chunk numbers from the queue, sort the chunk and      *)
(* write it to its file.                                                   *)
(*                                                                         *)
(* A deal is named by its seed; Low[s] is its key (the first hand), and    *)
(* the second hand travels with it.  A multiset of deals is a function     *)
(* [Seeds -> Nat], so that a deal stored twice or lost shows.              *)
(***************************************************************************)
EXTENDS Integers, Sequences, FiniteSets

CONSTANTS Workers,        \* the nthreads worker threads
          MaxSeed,        \* max_seed
          KeyChunk,       \* key_chunk_size: seeds per block
          BufferSize,     \* buffer_size: capacity of a worker's buffer
          NPass,          \* npass
          ChunksPerPass,  \* chunks_per_pass
          ChunkSize,      \* chunk_size: keys per chunk
          Low,            \* key of the deal of each seed
          None            \* "no file" and "no index in memory"

Seeds == 0..MaxSeed - 1
Chunks == 0..ChunksPerPass - 1
ChunkIds == 0..NPass * ChunksPerPass - 1
Deals == [Seeds -> Nat]

(* The blocks tile the seeds, a buffer holds whole blocks ("multiple       *)
(* requried"), and every key lies below max_key.                           *)
ASSUME IndexAssumption ==
  /\ Workers # {}
  /\ MaxSeed \in Nat
  /\ KeyChunk \in Nat \ {0}
  /\ BufferSize \in Nat \ {0}
  /\ NPass \in Nat \ {0}
  /\ ChunksPerPass \in Nat \ {0}
  /\ ChunkSize \in Nat \ {0}
  /\ MaxSeed % KeyChunk = 0
  /\ BufferSize % KeyChunk = 0
  /\ Low \in [Seeds -> 0..NPass * ChunksPerPass * ChunkSize - 1]
  /\ None \notin Deals

VARIABLES
  phase,    \* where the main thread is: "rebase", "stage1", "stage2", "end"
  passId,   \* the current pass
  q,        \* GlobalData::q
  pc,       \* what each worker thread does next
  item,     \* the block or chunk a worker took from the queue
  buffer,   \* Worker::buffer, its first cursize elements
  cursize,  \* Worker::cursize
  raw,      \* Chunk::raw_data of each chunk of the slice
  index,    \* Chunk::data and Chunk::pos, None when not allocated
  disk      \* the chunk files

worker == <<pc, item, buffer, cursize>>
chunks == <<raw, index>>
vars == <<phase, passId, q, worker, chunks, disk>>

------------------------------------------------------------------------------
NoDeals == [s \in Seeds |-> 0]
Block(base) == base..base + KeyChunk - 1

LOW_KEY == passId * ChunksPerPass * ChunkSize
HIGH_KEY == LOW_KEY + ChunksPerPass * ChunkSize
(* Variant: the first key of the slice is left out. *)
IsCurrentPassExclusive(s) == Low[s] > LOW_KEY /\ Low[s] < HIGH_KEY

IsCurrentPass(s) == Low[s] >= LOW_KEY /\ Low[s] < HIGH_KEY
GetChunkId(s) == (Low[s] - LOW_KEY) \div ChunkSize

Init == /\ phase = "rebase"
        /\ passId = 0
        /\ q = <<>>
        /\ pc = [w \in Workers |-> "joined"]
        /\ item = [w \in Workers |-> 0]
        /\ buffer = [w \in Workers |-> NoDeals]
        /\ cursize = [w \in Workers |-> 0]
        /\ raw = [c \in Chunks |-> NoDeals]
        /\ index = [c \in Chunks |-> None]
        /\ disk = [id \in ChunkIds |-> None]

------------------------------------------------------------------------------
(* The main thread.  It fills the queue before it starts the threads; a    *)
(* thread not started yet is one that has not taken its first step.        *)

(* Variant: one thread is joined. *)
OneJoined == \E w \in Workers : pc[w] = "joined"

AllJoined == \A w \in Workers : pc[w] = "joined"

StartStage1 ==
  /\ phase = "rebase"
  /\ phase' = "stage1"
  /\ index' = [c \in Chunks |-> None]
  /\ q' = q \o [i \in 1..MaxSeed \div KeyChunk |-> (i - 1) * KeyChunk]
  /\ pc' = [w \in Workers |-> "get1"]
  /\ cursize' = [w \in Workers |-> 0]
  /\ buffer' = [w \in Workers |-> NoDeals]
  /\ UNCHANGED <<passId, item, raw, disk>>

StartStage2 ==
  /\ phase = "stage1"
  /\ AllJoined
  /\ phase' = "stage2"
  /\ q' = q \o [i \in 1..ChunksPerPass |-> passId * ChunksPerPass + i - 1]
  /\ pc' = [w \in Workers |-> "get2"]
  /\ UNCHANGED <<passId, item, buffer, cursize, chunks, disk>>

EndPass ==
  /\ phase = "stage2"
  /\ AllJoined
  /\ IF passId + 1 < NPass
       THEN phase' = "rebase" /\ passId' = passId + 1
       ELSE phase' = "end" /\ UNCHANGED passId
  /\ UNCHANGED <<q, worker, chunks, disk>>

------------------------------------------------------------------------------
(* Queue::get: under the queue's lock, pop the front element if any.       *)
QueueGet(w, some, none) ==
  IF q = <<>>
    THEN pc' = [pc EXCEPT ![w] = none] /\ UNCHANGED <<q, item>>
    ELSE /\ pc' = [pc EXCEPT ![w] = some]
         /\ item' = [item EXCEPT ![w] = Head(q)]
         /\ q' = Tail(q)

(* Variant: the buffer is pushed, and kept. *)
PushDataKept(w) ==
  /\ raw' = [c \in Chunks |-> [s \in Seeds |->
               raw[c][s] + IF IsCurrentPass(s) /\ GetChunkId(s) = c
                             THEN buffer[w][s] ELSE 0]]
  /\ cursize' = [cursize EXCEPT ![w] = 0]
  /\ UNCHANGED buffer

(* GlobalData::pushData under GlobalData::lock, and cursize = 0: deals     *)
(* outside the slice are skipped.                                          *)
PushData(w) ==
  /\ raw' = [c \in Chunks |-> [s \in Seeds |->
               raw[c][s] + IF IsCurrentPass(s) /\ GetChunkId(s) = c
                             THEN buffer[w][s] ELSE 0]]
  /\ buffer' = [buffer EXCEPT ![w] = NoDeals]
  /\ cursize' = [cursize EXCEPT ![w] = 0]

(* Worker::stage1 *)
Get1(w) == /\ pc[w] = "get1"
           /\ QueueGet(w, "fill", "drain")
           /\ UNCHANGED <<phase, passId, buffer, cursize, chunks, disk>>

Flush(w) == /\ pc[w] = "fill"
            /\ cursize[w] = BufferSize
            /\ PushData(w)
            /\ UNCHANGED <<phase, passId, q, pc, item, index, disk>>

(* Variant: a full buffer is filled further. *)
FillUnchecked(w) ==
  /\ pc[w] = "fill"
  /\ pc' = [pc EXCEPT ![w] = "get1"]
  /\ buffer' = [buffer EXCEPT ![w] = [s \in Seeds |->
                  @[s] + IF s \in Block(item[w]) THEN 1 ELSE 0]]
  /\ cursize' = [cursize EXCEPT ![w] = @ + KeyChunk]
  /\ UNCHANGED <<phase, passId, q, item, chunks, disk>>

Fill(w) ==
  /\ pc[w] = "fill"
  /\ cursize[w] # BufferSize
  /\ pc' = [pc EXCEPT ![w] = "get1"]
  /\ buffer' = [buffer EXCEPT ![w] = [s \in Seeds |->
                  @[s] + IF s \in Block(item[w]) THEN 1 ELSE 0]]
  /\ cursize' = [cursize EXCEPT ![w] = @ + KeyChunk]
  /\ UNCHANGED <<phase, passId, q, item, chunks, disk>>

Drain(w) == /\ pc[w] = "drain"
            /\ pc' = [pc EXCEPT ![w] = "joined"]
            /\ PushData(w)
            /\ UNCHANGED <<phase, passId, q, item, index, disk>>

(* Worker::stage2: transform moves raw_data into data and pos (its layout  *)
(* is the subject of ChunkIndex), dump writes them to the file.            *)
Get2(w) == /\ pc[w] = "get2"
           /\ QueueGet(w, "transform", "joined")
           /\ UNCHANGED <<phase, passId, buffer, cursize, chunks, disk>>

(* Variant: the pass instead of the place in it. *)
PassOfChunk(w) == item[w] \div ChunksPerPass

PassChunk(w) == item[w] % ChunksPerPass

Transform(w) ==
  /\ pc[w] = "transform"
  /\ pc' = [pc EXCEPT ![w] = "dump"]
  /\ index' = [index EXCEPT ![PassChunk(w)] = raw[PassChunk(w)]]
  /\ raw' = [raw EXCEPT ![PassChunk(w)] = NoDeals]
  /\ UNCHANGED <<phase, passId, q, item, buffer, cursize, disk>>

Dump(w) ==
  /\ pc[w] = "dump"
  /\ pc' = [pc EXCEPT ![w] = "get2"]
  /\ disk' = [disk EXCEPT ![item[w]] = index[PassChunk(w)]]
  /\ UNCHANGED <<phase, passId, q, item, buffer, cursize, chunks>>

------------------------------------------------------------------------------
Stage1(w) == Get1(w) \/ Flush(w) \/ Fill(w) \/ Drain(w)
Stage2(w) == Get2(w) \/ Transform(w) \/ Dump(w)
MainThread == StartStage1 \/ StartStage2 \/ EndPass

(* The process has returned from main. *)
Exited == phase = "end" /\ UNCHANGED vars

Next == MainThread \/ (\E w \in Workers : Stage1(w) \/ Stage2(w)) \/ Exited

(* The operating system runs every thread that is not blocked; no lock is  *)
(* held across a step.                                                     *)
Fairness == /\ WF_vars(MainThread)
            /\ \A w \in Workers : WF_vars(Stage1(w) \/ Stage2(w))

Spec == Init /\ [][Next]_vars /\ Fairness

------------------------------------------------------------------------------
Phases == {"rebase", "stage1", "stage2", "end"}
PCs == {"joined", "get1", "fill", "drain", "get2", "transform", "dump"}

(* Every variable keeps its type: what a worker took from the queue is a   *)
(* block base or a chunk id, chunks and files hold counts of deals.        *)
TypeOK == /\ phase \in Phases
          /\ passId \in 0..NPass - 1
          /\ q \in Seq(Nat)
          /\ pc \in [Workers -> PCs]
          /\ item \in [Workers -> Nat]
          /\ buffer \in [Workers -> Deals]
          /\ cursize \in [Workers -> Nat]
          /\ raw \in [Chunks -> Deals]
          /\ index \in [Chunks -> Deals \union {None}]
          /\ disk \in [ChunkIds -> Deals \union {None}]

(* Where a deal is during stage 1. *)
Queued(s) == \E i \in 1..Len(q) : s \in Block(q[i])
Shuffling(w, s) == pc[w] = "fill" /\ s \in Block(item[w])
Buffered(w, s) == buffer[w][s] > 0
Stored(c, s) == raw[c][s] > 0

NeverTwice(s) ==
  /\ \A i, j \in 1..Len(q) : s \in Block(q[i]) /\ s \in Block(q[j]) => i = j
  /\ \A v, w \in Workers : Shuffling(v, s) /\ Shuffling(w, s) => v = w
  /\ \A v, w \in Workers : Buffered(v, s) /\ Buffered(w, s) => v = w
  /\ \A w \in Workers : Shuffling(w, s) => ~Queued(s)
  /\ \A v, w \in Workers : Buffered(w, s) => ~Queued(s) /\ ~Shuffling(v, s)
  /\ \A c \in Chunks, w \in Workers :
       Stored(c, s) => ~Queued(s) /\ ~Shuffling(w, s) /\ ~Buffered(w, s)
  /\ \A w \in Workers : buffer[w][s] <= 1
  /\ \A c \in Chunks : raw[c][s] <= 1

OnlyOwnChunk(s) ==
  \A c \in Chunks : Stored(c, s) => IsCurrentPass(s) /\ GetChunkId(s) = c

NotLost(s) ==
  IsCurrentPass(s) => \/ Queued(s)
                      \/ \E w \in Workers : Shuffling(w, s) \/ Buffered(w, s)
                      \/ Stored(GetChunkId(s), s)

(* During stage 1 a deal of the current slice is in exactly one place, and *)
(* there once: in a queued block, a block being shuffled, a worker's       *)
(* buffer, or the chunk of its key; a deal of another slice never reaches  *)
(* a chunk.  (Worker::stage1, GlobalData::pushData)                        *)
ExactlyOnce ==
  phase = "stage1" =>
    \A s \in Seeds : NeverTwice(s) /\ OnlyOwnChunk(s) /\ NotLost(s)

(* cursize, which tells where the next deal is written and when the buffer *)
(* is full, is the number of deals in the buffer, and that is never past   *)
(* buffer_size.  (Worker::stage1)                                          *)
InBuffer(w) == {s \in Seeds : Buffered(w, s)}
BufferBounded ==
  \A w \in Workers : cursize[w] = Cardinality(InBuffer(w)) /\ cursize[w] <= BufferSize

(* Two workers never hold the same chunk in stage 2: Chunk::transform and  *)
(* dump take no lock.  (Worker::stage2)                                    *)
Sorting(w) == pc[w] \in {"transform", "dump"}
ChunkOwned ==
  \A v, w \in Workers : Sorting(v) /\ Sorting(w) /\ PassChunk(v) = PassChunk(w) => v = w

(* No chunk is sorted while a worker still has deals of stage 1 to push:   *)
(* the join between the stages.  (Manager::init_compute)                   *)
JoinBetweenStages ==
  [][index' # index /\ phase = "stage2" =>
       \A w \in Workers : cursize[w] = 0 /\ pc[w] \notin {"fill", "drain"}]_vars

(***************************************************************************)
(* The inductive invariant behind the properties: where the threads can be *)
(* in each phase, and what the chunks and files hold.                      *)
(***************************************************************************)
ChunkOf == [s \in Seeds |-> Low[s] \div ChunkSize]
Exact(id) == [s \in Seeds |-> IF ChunkOf[s] = id THEN 1 ELSE 0]
FirstId == passId * ChunksPerPass
SliceIds == {id \in ChunkIds : FirstId <= id /\ id < FirstId + ChunksPerPass}

ThreadsOfPhase ==
  \A w \in Workers :
    /\ phase \in {"rebase", "end"} => pc[w] = "joined" /\ q = <<>>
    /\ phase = "stage1" => pc[w] \in {"get1", "fill", "drain", "joined"}
    /\ phase = "stage1" /\ pc[w] \in {"drain", "joined"} => q = <<>>
    /\ phase = "stage2" => pc[w] \in {"get2", "transform", "dump", "joined"}
    /\ phase = "stage2" /\ pc[w] = "joined" => q = <<>>
    /\ pc[w] = "joined" \/ phase = "stage2" => buffer[w] = NoDeals /\ cursize[w] = 0
    /\ cursize[w] <= BufferSize /\ cursize[w] % KeyChunk = 0

Unsorted(id) == disk[id] = None /\ raw[id % ChunksPerPass] = Exact(id)
Sorted(id) == /\ disk[id] = None
              /\ raw[id % ChunksPerPass] = NoDeals
              /\ index[id % ChunksPerPass] = Exact(id)
Written(id) == disk[id] = Exact(id) /\ raw[id % ChunksPerPass] = NoDeals

QueuedChunks ==
  /\ \A i \in 1..Len(q) : q[i] \in SliceIds /\ Unsorted(q[i])
  /\ \A i, j \in 1..Len(q) : q[i] = q[j] => i = j

HeldChunks ==
  /\ \A w \in Workers : Sorting(w) => /\ item[w] \in SliceIds
                                      /\ \A i \in 1..Len(q) : q[i] # item[w]
  /\ \A v, w \in Workers : Sorting(v) /\ Sorting(w) /\ item[v] = item[w] => v = w
  /\ \A w \in Workers : /\ pc[w] = "transform" => Unsorted(item[w])
                        /\ pc[w] = "dump" => Sorted(item[w])

OtherChunksWritten ==
  \A id \in SliceIds : \/ \E i \in 1..Len(q) : q[i] = id
                       \/ \E w \in Workers : Sorting(w) /\ item[w] = id
                       \/ Written(id)

ChunksOfSlice ==
  phase = "stage2" => QueuedChunks /\ HeldChunks /\ OtherChunksWritten

FilesOfPasses ==
  \A id \in ChunkIds :
    /\ id < FirstId \/ phase = "end" => disk[id] = Exact(id)
    /\ id >= FirstId + ChunksPerPass /\ phase # "end" => disk[id] = None
    /\ id >= FirstId /\ phase \in {"rebase", "stage1"} => disk[id] = None

ChunksEmptied == phase \in {"rebase", "end"} => raw = [c \in Chunks |-> NoDeals]

IInv == /\ TypeOK
        /\ ThreadsOfPhase
        /\ ExactlyOnce
        /\ ChunksOfSlice
        /\ FilesOfPasses
        /\ ChunksEmptied

(* What BufferBounded rests on besides: the blocks are blocks of seeds.    *)
BlocksFit ==
  phase = "stage1" =>
    /\ \A i \in 1..Len(q) : q[i] + KeyChunk <= MaxSeed
    /\ \A w \in Workers : pc[w] = "fill" => item[w] + KeyChunk <= MaxSeed

CountInv == /\ BlocksFit
            /\ \A w \in Workers : cursize[w] = Cardinality(InBuffer(w))

(* `solve init` implements IndexSpec: each file is written once, with      *)
(* exactly the deals of its chunk, and all files are written in the end.   *)
(* (Manager::init_compute)                                                 *)
Promise == INSTANCE IndexSpec WITH NoFile <- None
ImplementsIndexSpec == Promise!Spec
==============================================================================
