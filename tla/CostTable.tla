------------------------------ MODULE CostTable ------------------------------
(***************************************************************************)
(* `solve cost` and the start of every later mode: the table of the        *)
(* category of each hand.                                                  *)
(*                                                                         *)
(* Manager::init_cost queues every hand number, and the workers compute    *)
(* the category of the hands without a repeated card into a private buffer *)
(* (Worker::init_cost).  A full buffer is pushed to the shared table under *)
(* costLock (GlobalData::pushCosts); the first push allocates the table.   *)
(* Then the table is written to its file in batches (dumpCost), and the    *)
(* next process reads it back, in batches of another size (loadCost).      *)
(***************************************************************************)
EXTENDS Integers, Sequences

CONSTANTS Workers,      \* the nthreads worker threads
          Hands,        \* tot: the number of ordered hands
          MaxHand,      \* max_handforcost: the number of slots of the table
          HandForCost,  \* getHandForCost: the slot of a hand
          Distinct,     \* the hands whose cards are all different
          Cost,         \* getCostNoCache: the category of a slot
          BufSize,      \* maxCostBufSize
          WriteBatch,   \* batch_size of dumpCost
          ReadBatch,    \* batch_size of loadCost
          Unset,        \* 0xff, what the table is filled with
          Junk,         \* the content of memory that was not written
          None          \* tmpCost when it is the null pointer

HandIds == 0..Hands - 1
Slots == 0..MaxHand - 1
Entries == {Cost[x] : x \in Slots} \union {Unset, Junk}

(* Two hands never share a slot: a card takes tmp = 6 bits of it. *)
ASSUME CostAssumption ==
  /\ Workers # {}
  /\ Hands \in Nat
  /\ MaxHand \in Nat \ {0}
  /\ HandForCost \in [HandIds -> Slots]
  /\ \A g, h \in HandIds : HandForCost[g] = HandForCost[h] => g = h
  /\ Distinct \subseteq HandIds
  /\ \A x \in Slots : Cost[x] # Unset
  /\ BufSize \in Nat \ {0}
  /\ WriteBatch \in Nat \ {0}
  /\ ReadBatch \in Nat \ {0}
  /\ None \notin [Slots -> Entries]

VARIABLES
  phase,    \* the main thread: "start", "cost", "dump", "dumped", "load", "end"
  q,        \* GlobalData::q
  pc,       \* what each worker thread does next
  hand,     \* the hand a worker took from the queue
  buffer,   \* costBuffer: the hands whose category is not pushed yet
  tmpCost,  \* GlobalData::tmpCost
  at,       \* the loop variable of dumpCost and of loadCost
  file      \* the cost file

vars == <<phase, q, pc, hand, buffer, tmpCost, at, file>>

------------------------------------------------------------------------------
Init == /\ phase = "start"
        /\ q = <<>>
        /\ pc = [w \in Workers |-> "joined"]
        /\ hand = [w \in Workers |-> 0]
        /\ buffer = [w \in Workers |-> <<>>]
        /\ tmpCost = None
        /\ at = 0
        /\ file = <<>>

(* Manager::init_cost *)
StartCost ==
  /\ phase = "start"
  /\ phase' = "cost"
  /\ q' = q \o [k \in 1..Hands |-> k - 1]
  /\ pc' = [w \in Workers |-> "get"]
  /\ UNCHANGED <<hand, buffer, tmpCost, at, file>>

(* Queue::get *)
Get(w) ==
  /\ pc[w] = "get"
  /\ IF q = <<>>
       THEN pc' = [pc EXCEPT ![w] = "drain"] /\ UNCHANGED <<q, hand>>
       ELSE /\ pc' = [pc EXCEPT ![w] = "hand"]
            /\ hand' = [hand EXCEPT ![w] = Head(q)]
            /\ q' = Tail(q)
  /\ UNCHANGED <<phase, buffer, tmpCost, at, file>>

(* GlobalData::pushCosts, under costLock, and costBuffer.clear(). *)
Pushed(w, x) == \E k \in 1..Len(buffer[w]) : HandForCost[buffer[w][k]] = x
(* Variants: the buffer is kept; every push starts from an empty table. *)
PushCostsKept(w) ==
  /\ tmpCost' = [x \in Slots |-> IF Pushed(w, x) THEN Cost[x]
                                 ELSE IF tmpCost = None THEN Unset
                                 ELSE tmpCost[x]]
  /\ UNCHANGED buffer
PushCostsAnew(w) ==
  /\ tmpCost' = [x \in Slots |-> IF Pushed(w, x) THEN Cost[x] ELSE Unset]
  /\ buffer' = [buffer EXCEPT ![w] = <<>>]

PushCosts(w) ==
  /\ tmpCost' = [x \in Slots |-> IF Pushed(w, x) THEN Cost[x]
                                 ELSE IF tmpCost = None THEN Unset
                                 ELSE tmpCost[x]]
  /\ buffer' = [buffer EXCEPT ![w] = <<>>]

(* Worker::init_cost *)
Flush(w) == /\ pc[w] = "hand"
            /\ Len(buffer[w]) = BufSize
            /\ PushCosts(w)
            /\ UNCHANGED <<phase, q, pc, hand, at, file>>

(* Variant: the same hand is looked at again. *)
SkipInPlace(w) == /\ pc[w] = "hand"
                  /\ Len(buffer[w]) # BufSize
                  /\ hand[w] \notin Distinct
                  /\ UNCHANGED vars

Skip(w) == /\ pc[w] = "hand"
           /\ Len(buffer[w]) # BufSize
           /\ hand[w] \notin Distinct
           /\ pc' = [pc EXCEPT ![w] = "get"]
           /\ UNCHANGED <<phase, q, hand, buffer, tmpCost, at, file>>

(* Variant: a full buffer takes another entry. *)
RateUnchecked(w) == /\ pc[w] = "hand"
                    /\ hand[w] \in Distinct
                    /\ buffer' = [buffer EXCEPT ![w] = Append(@, hand[w])]
                    /\ pc' = [pc EXCEPT ![w] = "get"]
                    /\ UNCHANGED <<phase, q, hand, tmpCost, at, file>>

Rate(w) == /\ pc[w] = "hand"
           /\ Len(buffer[w]) # BufSize
           /\ hand[w] \in Distinct
           /\ buffer' = [buffer EXCEPT ![w] = Append(@, hand[w])]
           /\ pc' = [pc EXCEPT ![w] = "get"]
           /\ UNCHANGED <<phase, q, hand, tmpCost, at, file>>

Drain(w) == /\ pc[w] = "drain"
            /\ PushCosts(w)
            /\ pc' = [pc EXCEPT ![w] = "joined"]
            /\ UNCHANGED <<phase, q, hand, at, file>>

(* Manager::init_cost after the join, and GlobalData::dumpCost. *)
OpenFile == /\ phase = "cost"
            /\ \A w \in Workers : pc[w] = "joined"
            /\ phase' = "dump"
            /\ at' = 0
            /\ UNCHANGED <<q, pc, hand, buffer, tmpCost, file>>

Least(a, b) == IF a <= b THEN a ELSE b

WriteSome ==
  /\ phase = "dump"
  /\ at < MaxHand
  /\ LET need == Least(MaxHand - at, WriteBatch)
     IN  file' = file \o [k \in 1..need |-> tmpCost[at + k - 1]]
  /\ at' = at + WriteBatch
  /\ UNCHANGED <<phase, q, pc, hand, buffer, tmpCost>>

CloseFile == /\ phase = "dump"
             /\ at >= MaxHand
             /\ phase' = "dumped"
             /\ UNCHANGED <<q, pc, hand, buffer, tmpCost, at, file>>

(* A new process: Manager::load_cost and GlobalData::loadCost. *)
StartLoad == /\ phase = "dumped"
             /\ phase' = "load"
             /\ tmpCost' = [x \in Slots |-> Junk]
             /\ at' = 0
             /\ UNCHANGED <<q, pc, hand, buffer, file>>

(* Variant: whole batches only. *)
WholeBatches == MaxHand \div ReadBatch

Batches == (MaxHand + ReadBatch - 1) \div ReadBatch

ReadSome ==
  /\ phase = "load"
  /\ at < Batches
  /\ LET nx == Least(ReadBatch, MaxHand - at * ReadBatch)
     IN  tmpCost' = [x \in Slots |->
                       IF at * ReadBatch <= x /\ x < at * ReadBatch + nx
                         THEN file[x + 1] ELSE tmpCost[x]]
  /\ at' = at + 1
  /\ UNCHANGED <<phase, q, pc, hand, buffer, file>>

EndLoad == /\ phase = "load"
           /\ at >= Batches
           /\ phase' = "end"
           /\ UNCHANGED <<q, pc, hand, buffer, tmpCost, at, file>>

Ready == phase = "end" /\ UNCHANGED vars

------------------------------------------------------------------------------
Worker(w) == Get(w) \/ Flush(w) \/ Skip(w) \/ Rate(w) \/ Drain(w)
MainThread == \/ StartCost \/ OpenFile \/ WriteSome \/ CloseFile
              \/ StartLoad \/ ReadSome \/ EndLoad

Next == MainThread \/ (\E w \in Workers : Worker(w)) \/ Ready

Fairness == WF_vars(MainThread) /\ \A w \in Workers : WF_vars(Worker(w))

Spec == Init /\ [][Next]_vars /\ Fairness

------------------------------------------------------------------------------
Phases == {"start", "cost", "dump", "dumped", "load", "end"}
PCs == {"joined", "get", "hand", "drain"}

(* Every variable keeps its type. *)
TypeOK == /\ phase \in Phases
          /\ q \in Seq(HandIds)
          /\ pc \in [Workers -> PCs]
          /\ hand \in [Workers -> Nat]
          /\ buffer \in [Workers -> Seq(HandIds)]
          /\ tmpCost \in [Slots -> Entries] \union {None}
          /\ at \in Nat
          /\ file \in Seq(Entries)

(* The assertion of pushCosts: whichever worker pushes next, every entry   *)
(* of its buffer finds its slot unset, and no two of them share a slot.    *)
SlotsFresh ==
  \A w \in Workers : \A k \in 1..Len(buffer[w]) :
    LET x == HandForCost[buffer[w][k]]
    IN  /\ tmpCost = None \/ tmpCost[x] = Unset
        /\ \A l \in 1..Len(buffer[w]) : HandForCost[buffer[w][l]] = x => l = k

(* The buffer never outgrows the memory reserved for it.                   *)
(* (Worker::init_cost, costBuffer.reserve)                                 *)
BufferBounded == \A w \in Workers : Len(buffer[w]) <= BufSize

(* The table is allocated by the first push only, and no push touches an   *)
(* entry another one has set.  (GlobalData::pushCosts)                     *)
EntriesFinal ==
  [][phase = "cost" /\ tmpCost # None =>
       /\ tmpCost' # None
       /\ \A x \in Slots : tmpCost[x] # Unset => tmpCost'[x] = tmpCost[x]]_vars

(* What the table promises: the category of every hand of distinct cards,  *)
(* and nothing for the other slots.                                        *)
Full == [x \in Slots |->
           IF \E h \in Distinct : HandForCost[h] = x THEN Cost[x] ELSE Unset]

(* After the join the table is complete, the file is a copy of it, and a   *)
(* process that loads the file has the same table.  (init_cost, dumpCost,  *)
(* loadCost)                                                               *)
TableComplete ==
  /\ phase \in {"dump", "dumped", "end"} => tmpCost = Full
  /\ phase \in {"dumped", "load", "end"} =>
       Len(file) = MaxHand /\ \A x \in Slots : file[x + 1] = Full[x]

(* The table is computed, stored and loaded. *)
Terminates == <>(phase = "end")

------------------------------------------------------------------------------
(* The inductive invariant: where each hand is while the workers run, and  *)
(* how far the two file loops have come.                                   *)
Queued(h) == \E k \in 1..Len(q) : q[k] = h
Held(w, h) == pc[w] = "hand" /\ hand[w] = h
Buffered(w, h) == \E k \in 1..Len(buffer[w]) : buffer[w][k] = h
Pending(h) == Queued(h) \/ \E w \in Workers : Held(w, h) \/ Buffered(w, h)

(* A hand waits in one place only. *)
NeverTwice ==
  /\ \A k, l \in 1..Len(q) : q[k] = q[l] => k = l
  /\ \A w \in Workers : \A k, l \in 1..Len(buffer[w]) :
       buffer[w][k] = buffer[w][l] => k = l
  /\ \A h \in HandIds : \A v, w \in Workers :
       /\ Held(w, h) \/ Buffered(w, h) => ~Queued(h)
       /\ Held(v, h) => ~Buffered(w, h)
       /\ Held(v, h) /\ Held(w, h) => v = w
       /\ Buffered(v, h) /\ Buffered(w, h) => v = w

(* Only distinct cards are buffered. *)
OnlyDistinct == \A h \in HandIds, w \in Workers : Buffered(w, h) => h \in Distinct

(* The slots of the hands that wait nowhere are set, the others are not. *)
Entry(x) == IF tmpCost = None THEN Unset ELSE tmpCost[x]
SettledSlots ==
  /\ \A h \in Distinct :
       Entry(HandForCost[h]) = IF Pending(h) THEN Unset ELSE Cost[HandForCost[h]]
  /\ \A x \in Slots : (\A h \in Distinct : HandForCost[h] # x) => Entry(x) = Unset

ThreadsOfPhase ==
  \A w \in Workers :
    /\ phase # "cost" => pc[w] = "joined" /\ q = <<>>
    /\ phase = "cost" /\ pc[w] \in {"drain", "joined"} => q = <<>>
    /\ phase = "cost" /\ pc[w] = "joined" => tmpCost # None
    /\ pc[w] = "joined" => buffer[w] = <<>>
    /\ pc[w] = "hand" => hand[w] \in HandIds
    /\ Len(buffer[w]) <= BufSize

FileLoops ==
  /\ phase \in {"start", "cost"} => file = <<>>
  /\ phase = "dump" =>
       /\ Len(file) = Least(at, MaxHand)
       /\ \A k \in 1..Len(file) : file[k] = Full[k - 1]
  /\ phase = "load" =>
       /\ tmpCost \in [Slots -> Entries]
       /\ \A x \in Slots : x < at * ReadBatch => tmpCost[x] = Full[x]

IInv == /\ TypeOK
        /\ ThreadsOfPhase
        /\ phase = "start" => tmpCost = None
        /\ phase = "cost" => NeverTwice /\ OnlyDistinct /\ SettledSlots
        /\ FileLoops
        /\ TableComplete
==============================================================================
