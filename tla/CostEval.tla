------------------------------- MODULE CostEval -------------------------------
(***************************************************************************)
(* `solve expected`: the expected gain of an order of the cards, summed    *)
(* over the chunks of the index.                                           *)
(*                                                                         *)
(* The chunks do not fit in memory together, so main splits them into NSep *)
(* ranges.  For each range the workers load the chunks                     *)
(* (load_query), add up the gains (eval_cost) and free them (unload_query);*)
(* the main thread joins them after each of the three.  `solve optim` runs *)
(* the same three phases on one range for every generation of permutations.*)
(*                                                                         *)
(* A total over chunks is a count of how often each chunk is in it: a      *)
(* chunk forgotten or added twice shows, whatever its gain is.             *)
(***************************************************************************)
EXTENDS Integers, Sequences

CONSTANTS Workers,    \* the nthreads worker threads
          TotChunks,  \* tot_chunks
          NSep,       \* nsep
          NPerms,     \* perms->size(): the orders evaluated together
          Percent     \* the 100 of the progress reports

ASSUME EvalAssumption == /\ Workers # {}
                         /\ TotChunks \in Nat
                         /\ NSep \in Nat \ {0}
                         /\ NPerms \in Nat
                         /\ Percent \in Nat \ {0}

VARIABLES
  phase,       \* the main thread: "sep", "load", "eval", "unload", "end", "crashed"
  k,           \* its loop variable: the range
  low_range, high_range,
  q,           \* GlobalData::q
  pc,          \* what each worker thread does next
  item,        \* the chunk a worker took from the queue
  count,       \* its local total of elements: count, or cnt in eval_cost
  j,           \* the next order eval_cost rates the chunk for
  loaded,      \* the chunks whose data and pos are in memory
  cur_cost,    \* PermEval::cur_cost of each order
  totelem      \* GlobalData::totelem

worker == <<pc, item, count, j>>
vars == <<phase, k, low_range, high_range, q, worker, loaded, cur_cost, totelem>>

------------------------------------------------------------------------------
Chunks == 0..TotChunks - 1
Perms == 0..NPerms - 1
Totals == [Chunks -> Nat]
Zero == [c \in Chunks |-> 0]
Plus(t, u) == [c \in Chunks |-> t[c] + u[c]]
One(d) == [c \in Chunks |-> IF c = d THEN 1 ELSE 0]

(* Variant: rounded down. *)
active_range_down == TotChunks \div NSep

active_range == (TotChunks + NSep - 1) \div NSep
Least(a, b) == IF a <= b THEN a ELSE b

(* What FOR(i, low_range, high_range) data.q.add(i) appends. *)
RangeQueue(low, high) ==
  [i \in 1..(IF low < high THEN high - low ELSE 0) |-> low + i - 1]

(* Variant: one thread is joined. *)
OneJoined == \E w \in Workers : pc[w] = "joined"

AllJoined == \A w \in Workers : pc[w] = "joined"

Init == /\ phase = "sep"
        /\ k = 0
        /\ low_range = 0 /\ high_range = 0
        /\ q = <<>>
        /\ pc = [w \in Workers |-> "joined"]
        /\ item = [w \in Workers |-> 0]
        /\ count = [w \in Workers |-> Zero]
        /\ j = [w \in Workers |-> 0]
        /\ loaded = {}
        /\ cur_cost = [p \in Perms |-> Zero]
        /\ totelem = Zero

------------------------------------------------------------------------------
(* The main thread.  Each phase queues the range and starts the workers,   *)
(* once those of the phase before it have been joined.                     *)
StartWorkers(low, high) ==
  /\ q' = q \o RangeQueue(low, high)
  /\ pc' = [w \in Workers |-> "get"]
  /\ count' = [w \in Workers |-> Zero]
  /\ UNCHANGED <<item, j>>

(* x.cur_cost = 0, then Manager::load_query. *)
LoadQuery ==
  /\ phase = "sep"
  /\ k < NSep
  /\ phase' = "load"
  /\ cur_cost' = [p \in Perms |-> Zero]
  /\ low_range' = active_range * k
  /\ high_range' = Least(TotChunks, active_range * (k + 1))
  /\ totelem' = Zero
  /\ StartWorkers(low_range', high_range')
  /\ UNCHANGED <<k, loaded>>

(* Manager::do_cost_eval *)
DoCostEval == /\ phase = "load"
              /\ AllJoined
              /\ phase' = "eval"
              /\ StartWorkers(low_range, high_range)
              /\ UNCHANGED <<k, low_range, high_range, loaded, cur_cost, totelem>>

(* Manager::unload_query *)
UnloadQuery == /\ phase = "eval"
               /\ AllJoined
               /\ phase' = "unload"
               /\ StartWorkers(low_range, high_range)
               /\ UNCHANGED <<k, low_range, high_range, loaded, cur_cost, totelem>>

NextSep == /\ phase = "unload"
           /\ AllJoined
           /\ k' = k + 1
           /\ phase' = IF k + 1 < NSep THEN "sep" ELSE "end"
           /\ UNCHANGED <<low_range, high_range, q, worker, loaded, cur_cost, totelem>>

MainThread == LoadQuery \/ DoCostEval \/ UnloadQuery \/ NextSep

------------------------------------------------------------------------------
(* Queue::get, and the progress report of each taken chunk: cur_pos is     *)
(* divided by info_period, and the process dies if that is zero.           *)
Running == phase \in {"load", "eval", "unload"}
InfoPeriod == (high_range - low_range) \div Percent

Take(w) ==
  /\ Running /\ pc[w] = "get" /\ q # <<>>
  /\ q' = Tail(q)
  /\ item' = [item EXCEPT ![w] = Head(q)]
  /\ IF InfoPeriod = 0 THEN phase' = "crashed" /\ UNCHANGED pc
                       ELSE pc' = [pc EXCEPT ![w] = "chunk"] /\ UNCHANGED phase
  /\ UNCHANGED <<k, low_range, high_range, count, j, loaded, cur_cost, totelem>>

(* Worker::load_query: Chunk::init, Chunk::load. *)
Load(w) ==
  /\ phase = "load" /\ pc[w] = "chunk"
  /\ loaded' = loaded \union {item[w]}
  /\ count' = [count EXCEPT ![w] = Plus(@, One(item[w]))]
  /\ pc' = [pc EXCEPT ![w] = "get"]
  /\ UNCHANGED <<phase, k, low_range, high_range, q, item, j, cur_cost, totelem>>

(* Worker::eval_cost: the elements are counted, then the chunk is rated    *)
(* for every order; updateCost adds a gain under the order's mutex.        *)
Count(w) ==
  /\ phase = "eval" /\ pc[w] = "chunk"
  /\ count' = [count EXCEPT ![w] = Plus(@, One(item[w]))]
  /\ j' = [j EXCEPT ![w] = 0]
  /\ pc' = [pc EXCEPT ![w] = "rate"]
  /\ UNCHANGED <<phase, k, low_range, high_range, q, item, loaded, cur_cost, totelem>>

(* Variant: no mutex, so that an addition to an order that another worker  *)
(* adds to at the same time may be lost.                                   *)
UpdateCostUnlocked(w) ==
  /\ phase = "eval" /\ pc[w] = "rate" /\ j[w] < NPerms
  /\ \/ cur_cost' = [cur_cost EXCEPT ![j[w]] = Plus(@, One(item[w]))]
     \/ /\ \E v \in Workers \ {w} : pc[v] = "rate" /\ j[v] = j[w]
        /\ UNCHANGED cur_cost
  /\ j' = [j EXCEPT ![w] = @ + 1]
  /\ UNCHANGED <<phase, k, low_range, high_range, q, pc, item, count, loaded, totelem>>

UpdateCost(w) ==
  /\ phase = "eval" /\ pc[w] = "rate" /\ j[w] < NPerms
  /\ cur_cost' = [cur_cost EXCEPT ![j[w]] = Plus(@, One(item[w]))]
  /\ j' = [j EXCEPT ![w] = @ + 1]
  /\ UNCHANGED <<phase, k, low_range, high_range, q, pc, item, count, loaded, totelem>>

Rated(w) ==
  /\ phase = "eval" /\ pc[w] = "rate" /\ j[w] >= NPerms
  /\ pc' = [pc EXCEPT ![w] = "get"]
  /\ UNCHANGED <<phase, k, low_range, high_range, q, item, count, j, loaded,
                 cur_cost, totelem>>

(* Variant: the chunk is not freed. *)
UnloadNothing(w) ==
  /\ phase = "unload" /\ pc[w] = "chunk"
  /\ pc' = [pc EXCEPT ![w] = "get"]
  /\ UNCHANGED <<phase, k, low_range, high_range, q, item, count, j, loaded,
                 cur_cost, totelem>>

(* Worker::unload_query *)
Unload(w) ==
  /\ phase = "unload" /\ pc[w] = "chunk"
  /\ loaded' = loaded \ {item[w]}
  /\ pc' = [pc EXCEPT ![w] = "get"]
  /\ UNCHANGED <<phase, k, low_range, high_range, q, item, count, j, cur_cost, totelem>>

(* The queue is empty: load_query and eval_cost add their totals under the *)
(* lock (GlobalData::addn).                                                *)
Finish(w) ==
  /\ Running /\ pc[w] = "get" /\ q = <<>>
  /\ totelem' = IF phase = "unload" THEN totelem ELSE Plus(totelem, count[w])
  /\ pc' = [pc EXCEPT ![w] = "joined"]
  /\ UNCHANGED <<phase, k, low_range, high_range, q, item, count, j, loaded, cur_cost>>

Worker(w) == \/ Take(w) \/ Load(w) \/ Count(w) \/ UpdateCost(w) \/ Rated(w)
             \/ Unload(w) \/ Finish(w)

Stopped == phase \in {"end", "crashed"} /\ UNCHANGED vars

Next == MainThread \/ (\E w \in Workers : Worker(w)) \/ Stopped

Fairness == WF_vars(MainThread) /\ \A w \in Workers : WF_vars(Worker(w))

Spec == Init /\ [][Next]_vars /\ Fairness

------------------------------------------------------------------------------
InRange == {c \in Chunks : low_range <= c /\ c < high_range}
OnceInRange == [c \in Chunks |-> IF c \in InRange THEN 1 ELSE 0]

(* Every variable keeps its type. *)
TypeOK == /\ phase \in {"sep", "load", "eval", "unload", "end", "crashed"}
          /\ k \in 0..NSep
          /\ low_range \in Nat /\ high_range \in 0..TotChunks
          /\ q \in Seq(Chunks)
          /\ pc \in [Workers -> {"joined", "get", "chunk", "rate"}]
          /\ item \in [Workers -> Nat]
          /\ count \in [Workers -> Totals]
          /\ j \in [Workers -> Nat]
          /\ loaded \subseteq Chunks
          /\ cur_cost \in [Perms -> Totals]
          /\ totelem \in Totals

(* eval_cost reads chunk.pos and chunk.data without a lock: the chunk is   *)
(* in memory from the moment it is taken until the worker is done with it. *)
ReadsLoaded ==
  \A w \in Workers : phase = "eval" /\ pc[w] \in {"chunk", "rate"} => item[w] \in loaded

(* Only the chunks of the current range are in memory, and none is left    *)
(* when main goes on to the next range.  (Manager::unload_query)           *)
MemoryBounded == /\ loaded \subseteq InRange
                 /\ phase \in {"sep", "end"} => loaded = {}

(* After the join of do_cost_eval, while main has still to leave the range *)
(* (its average for the range divides this cost), the cost of every order  *)
(* has the gain of each chunk of the range, once, and of no other chunk:   *)
(* no addition of the workers is lost or repeated.  (updateCost)           *)
CostExact ==
  phase = "unload" => \A p \in Perms : cur_cost[p] = OnceInRange

(* The ranges cover the index: every chunk is rated at some time. *)
EveryChunkRated ==
  \A c \in Chunks : <>(\E w \in Workers : pc[w] = "rate" /\ item[w] = c)

------------------------------------------------------------------------------
(* The inductive invariant: each chunk of the range waits in the queue, is *)
(* held by one worker, or is done with in this phase.                      *)
Queued(c) == \E i \in 1..Len(q) : q[i] = c
Holding(w) == pc[w] \in {"chunk", "rate"}
Held(w, c) == Holding(w) /\ item[w] = c
Open(c) == Queued(c) \/ \E w \in Workers : Held(w, c)

Work ==
  /\ \A i \in 1..Len(q) : q[i] \in InRange
  /\ \A a, b \in 1..Len(q) : q[a] = q[b] => a = b
  /\ \A w \in Workers : Holding(w) => item[w] \in InRange /\ ~Queued(item[w])
  /\ \A v, w \in Workers : Holding(v) /\ Holding(w) /\ item[v] = item[w] => v = w
  /\ \A w \in Workers : pc[w] = "rate" => phase = "eval"
  /\ \A w \in Workers : pc[w] = "joined" => q = <<>>

Idle == AllJoined /\ q = <<>> /\ loaded = {}

Done(p, c) ==
  /\ c \in InRange /\ ~Queued(c)
  /\ \A w \in Workers : Held(w, c) => pc[w] = "rate" /\ p < j[w]

IInv ==
  /\ TypeOK
  /\ Running => Work
  /\ phase \in {"sep", "end"} => Idle
  /\ phase # "end" => k < NSep
  /\ loaded \subseteq InRange
  /\ phase = "load" =>
       /\ \A c \in InRange : c \in loaded <=> ~Open(c)
       /\ cur_cost = [p \in Perms |-> Zero]
  /\ phase = "eval" =>
       /\ loaded = InRange
       /\ \A p \in Perms, c \in Chunks : cur_cost[p][c] = IF Done(p, c) THEN 1 ELSE 0
  /\ phase = "unload" => \A c \in InRange : c \in loaded <=> Open(c)
  /\ CostExact
==============================================================================
