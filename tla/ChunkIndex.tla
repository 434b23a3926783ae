------------------------------ MODULE ChunkIndex ------------------------------
(***************************************************************************)
(* struct Chunk: the layout a chunk of deals is stored in.  transform      *)
(* turns the sorted deals of the chunk into two arrays: data, the second   *)
(* hands in key order, and pos, where pos[k] is the place in data of the   *)
(* first deal with key chunk_base + k.  dump writes both to the file, load *)
(* reads them back, and a query for a hand reads data from pos[k] up to    *)
(* pos[k + 1].                                                             *)
(*                                                                         *)
(* The arrays are indexed from 0 as in the code; deal m of the sequence    *)
(* raw_data is raw[m + 1].                                                 *)
(***************************************************************************)
EXTENDS Integers, Sequences

CONSTANTS ChunkKeys,  \* chunk_size: keys per chunk
          Base,       \* chunk_base: first key of the chunk
          High,       \* the second hands, as encoded by getHand
          Junk        \* the content of memory that was not written

Deal == [low : Base..Base + ChunkKeys - 1, high : High]

ASSUME ChunkAssumption ==
  /\ ChunkKeys \in Nat \ {0}
  /\ Base \in Nat
  /\ Junk \notin Int
  /\ Junk \notin High

VARIABLES
  step,     \* where the code is: "row", "copy", "built", "dumped", "loaded"
  input,    \* the deals as sort left them (what the layout is judged by)
  raw_data, \* the deals of the chunk
  i, j,     \* the loop variables of transform
  last,     \* first key whose pos entry is not written
  datapos,  \* entries of data written
  pos,      \* 0..ChunkKeys -> place in data
  data,     \* 0..n-1 -> second hand
  file      \* what dump wrote: pos, and the first pos[chunk_size] of data

chunkVars == <<step, input, raw_data, i, j, last, datapos, pos, data, file>>

n == Len(input)
LowAt(m) == input[m + 1].low
SortedByLow(s) == \A x, y \in 1..Len(s) : x <= y => s[x].low <= s[y].low

(* sort(ALL(raw_data)) orders by low only, so deals with the same key are  *)
(* left in any order; then data and pos are allocated.                     *)
InitFrom(s) ==
  /\ step = "row"
  /\ input = s
  /\ raw_data = s
  /\ i = 0
  /\ j = 0
  /\ last = Base
  /\ datapos = 0
  /\ pos = [k \in 0..ChunkKeys |-> Junk]
  /\ data = [m \in 0..Len(s) - 1 |-> Junk]
  /\ file = [pos |-> <<>>, data |-> <<>>]

ChunkInit == \E s \in Seq(Deal) : SortedByLow(s) /\ InitFrom(s)

------------------------------------------------------------------------------
(* FOR(k, from, to) pos[k - chunk_base] = datapos *)
FillPos(from, to) ==
  pos' = [k \in 0..ChunkKeys |->
            IF from <= Base + k /\ Base + k < to THEN datapos ELSE pos[k]]

(* The keys up to the next deal's start here. *)
StartRow == /\ step = "row"
            /\ i < Len(raw_data)
            /\ FillPos(last, raw_data[i + 1].low + 1)
            /\ last' = raw_data[i + 1].low + 1
            /\ j' = i
            /\ step' = "copy"
            /\ UNCHANGED <<input, raw_data, i, datapos, data, file>>

(* Variants: later keys, or no key, count as the same row. *)
LaterRow == j < Len(raw_data) /\ raw_data[j + 1].low >= raw_data[i + 1].low
NoRow == j < Len(raw_data) /\ raw_data[j + 1].low < raw_data[i + 1].low

SameRow == j < Len(raw_data) /\ raw_data[j + 1].low = raw_data[i + 1].low

CopyDeal == /\ step = "copy"
            /\ SameRow
            /\ data' = [data EXCEPT ![datapos] = raw_data[j + 1].high]
            /\ datapos' = datapos + 1
            /\ j' = j + 1
            /\ UNCHANGED <<step, input, raw_data, i, last, pos, file>>

(* Variant: the next row starts one deal later. *)
EndRowByOne == /\ step = "copy"
               /\ ~SameRow
               /\ i' = i + 1
               /\ step' = "row"
               /\ UNCHANGED <<input, raw_data, j, last, datapos, pos, data, file>>

EndRow == /\ step = "copy"
          /\ ~SameRow
          /\ i' = j
          /\ step' = "row"
          /\ UNCHANGED <<input, raw_data, j, last, datapos, pos, data, file>>

(* The keys after the last deal, and raw_data.resize(0). *)
FillTail == /\ step = "row"
            /\ i >= Len(raw_data)
            /\ FillPos(last, Base + ChunkKeys + 1)
            /\ raw_data' = <<>>
            /\ step' = "built"
            /\ UNCHANGED <<input, i, j, last, datapos, data, file>>

(* Chunk::dump, then the arrays are freed by Chunk::init. *)
ChunkDump ==
  /\ step = "built"
  /\ file' = [pos |-> pos, data |-> [m \in 0..pos[ChunkKeys] - 1 |-> data[m]]]
  /\ pos' = [k \in 0..ChunkKeys |-> Junk]
  /\ data' = <<>>
  /\ step' = "dumped"
  /\ UNCHANGED <<input, raw_data, i, j, last, datapos>>

(* Chunk::load: the length of data is read from pos. *)
ChunkLoad ==
  /\ step = "dumped"
  /\ pos' = file.pos
  /\ data' = [m \in 0..file.pos[ChunkKeys] - 1 |-> file.data[m]]
  /\ step' = "loaded"
  /\ UNCHANGED <<input, raw_data, i, j, last, datapos, file>>

Loaded == step = "loaded" /\ UNCHANGED chunkVars

ChunkNext == \/ StartRow \/ CopyDeal \/ EndRow \/ FillTail
             \/ ChunkDump \/ ChunkLoad \/ Loaded

ChunkSpec == ChunkInit /\ [][ChunkNext]_chunkVars /\ WF_chunkVars(ChunkNext)

------------------------------------------------------------------------------
ChunkTypeOK == /\ step \in {"row", "copy", "built", "dumped", "loaded"}
               /\ input \in Seq(Deal)
               /\ raw_data \in Seq(Deal)
               /\ i \in Nat /\ j \in Nat /\ last \in Nat /\ datapos \in Nat
               /\ pos \in [0..ChunkKeys -> Nat \union {Junk}]

(* What a reader of the chunk relies on (Chunk::getBestActionForHand): the *)
(* entries of data from pos[k] up to pos[k + 1] are the second hands of    *)
(* exactly the deals whose key is chunk_base + k, each once, with no entry *)
(* of either array left unwritten.                                         *)
KeyRow(k) == {m \in 0..n - 1 : LowAt(m) = Base + k}

RowsExact ==
  step \in {"built", "loaded"} =>
    /\ \A k \in 0..ChunkKeys - 1 : KeyRow(k) = pos[k]..pos[k + 1] - 1
    /\ \A m \in 0..n - 1 : data[m] = input[m + 1].high

(* The copy loop never writes past the n entries data was allocated with,  *)
(* and StartRow never writes past the chunk_size + 1 entries of pos.       *)
InBounds == /\ step = "copy" /\ SameRow => datapos < n
            /\ last <= Base + ChunkKeys

(* The loop invariant of transform: the pos entries below last separate    *)
(* the deals with a smaller key from the others, and data holds the deals  *)
(* before datapos.                                                         *)
Separates(p, k) == /\ p \in 0..n
                   /\ \A m \in 0..n - 1 : m < p <=> LowAt(m) < Base + k

LoopInv ==
  /\ SortedByLow(input)
  /\ last \in Base..Base + ChunkKeys
  /\ step \in {"row", "copy"} =>
       /\ raw_data = input
       /\ i \in 0..n
       /\ data \in [0..n - 1 -> High \union {Junk}]
       /\ \A m \in 0..datapos - 1 : data[m] = input[m + 1].high
       /\ \A k \in 0..last - Base - 1 : Separates(pos[k], k)
  /\ step = "row" =>
       /\ datapos = i
       /\ \A m \in 0..n - 1 : m < i <=> LowAt(m) < last
  /\ step = "copy" =>
       /\ i < n /\ j \in i..n /\ datapos = j
       /\ last = LowAt(i) + 1
       /\ \A m \in i..j - 1 : LowAt(m) = LowAt(i)

Arrays == [pos |-> pos, data |-> data]
WholeLayout(a) ==
  /\ a.pos \in [0..ChunkKeys -> 0..n]
  /\ \A k \in 0..ChunkKeys : Separates(a.pos[k], k)
  /\ a.data = [m \in 0..n - 1 |-> input[m + 1].high]

LayoutInv == /\ step \in {"built", "loaded"} => WholeLayout(Arrays)
             /\ step \in {"dumped", "loaded"} => WholeLayout(file)

ChunkInv == ChunkTypeOK /\ LoopInv /\ LayoutInv

(* transform, dump and load come to an end. *)
Terminates == <>(step = "loaded")
==============================================================================
