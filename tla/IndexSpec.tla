------------------------------ MODULE IndexSpec ------------------------------
(***************************************************************************)
(* What `solve init` promises: after it, the file of chunk id holds every  *)
(* deal whose first hand has its key in that chunk, each exactly once, and *)
(* nothing else.  A file is written once and never again.                  *)
(***************************************************************************)
EXTENDS Integers

CONSTANTS Seeds,      \* the deals, named by the seed of their shuffle
          ChunkIds,   \* the chunks of the key space, over all passes
          ChunkOf,    \* the chunk of a deal: [Seeds -> ChunkIds]
          NoFile      \* the content of a file that was not written

VARIABLE disk         \* the chunk files: a count of each deal, or NoFile

Exact(id) == [s \in Seeds |-> IF ChunkOf[s] = id THEN 1 ELSE 0]

Init == disk = [id \in ChunkIds |-> NoFile]

Publish(id) == /\ disk[id] = NoFile
               /\ disk' = [disk EXCEPT ![id] = Exact(id)]

Next == \E id \in ChunkIds : Publish(id)

Spec == Init /\ [][Next]_disk /\ WF_disk(Next)
==============================================================================
