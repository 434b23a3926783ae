---------------------------- MODULE MCChunkIndex ----------------------------
(* ChunkIndex on every chunk of at most MaxDeals deals. *)
EXTENDS ChunkIndex

CONSTANT MaxDeals

MCInit == \E len \in 0..MaxDeals : \E s \in [1..len -> Deal] :
            SortedByLow(s) /\ InitFrom(s)
==============================================================================
