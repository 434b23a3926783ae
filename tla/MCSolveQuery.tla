----------------------------- MODULE MCSolveQuery -----------------------------
(* A chunk on its way to the file and back, and the oracle that looks up   *)
(* its rows, on small instances.                                           *)
EXTENDS MCChunkIndex, MCQuery

VARIABLE part  \* what is looked at, "chunk" or "query"

partVars == <<part, chunkVars, vars>>

PartInit == /\ part \in {"chunk", "query"}
            /\ MCInit /\ Init
            /\ part = "query" => input = <<>>
            /\ part = "chunk" => tb = CHOOSE t \in Hold : TRUE

PartNext == \/ part = "chunk" /\ ChunkNext /\ UNCHANGED <<part, vars>>
            \/ part = "query" /\ Next /\ UNCHANGED <<part, chunkVars>>

(* The thread that sorts the chunk runs; no question has to be asked. *)
PartSpec == /\ PartInit /\ [][PartNext]_partVars
            /\ WF_partVars(part = "chunk" /\ ChunkNext /\ UNCHANGED <<part, vars>>)

(* The loops of transform end, whatever rows are empty.  (transform)       *)
ChunkTerminates == part = "chunk" => Terminates
==============================================================================
