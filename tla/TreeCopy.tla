------------------------------- MODULE TreeCopy -------------------------------
(***************************************************************************)
(* What a copy of a tree promises when single entries may fail: everything *)
(* is tried but what lies below a failure, and the report of a copy that   *)
(* did not succeed names exactly the entries that failed.                  *)
(***************************************************************************)
CONSTANTS Entries,   \* of the tree, its root included
          Root,
          Parent     \* the directory of every other entry

VARIABLES copied, failed,
          report     \* of the last copy that came to an end

vars == <<copied, failed, report>>

Init == copied = {} /\ failed = {} /\ report = {}

Tried == copied \cup failed

Reachable == {Root} \cup {n \in Entries \ {Root} : Parent[n] \in copied}

Begin == copied' = {} /\ failed' = {} /\ report' = {}

Copy(n) == /\ n \in Reachable \ Tried
           /\ copied' = copied \cup {n}
           /\ UNCHANGED <<failed, report>>

Fail(n) == /\ n \in Reachable \ Tried
           /\ failed' = failed \cup {n}
           /\ UNCHANGED <<copied, report>>

End == /\ Reachable \subseteq Tried
       /\ report' = failed
       /\ UNCHANGED <<copied, failed>>

(* There is no copy at all. *)
FailRoot == /\ Tried = {}
            /\ failed' = {Root} /\ report' = {Root}
            /\ UNCHANGED copied

Next == \/ Begin \/ End \/ FailRoot
        \/ \E n \in Entries : Copy(n) \/ Fail(n)

Spec == Init /\ [][Next]_vars
==============================================================================
