----------------------------- MODULE Conversation -----------------------------
(***************************************************************************)
(* What two parties who exchange messages over a connection rely on: each  *)
(* reads what the other has said, in the order in which it was said.  A    *)
(* new connection starts a new conversation.                               *)
(***************************************************************************)
EXTENDS Sequences, Naturals

CONSTANTS Parties,   \* the two of them
          Texts      \* what can be said

VARIABLES said,   \* the texts each party has sent
          heard   \* the texts each party has read

vars == <<said, heard>>

Silence == [p \in Parties |-> <<>>]

Init == said = Silence /\ heard = Silence

Say(p) == /\ \E t \in Texts : said' = [said EXCEPT ![p] = Append(@, t)]
          /\ UNCHANGED heard

(* p reads the next text of the other party. *)
Hear(p) == /\ \E q \in Parties \ {p} :
                /\ Len(heard[p]) < Len(said[q])
                /\ heard' = [heard EXCEPT ![p] = Append(@, said[q][Len(@) + 1])]
           /\ UNCHANGED said

Reconnect == said' = Silence /\ heard' = Silence

Next == (\E p \in Parties : Say(p) \/ Hear(p)) \/ Reconnect

Spec == Init /\ [][Next]_vars
==============================================================================
