------------------------------- MODULE MCQuery -------------------------------
(* Query on hands of two cards out of five. *)
EXTENDS Query, TLC

D(a, b, c, d) == [p \in 0..3 |-> <<a, b, c, d>>[p + 1]]

(* Deals: two hands with two and three deals, hands with one deal, and     *)
(* hands no seed deals.                                                    *)
MCDecks == (0 :> D(0, 1, 2, 3)) @@ (1 :> D(0, 1, 4, 2)) @@ (2 :> D(1, 0, 3, 4))
           @@ (3 :> D(4, 2, 0, 1)) @@ (4 :> D(4, 2, 3, 0)) @@ (5 :> D(4, 2, 1, 3))
           @@ (6 :> D(2, 3, 0, 1)) @@ (7 :> D(3, 2, 4, 1))

(* A renaming that is not its own inverse. *)
MCPerm == [c \in 0..4 |-> (c * 2 + 1) % 5]
MCIPerm == [c \in 0..4 |-> CHOOSE a \in 0..4 : MCPerm[a] = c]

(* A payout that tells the position of a card. *)
MCPayout == [x \in 0..63 |-> ((x \div 8) * 3 + (x % 8) * 5) % 7]

MCIntMin == -1000
==============================================================================
