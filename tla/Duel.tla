--------------------------------- MODULE Duel ---------------------------------
(***************************************************************************)
(* What a session of the battleships game promises, without boards, ships  *)
(* and shadow boards: of each player there is only the set of ship fields  *)
(* that nobody has hit yet.  Battleships implements it.                    *)
(***************************************************************************)
EXTENDS Integers

CONSTANTS Fields,   \* the fields of a board
          Rounds    \* games a guest has to win

VARIABLES stage,    \* "arrange", "play", "over", or how the session ended
          round,    \* the current game
          turn,     \* who shoots next; when over, who has won
          left      \* the ship fields of each player that are not hit

vars == <<stage, round, turn, left>>

Players == {0, 1}
Opponent(p) == 1 - p

Init == /\ stage = "arrange"
        /\ round = 1
        /\ turn = 0
        /\ left = [p \in Players |-> {}]

(* A ship arrives on fields without a ship; the fleets may now be complete. *)
Arrange == /\ stage = "arrange"
           /\ \E p \in Players : \E ship \in SUBSET (Fields \ left[p]) :
                /\ ship # {}
                /\ left' = [left EXCEPT ![p] = @ \cup ship]
           /\ \/ stage' = "arrange"
              \/ stage' = "play" /\ \A p \in Players : left'[p] # {}
           /\ UNCHANGED <<round, turn>>

(* No room was found for a ship. *)
GiveUp == /\ stage = "arrange"
          /\ stage' = "failed"
          /\ \A p \in Players : left[p] \subseteq left'[p]
          /\ left' \in [Players -> SUBSET Fields]
          /\ UNCHANGED <<round, turn>>

(* A hit takes one ship field and keeps the turn; the last one ends the    *)
(* game.                                                                   *)
Hit == /\ stage = "play"
       /\ \E f \in left[Opponent(turn)] :
            left' = [left EXCEPT ![Opponent(turn)] = @ \ {f}]
       /\ stage' = IF left'[Opponent(turn)] = {} THEN "over" ELSE "play"
       /\ UNCHANGED <<round, turn>>

Miss == /\ stage = "play"
        /\ turn' = Opponent(turn)
        /\ UNCHANGED <<stage, round, left>>

(* The guest, player 0, goes on to the next game with new boards, and has  *)
(* won after the last one; a lost game ends the session.                   *)
NextRound == /\ stage = "over"
             /\ turn = 0
             /\ round < Rounds
             /\ stage' = "arrange"
             /\ round' = round + 1
             /\ left' = [p \in Players |-> {}]
             /\ UNCHANGED turn

Settle == /\ stage = "over"
          /\ \/ turn = 0 /\ round = Rounds /\ stage' = "prize"
             \/ turn = 1 /\ stage' = "lost"
          /\ UNCHANGED <<round, turn, left>>

Leave == /\ stage \in {"arrange", "play", "over"}
         /\ stage' = "closed"
         /\ UNCHANGED <<round, turn, left>>

Next == \/ Arrange \/ GiveUp \/ Hit \/ Miss
        \/ NextRound \/ Settle \/ Leave

Spec == Init /\ [][Next]_vars
==============================================================================
