----------------------------- MODULE MCBattleships -----------------------------
(* Battleships on a small board, with three games. *)
EXTENDS Battleships

MCShipSizes == <<2, 1>>

(* Every second shot is aimed, then two of three, then every one. *)
MCHitRatios == <<<<1, 2>>, <<2, 3>>, <<1, 1>>>>

(* There is room on this board, and on the one of redbeard.py:116.         *)
ASSUME HasRoom == Roomy(Size, ShipSizes) /\ Roomy(10, <<4, 3, 3, 2, 1, 1>>)
==============================================================================
