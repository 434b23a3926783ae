---------------------------- MODULE MCIndexBuild ----------------------------
(* A small instance of IndexBuild for TLC. *)
EXTENDS IndexBuild

(* Keys of the deals: two deals share a key, one chunk stays empty, both    *)
(* slices of the key space 0..7 are hit, at their first and last key, and   *)
(* the two deals of one block go to different slices.                       *)
MCLow == [s \in 0..MaxSeed - 1 |->
            CASE s = 0 -> 0 [] s = 1 -> 7 [] s = 2 -> 3 [] s = 3 -> 0
              [] s = 4 -> 4 [] s = 5 -> 3 [] OTHER -> s]
==============================================================================
