------------------------------ MODULE MCRatchet -------------------------------
(* Three rounds, two texts and the command that ends the server, three       *)
(* starts of the server.                                                   *)
EXTENDS Ratchet
==============================================================================
