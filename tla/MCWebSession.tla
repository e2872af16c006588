---------------------------- MODULE MCWebSession ---------------------------
(* A browser with two sessions, and a client that guesses. *)
EXTENDS WebSession

CONSTANTS b1, c1, i1, i2, h1, g1
=============================================================================
