------------------------------- MODULE MCPool -------------------------------
(* Instance of Pool for TLC *)
EXTENDS Pool
CONSTANTS r1, r2, r3
=============================================================================
