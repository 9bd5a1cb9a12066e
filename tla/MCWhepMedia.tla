---------------------------- MODULE MCWhepMedia -----------------------------
(* One viewer, a queue of one and four access units: an overflow can happen  *)
(* before, while and after every step of the loop, and a unit can follow it. *)
EXTENDS WhepMedia
=============================================================================
