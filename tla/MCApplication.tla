--------------------------- MODULE MCApplication ----------------------------
(* Three threads and three modules: a waiter, a second stopper and the main  *)
(* thread meet in every phase of the lifecycle, restarts included.           *)
EXTENDS Application
=============================================================================
