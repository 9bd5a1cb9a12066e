---------------------------- MODULE MCRtspSource ----------------------------
(* One failure of a live camera, a camera that may die at any time, three    *)
(* access units and a queue of one: reconnects, drops and late callbacks.    *)
EXTENDS RtspSource
=============================================================================
