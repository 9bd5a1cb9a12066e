--------------------------- MODULE MCBoundedQueue ---------------------------
(* Two producers, two consumers, two slots: overflow, two sleepers for one   *)
(* notification and a timeout racing a push all happen.                      *)
EXTENDS BoundedQueue
=============================================================================
