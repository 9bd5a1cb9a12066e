-------------------------- MODULE MCWebRtcManager ---------------------------
(* Two sessions that compete for one place, with every remover at work.      *)
EXTENDS WebRtcManager
=============================================================================
