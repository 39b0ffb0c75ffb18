---------------------------- MODULE MCLogViewer ----------------------------
(* Instances of LogViewer for TLC. *)
EXTENDS LogViewer

MCListeners == 1 .. 2
============================================================================
