----------------------------- MODULE MCQueuePage -----------------------------
(* Instances of QueuePage for TLC. *)
EXTENDS QueuePage

OneOfEach == <<"error", "queued">>

Bounded == calm /\ Len(pending) <= 2
=============================================================================
