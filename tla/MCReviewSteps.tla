--------------------------- MODULE MCReviewSteps ----------------------------
(* Instances of ReviewSteps for TLC. *)
EXTENDS ReviewSteps

(* Two of the three invariants say nothing of a page that was disturbed;   *)
(* three requests in flight are enough for each to overtake another.       *)
Bounded == calm /\ Len(pending) <= 3
=============================================================================
