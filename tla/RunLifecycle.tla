---------------------------- MODULE RunLifecycle ----------------------------
(***************************************************************************)
(* What a pipeline run promises its user: it walks through its gates in    *)
(* one direction, an unattended phase always ends, and a run that has      *)
(* ended never opens again.  Nothing is said here of handlers, goroutines  *)
(* or cancel functions; PipelineRun shows that those implement this.       *)
(***************************************************************************)
EXTENDS Naturals

CONSTANT Runs      \* rows of pipeline_runs

VARIABLE state     \* state[r] : the column pipeline_runs.state

States == { "WAITING_URL", "WAITING_MODE", "EXECUTING",
            "WAITING_REVIEW_HIGHLIGHTS", "GENERATING_CLIPS",
            "WAITING_THUMBNAIL_CONFIG", "WAITING_REVIEW_METADATA",
            "WAITING_REVIEW_CLIPS", "WAITING_UPLOAD_CONFIRM",
            "UPLOADING", "DONE", "ERROR", "CANCELLED" }

Terminal == {"DONE", "ERROR", "CANCELLED"}

(* A gate waits for the user: one request moves the run past it. *)
UserEdge ==
  { <<"WAITING_URL", "WAITING_MODE">>,
    <<"WAITING_MODE", "EXECUTING">>,
    <<"WAITING_REVIEW_HIGHLIGHTS", "GENERATING_CLIPS">>,
    <<"WAITING_THUMBNAIL_CONFIG", "WAITING_REVIEW_METADATA">>,
    <<"WAITING_REVIEW_METADATA", "WAITING_REVIEW_CLIPS">>,
    <<"WAITING_REVIEW_CLIPS", "WAITING_UPLOAD_CONFIRM">>,
    <<"WAITING_UPLOAD_CONFIRM", "DONE">> }

(* A phase is left by the server itself: the highlight gate is skipped in  *)
(* longform mode.                                                          *)
PhaseEdge ==
  { <<"EXECUTING", "WAITING_REVIEW_HIGHLIGHTS">>,
    <<"EXECUTING", "GENERATING_CLIPS">>,
    <<"GENERATING_CLIPS", "WAITING_THUMBNAIL_CONFIG">> }

Move(r, to) == state' = [state EXCEPT ![r] = to]

PassGate(r) == \E e \in UserEdge : state[r] = e[1] /\ Move(r, e[2])

LeavePhase(r) == \E e \in PhaseEdge : state[r] = e[1] /\ Move(r, e[2])

(* A background job reports a failure.  The write is unconditional, so it  *)
(* also lands on a run that has ended; it never lands before the run has   *)
(* been given a URL.                                                       *)
Fail(r) == state[r] # "WAITING_URL" /\ Move(r, "ERROR")

CancelRun(r) == state[r] \notin Terminal /\ Move(r, "CANCELLED")

Init == state = [r \in Runs |-> "WAITING_URL"]

Next == \E r \in Runs : PassGate(r) \/ LeavePhase(r) \/ Fail(r) \/ CancelRun(r)

Phase == {"EXECUTING", "GENERATING_CLIPS"}

(* An unattended phase ends, by success, failure or cancellation. *)
EndPhase(r) == state[r] \in Phase /\ (LeavePhase(r) \/ Fail(r) \/ CancelRun(r))

Safety == Init /\ [][Next]_state

Spec == Safety /\ \A r \in Runs : WF_state(EndPhase(r))

=============================================================================
