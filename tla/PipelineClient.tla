--------------------------- MODULE PipelineClient ---------------------------
(***************************************************************************)
(* The pipeline page of the web client: the zustand store, the shell       *)
(* around the steps and the handlers of the steps that submit a gate.  An  *)
(* operation of the page is a job: it waits for an answer of the server,   *)
(* and everything else goes on in the meantime, the events of the run's    *)
(* stream, the other buttons, the server.  The server is RunLifecycle.     *)
(*                                                                         *)
(* usePipelineSSE, loadRun, listRuns, deleteRun and navigateForward have   *)
(* no caller in the repository and are left out.                           *)
(***************************************************************************)
EXTENDS Naturals, Sequences, Functions

CONSTANTS
  MaxRuns,    \* rows that can be created (bound)
  Jobs,       \* operations of the page that can be in flight at once
  MaxJobs,    \* operations the user starts (bound)
  MaxMixed,   \* operations after which none is started once `overlapped` holds (bound)
  MaxFaults,  \* failures: of a phase, of a request, of a stream (bound)
  Null

ASSUME ClientConstants ==
  MaxRuns \in Nat \ {0} /\ MaxJobs \in Nat /\ MaxMixed \in 0 .. MaxJobs /\ MaxFaults \in Nat

Runs == 1 .. MaxRuns

VARIABLES
  state,        \* server: pipeline_runs.state
  created,      \* server: the number of rows
  queue,        \* queue[r] : events of r the client has not been given; the hub's replay before it listens
  stream,       \* stream[r] : the EventSource of r
  run,          \* store: run, and activeRunId with it
  navHistory, navIndex, gateHistory, pendingReuse, isLoading,  \* store
  sseCleanup,   \* store: the stream that stopSSE would close
  jobs,         \* jobs[j] : an async handler of the page
  mounted,      \* the jobs whose step is still on the screen
  started,      \* operations the user has started
  faults,       \* failures so far
  reached,      \* history: the states r has been in
  overlapped    \* history: a run was begun over another one, or begun or given up in mid-operation

server == <<state, created, queue>>
nav    == <<navHistory, navIndex>>
store  == <<run, nav, gateHistory, pendingReuse, isLoading, sseCleanup>>
limits == <<started, faults>>
vars   == <<server, stream, store, jobs, mounted, limits, reached, overlapped>>

Server == INSTANCE RunLifecycle

ASSUME NullIsNothing ==
  /\ Null \notin Runs /\ Null \notin [id : Runs, state : Server!States]
  /\ Null \notin Server!States \cup {"created", "reused", "failed"}

Last(s)  == s[Len(s)]

GateStateOrder ==
  <<"WAITING_URL", "WAITING_MODE", "WAITING_REVIEW_HIGHLIGHTS", "WAITING_THUMBNAIL_CONFIG",
    "WAITING_REVIEW_METADATA", "WAITING_REVIEW_CLIPS", "WAITING_UPLOAD_CONFIRM">>
Gates    == Range(GateStateOrder)
Terminal == {"DONE", "ERROR", "CANCELLED"}

(* A request of /advance carries a URL, a mode or nothing.                 *)
AdvanceGates == {"WAITING_URL", "WAITING_MODE", "WAITING_THUMBNAIL_CONFIG"}

DisplayedState == IF navIndex \in DOMAIN navHistory THEN navHistory[navIndex] ELSE "WAITING_URL"
IsNavigatedBack == navIndex < Len(navHistory)
Historical == IsNavigatedBack /\ DisplayedState \in gateHistory

Idle == [kind |-> "none", pc |-> "idle", run |-> Null, gate |-> Null, target |-> Null,
         saved |-> {}, reply |-> Null]
JobRecord ==
  [kind : {"none", "start", "submit", "resubmit", "leave"},
   pc : {"idle", "cancel", "create", "submit", "wait"},
   run : Runs \cup {Null}, gate : Gates \cup {Null}, target : Gates \cup {Null},
   saved : SUBSET Gates, reply : Server!States \cup {"created", "reused", "failed", Null}]

TypeOK ==
  /\ state \in [Runs -> Server!States]
  /\ created \in 0 .. MaxRuns
  /\ queue \in [Runs -> Seq(Server!States)]
  /\ stream \in [Runs -> {"none", "open", "closed"}]
  /\ run \in [id : Runs, state : Server!States] \cup {Null}
  /\ navHistory \in Seq(Server!States)
  /\ navIndex \in IF navHistory = <<>> THEN {0} ELSE DOMAIN navHistory
  /\ gateHistory \subseteq Gates
  /\ pendingReuse \in BOOLEAN /\ isLoading \in BOOLEAN /\ overlapped \in BOOLEAN
  /\ sseCleanup \in Runs \cup {Null}
  /\ jobs \in [Jobs -> JobRecord]
  /\ mounted \subseteq Jobs
  /\ started \in 0 .. MaxJobs /\ faults \in 0 .. MaxFaults
  /\ reached \in [Runs -> SUBSET Server!States]

Init ==
  /\ Server!Init
  /\ created = 0
  /\ queue = [r \in Runs |-> <<>>]
  /\ stream = [r \in Runs |-> "none"]
  /\ run = Null
  /\ navHistory = <<>> /\ navIndex = 0
  /\ gateHistory = {}
  /\ pendingReuse = FALSE /\ isLoading = FALSE
  /\ sseCleanup = Null
  /\ jobs = [j \in Jobs |-> Idle]
  /\ mounted = {} /\ started = 0 /\ faults = 0
  /\ reached = [r \in Runs |-> {"WAITING_URL"}]
  /\ overlapped = FALSE
-----------------------------------------------------------------------------
(* The server.  A move of a run is published on its stream, but for the    *)
(* one that starts a fresh download.                                       *)

Reach(r) == reached' = [reached EXCEPT ![r] = @ \cup {state'[r]}]

Publish(r) ==
  queue' = [queue EXCEPT ![r] = IF stream[r] = "closed" THEN @ ELSE Append(@, state'[r])]

Fault == faults < MaxFaults /\ faults' = faults + 1

LeavePhase(r) ==
  /\ Server!LeavePhase(r)
  /\ Publish(r) /\ Reach(r)
  /\ UNCHANGED <<created, stream, store, jobs, limits, overlapped>>

Fail(r) ==
  /\ state[r] # "ERROR" /\ Server!Fail(r)
  /\ Publish(r) /\ Reach(r)
  /\ Fault
  /\ UNCHANGED <<created, stream, store, jobs, started, overlapped>>

Answer(j, value) == jobs' = [jobs EXCEPT ![j].reply = value]

ServeCreate(j) ==
  /\ jobs[j].pc = "create" /\ jobs[j].reply = Null
  /\ created < MaxRuns
  /\ created' = created + 1
  /\ jobs' = [jobs EXCEPT ![j].reply = "created", ![j].run = created + 1]
  /\ UNCHANGED <<state, queue, stream, store, limits, reached, overlapped>>

ServeCancel(j) ==
  LET r == jobs[j].run IN
  /\ jobs[j].pc = "cancel" /\ jobs[j].reply = Null
  /\ Server!CancelRun(r)
  /\ Publish(r) /\ Reach(r)
  /\ Answer(j, "CANCELLED")
  /\ UNCHANGED <<created, stream, store, limits, overlapped>>

(* /gates/review-... look at the state; /advance and /gates/upload-confirm *)
(* do what the state asks for, whatever step has sent the request.         *)
Accepts(gate, s) ==
  \/ /\ s \in {"WAITING_URL", "WAITING_MODE", "WAITING_REVIEW_METADATA", "WAITING_REVIEW_CLIPS"}
     /\ gate = s
  \/ /\ s \in Gates \ {"WAITING_URL", "WAITING_MODE", "WAITING_REVIEW_CLIPS"}
     /\ gate \in AdvanceGates \cup {"WAITING_UPLOAD_CONFIRM"}

ServeGate(j) ==
  LET r == jobs[j].run
      gate == jobs[j].gate
  IN
  /\ jobs[j].pc = "submit" /\ jobs[j].reply = Null
  /\ Accepts(gate, state[r])
  /\ Server!PassGate(r)
  /\ Reach(r)
  /\ \/ Publish(r) /\ Answer(j, IF gate = "WAITING_URL" /\ gate = state[r] THEN "reused" ELSE state'[r])
     \/ /\ state[r] = "WAITING_URL"      \* not downloaded before: no event
        /\ Answer(j, state'[r])
        /\ UNCHANGED queue
  /\ UNCHANGED <<created, stream, store, limits, overlapped>>

(* A run that has ended answers /advance with its state.                   *)
AnsweredEnded(job) ==
  state[job.run] \in Terminal /\ job.gate \in AdvanceGates \cup {"WAITING_UPLOAD_CONFIRM"}

ServeEnded(j) ==
  /\ jobs[j].pc = "submit" /\ jobs[j].reply = Null
  /\ AnsweredEnded(jobs[j])
  /\ Answer(j, state[jobs[j].run])
  /\ UNCHANGED <<server, stream, store, limits, reached, overlapped>>
(* The state does not allow the request, or it is lost.                    *)
Allowed(job) ==
  CASE job.pc = "create" -> created < MaxRuns
    [] job.pc = "cancel" -> state[job.run] \notin Terminal
    [] job.pc = "submit" -> Accepts(job.gate, state[job.run]) \/ AnsweredEnded(job)
    [] OTHER -> TRUE

Refuse(j) ==
  /\ jobs[j].pc \in {"cancel", "create", "submit"} /\ jobs[j].reply = Null
  /\ IF Allowed(jobs[j]) THEN Fault ELSE UNCHANGED faults
  /\ Answer(j, "failed")
  /\ UNCHANGED <<server, stream, store, started, reached, overlapped>>
-----------------------------------------------------------------------------
(* What the handlers do to the store.                                      *)

Push(s) == navHistory' = Append(navHistory, s) /\ navIndex' = Len(navHistory) + 1

(* mutant: the answer or event is taken for the run on the page *)
RunStateOfAny(r, s) == run' = IF run # Null THEN [run EXCEPT !.state = s] ELSE run

RunState(r, s) == run' = IF run # Null /\ run.id = r THEN [run EXCEPT !.state = s] ELSE run

Close(r) == /\ stream' = [stream EXCEPT ![r] = "closed"]
            /\ queue' = [queue EXCEPT ![r] = <<>>]

(* mutant: the stream of the run that is given up stays open *)
StopSSELeavesOpen == UNCHANGED <<stream, queue>>

StopSSE == IF sseCleanup = Null THEN UNCHANGED <<stream, queue>> ELSE Close(sseCleanup)

SubscribeSSE(r) == stream' = [stream EXCEPT ![r] = "open"] /\ sseCleanup' = r

ClearRun ==
  /\ StopSSE
  /\ run' = Null
  /\ navHistory' = <<>> /\ navIndex' = 0
  /\ gateHistory' = {}
  /\ pendingReuse' = FALSE
  /\ sseCleanup' = Null

(* mutant: advance records the gate only where it came with a URL *)
RecordedWithUrl(gate) ==
  IF gate = "WAITING_MODE" THEN {} ELSE {gate}

(* advance records by the state of the run, the others by their own gate.  *)
Recorded(gate) ==
  LET current == IF run = Null THEN "WAITING_URL" ELSE run.state IN
  IF gate \in {"WAITING_URL", "WAITING_MODE"}
  THEN {current} \cap ({"WAITING_MODE"} \cup {gate})
  ELSE {gate}

(* subscribeSSE, onmessage.                                                *)
Deliver(r) ==
  LET s == Head(queue[r]) IN
  /\ stream[r] = "open" /\ queue[r] # <<>>
  /\ RunState(r, s)
  /\ IF s \in {"ERROR", "CANCELLED"}
     THEN Close(r) /\ sseCleanup' = Null /\ UNCHANGED nav
     ELSE /\ queue' = [queue EXCEPT ![r] = Tail(@)]
          /\ IF \/ pendingReuse /\ s = "WAITING_MODE"
                \/ navHistory # <<>> /\ Last(navHistory) = s
             THEN UNCHANGED nav
             ELSE Push(s)
          /\ UNCHANGED <<stream, sseCleanup>>
  /\ UNCHANGED <<state, created, gateHistory, pendingReuse, isLoading, jobs, limits, reached,
                 overlapped>>

(* onerror: there is no reconnection.                                      *)
StreamLost(r) ==
  /\ stream[r] = "open"
  /\ Close(r)
  /\ sseCleanup' = Null
  /\ Fault
  /\ UNCHANGED <<state, created, run, nav, gateHistory, pendingReuse, isLoading, jobs, started,
                 reached, overlapped>>
-----------------------------------------------------------------------------
(* The buttons.                                                            *)

InFlight(kinds) == \E j \in Jobs : jobs[j].kind \in kinds

Begin(j, job) ==
  /\ jobs[j].pc = "idle" /\ started < IF overlapped THEN MaxMixed ELSE MaxJobs
  /\ started' = started + 1 /\ UNCHANGED faults
  /\ jobs' = [jobs EXCEPT ![j] = job]
  /\ overlapped' = \/ overlapped
                   \/ InFlight({"start", "resubmit", "leave"})
                   \/ job.kind # "submit" /\ InFlight({"submit"})
                   \/ job.kind = "start" /\ run # Null

(* The submitting flag of StepMode, StepReviewClips and StepUpload is gone *)
(* with the component; StepUrl looks at isLoading, the others at nothing.  *)
Submitting == \E j \in mounted : jobs[j].pc # "idle"

(* StepUrl.handleStart                                                     *)
Start(j) ==
  /\ DisplayedState = "WAITING_URL" /\ ~Historical /\ ~isLoading
  /\ Begin(j, [Idle EXCEPT !.kind = "start", !.pc = "create"])
  /\ isLoading' = TRUE
  /\ UNCHANGED <<server, stream, run, nav, gateHistory, pendingReuse, sseCleanup, reached>>

(* A step that shows a gate of the active run sends its request.           *)
Submit(j) ==
  LET gate == DisplayedState IN
  /\ run # Null
  /\ \/ gate \in {"WAITING_MODE", "WAITING_REVIEW_METADATA"}
     \/ gate \in {"WAITING_THUMBNAIL_CONFIG", "WAITING_REVIEW_CLIPS"} /\ ~Historical
     \/ gate = "WAITING_UPLOAD_CONFIRM" /\ run.state \notin {"UPLOADING", "DONE"}
  /\ gate \in {"WAITING_MODE", "WAITING_REVIEW_CLIPS", "WAITING_UPLOAD_CONFIRM"} => ~Submitting
  /\ Begin(j, [Idle EXCEPT !.kind = "submit", !.pc = "submit", !.run = run.id, !.gate = gate])
  /\ gateHistory' = gateHistory \cup Recorded(gate)
  /\ UNCHANGED <<server, stream, run, nav, pendingReuse, isLoading, sseCleanup, reached>>

(* resubmitFromBacked, from a step that shows an earlier submission.       *)
Resubmit(j) ==
  LET gate == DisplayedState IN
  /\ Historical
  /\ \/ gate = "WAITING_URL" /\ ~isLoading
     \/ gate = "WAITING_THUMBNAIL_CONFIG" /\ run # Null
     \/ gate = "WAITING_REVIEW_CLIPS" /\ run # Null /\ ~Submitting
  /\ LET job == [Idle EXCEPT !.kind = "resubmit", !.target = gate, !.saved = gateHistory] IN
     \/ /\ run # Null
        /\ Begin(j, [job EXCEPT !.pc = "cancel", !.run = run.id])
        /\ UNCHANGED <<server, stream, store>>
     \/ /\ run = Null
        /\ Begin(j, [job EXCEPT !.pc = "create"])
        /\ ClearRun /\ isLoading' = TRUE
        /\ UNCHANGED <<state, created>>
  /\ UNCHANGED reached

(* The buttons of the shell, and useBackNavigation while the run is on.    *)
MayLeave == DisplayedState = "WAITING_URL" \/ run.state \notin Terminal

(* PipelineShell: start over, or cancel a phase or leave the page while    *)
(* the run is on.                                                          *)
Leave(j) ==
  /\ run # Null
  /\ MayLeave
  /\ Begin(j, [Idle EXCEPT !.kind = "leave", !.pc = "cancel", !.run = run.id])
  /\ UNCHANGED <<server, stream, store, reached>>

(* StepUpload.handleNewPipeline, on the screen of a run that is done.      *)
NewPipeline ==
  /\ run # Null /\ run.state = "DONE"
  /\ DisplayedState \in {"WAITING_UPLOAD_CONFIRM", "UPLOADING", "DONE"}
  /\ ClearRun
  /\ overlapped' = (overlapped \/ \E j \in Jobs : jobs[j].pc # "idle")
  /\ UNCHANGED <<state, created, isLoading, jobs, limits, reached>>

NavigateBack ==
  /\ DisplayedState \in Gates \ {"WAITING_URL"} /\ navIndex > 1
  /\ LET earlier == {i \in 1 .. navIndex - 1 : i = 1 \/ navHistory[i] \in Gates} IN
     navIndex' \in earlier /\ \A i \in earlier : i <= navIndex'
  /\ UNCHANGED <<server, stream, run, navHistory, gateHistory, pendingReuse, isLoading, sseCleanup,
                 jobs, limits, reached, overlapped>>

(* The reuse card of StepUrl.                                              *)
ConfirmReuse ==
  /\ DisplayedState = "WAITING_URL" /\ pendingReuse /\ run # Null
  /\ pendingReuse' = FALSE
  /\ Push(run.state)
  /\ UNCHANGED <<server, stream, run, gateHistory, isLoading, sseCleanup, jobs, limits, reached,
                 overlapped>>
-----------------------------------------------------------------------------
(* What a job does when it is answered.                                    *)

Answered(j, pc) == jobs[j].pc = pc /\ jobs[j].reply # Null
Step(j, job)    == jobs' = [jobs EXCEPT ![j] = [job EXCEPT !.reply = Null]]

Index(gate) == CHOOSE i \in DOMAIN GateStateOrder : GateStateOrder[i] = gate

(* The gate the replay loop of resubmitFromBacked waits for after `from`.  *)
NextGate(job, from) ==
  LET due == {i \in from + 1 .. Index(job.target) - 1 : GateStateOrder[i] \in job.saved}
             \cup {Index(job.target)}
  IN GateStateOrder[CHOOSE i \in due : \A k \in due : i <= k]

(* createRun; then handleStart submits the URL, or the replay begins.      *)
RunCreated(j) ==
  LET job == jobs[j]
      r == job.run
  IN
  /\ Answered(j, "create") /\ job.reply = "created"
  /\ run' = [id |-> r, state |-> "WAITING_URL"]
  /\ navHistory' = <<"WAITING_URL">> /\ navIndex' = 1
  /\ isLoading' = FALSE
  /\ IF job.kind = "start"
     THEN /\ Step(j, [job EXCEPT !.pc = "submit", !.gate = "WAITING_URL"])
          /\ gateHistory' = gateHistory \cup {"WAITING_URL"}
          /\ UNCHANGED <<stream, sseCleanup>>
     ELSE /\ Step(j, [job EXCEPT !.pc = "wait", !.gate = NextGate(job, 0)])
          /\ SubscribeSSE(r)
          /\ UNCHANGED gateHistory
  /\ UNCHANGED <<server, pendingReuse, limits, reached, overlapped>>

CreateFailed(j) ==
  /\ Answered(j, "create") /\ jobs[j].reply = "failed"
  /\ isLoading' = FALSE
  /\ Step(j, Idle)
  /\ UNCHANGED <<server, stream, run, nav, gateHistory, pendingReuse, sseCleanup, limits, reached,
                 overlapped>>

(* cancelRun, then clearRun whatever came of it.                           *)
Cancelled(j) ==
  LET job == jobs[j] IN
  /\ Answered(j, "cancel")
  /\ ClearRun
  /\ IF job.kind = "leave"
     THEN Step(j, Idle) /\ UNCHANGED isLoading
     ELSE Step(j, [job EXCEPT !.pc = "create"]) /\ isLoading' = TRUE
  /\ UNCHANGED <<state, created, limits, reached, overlapped>>

(* The part of advance and of the submit functions after their await.      *)
StoreAnswer(job) ==
  LET s == IF job.reply = "reused" THEN "WAITING_MODE" ELSE job.reply IN
  IF job.reply = "failed" THEN UNCHANGED <<run, nav, pendingReuse>>
  ELSE /\ RunState(job.run, s)
       /\ CASE job.gate \in {"WAITING_URL", "WAITING_MODE"} ->
                 /\ pendingReuse' = (job.reply = "reused")
                 /\ IF job.reply = "reused" \/ s \in Range(navHistory)
                    THEN UNCHANGED nav ELSE Push(s)
            [] job.gate = "WAITING_THUMBNAIL_CONFIG" -> Push(s) /\ UNCHANGED pendingReuse
            [] OTHER -> UNCHANGED <<nav, pendingReuse>>

GateAnswered(j) ==
  LET job == jobs[j] IN
  /\ Answered(j, "submit")
  /\ StoreAnswer(job)
  /\ CASE job.kind = "start" -> Step(j, Idle) /\ SubscribeSSE(job.run)
       [] job.kind = "submit" -> Step(j, Idle) /\ UNCHANGED <<stream, sseCleanup>>
       [] OTHER -> /\ Step(j, [job EXCEPT !.pc = "wait", !.gate = NextGate(job, Index(job.gate))])
                   /\ UNCHANGED <<stream, sseCleanup>>
  /\ UNCHANGED <<server, gateHistory, isLoading, limits, reached, overlapped>>

(* waitForState: the run of the store is at the gate.                      *)
GateReached(j) ==
  LET job == jobs[j] IN
  /\ job.pc = "wait" /\ run # Null /\ run.state = job.gate
  /\ IF job.gate = job.target
     THEN Step(j, Idle) /\ gateHistory' = gateHistory \cup {job.gate}
     ELSE Step(j, [job EXCEPT !.pc = "submit"]) /\ gateHistory' = gateHistory \cup Recorded(job.gate)
  /\ UNCHANGED <<server, stream, run, nav, pendingReuse, isLoading, sseCleanup, limits, reached,
                 overlapped>>

(* ... or 30 seconds are over.                                             *)
GateTimeout(j) ==
  /\ jobs[j].pc = "wait"
  /\ Step(j, Idle)
  /\ UNCHANGED <<server, stream, store, limits, reached, overlapped>>
-----------------------------------------------------------------------------
ServerStep ==
  \/ \E r \in Runs : LeavePhase(r) \/ Fail(r)
  \/ \E j \in Jobs : ServeCreate(j) \/ ServeCancel(j) \/ ServeGate(j) \/ ServeEnded(j) \/ Refuse(j)

UserStep ==
  \/ \E j \in Jobs : Start(j) \/ Submit(j) \/ Resubmit(j) \/ Leave(j)
  \/ NewPipeline \/ NavigateBack \/ ConfirmReuse

Continue(j) == \/ RunCreated(j) \/ CreateFailed(j) \/ Cancelled(j)
               \/ GateAnswered(j) \/ GateReached(j) \/ GateTimeout(j)

(* ActiveStepArea replaces the step when the displayed state changes.      *)
Remount ==
  mounted' = IF DisplayedState' # DisplayedState THEN {}
             ELSE {j \in Jobs : jobs'[j].pc # "idle" /\ (j \in mounted \/ jobs[j].pc = "idle")}

Next ==
  /\ \/ ServerStep \/ UserStep
     \/ \E j \in Jobs : Continue(j)
     \/ \E r \in Runs : Deliver(r) \/ StreamLost(r)
  /\ Remount

Spec == Init /\ [][Next]_vars
-----------------------------------------------------------------------------
(* The run on the page is in a state that this run has been in: neither an *)
(* answer to an operation on a run given up meanwhile nor an event of a    *)
(* stream that was left open is taken for news of the run on the page.     *)
RunKnown == run # Null => run.state \in reached[run.id]

(* As long as a run is given up before the next is begun, and each in an   *)
(* operation of its own, the steps one can walk back through are those of  *)
(* the run on the page: no event of the run before is pushed after         *)
(* clearRun.                                                               *)
NavIsOfTheRun ==
  ~overlapped => Range(navHistory) \subseteq IF run = Null THEN {} ELSE reached[run.id]

(* What resubmitFromBacked replays is complete: a gate that only a request *)
(* of its own step can pass has been recorded when the run is past it,     *)
(* even if the event of the next state overtakes the answer.               *)
GatesRecorded ==
  ~overlapped /\ run # Null =>
     \A edge \in Server!UserEdge :
        /\ edge[1] \in {"WAITING_URL", "WAITING_MODE", "WAITING_REVIEW_CLIPS"}
        /\ edge[2] \in reached[run.id]
        => edge[1] \in gateHistory

=============================================================================
