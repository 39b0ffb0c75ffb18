---------------------------- MODULE PipelineRun ----------------------------
(***************************************************************************)
(* The pipeline service: HTTP handlers and background goroutines that work *)
(* on the rows of pipeline_runs.  The database is opened with a single     *)
(* connection, so every SQL statement is one atomic step and everything    *)
(* else interleaves between statements.                                    *)
(*                                                                         *)
(*   call[c]       the request client c has in flight: the statement it is *)
(*                 about to execute, the run, the mode it submits          *)
(*   job[s]        the background goroutine in slot s, likewise            *)
(*   cancelled[s]  the context of the goroutine in slot s is cancelled     *)
(*   cancelMap[r]  Service.cancelMap: whose cancel function is stored for r*)
(*                                                                         *)
(* The mode column is created as "ai"; "unset" is that default, told apart *)
(* from an "ai" some client submitted, and read like it.                   *)
(*                                                                         *)
(* A request whose client goes away, or whose database context expires,    *)
(* stops at its next statement (RequestAborted).  Restart is a server      *)
(* crash: only the rows survive.                                           *)
(***************************************************************************)
EXTENDS Naturals, FiniteSets

CONSTANTS
  Runs,          \* rows of pipeline_runs, all for the same source URL
  Clients,       \* concurrent HTTP requests
  Slots,         \* background goroutines alive at once (bound)
  NoSlot, NoRun, \* absent values
  PriorVideo,    \* an older run left a video_path for this URL
  Aborts,        \* whether clients may disconnect
  MaxRestarts    \* server restarts (bound)

ASSUME ConstantsOK ==
  /\ NoSlot \notin Slots
  /\ NoRun \notin Runs
  /\ PriorVideo \in BOOLEAN
  /\ Aborts \in BOOLEAN
  /\ MaxRestarts \in Nat

VARIABLES
  \* columns of pipeline_runs
  state, activePhase, hasVideo, mode,
  \* memory of the server
  call, job, cancelled, cancelMap,
  restarts

row == <<state, activePhase, hasVideo, mode>>
memory == <<call, job, cancelled, cancelMap>>
vars == <<row, memory, restarts>>

Lifecycle == INSTANCE RunLifecycle

Terminal == {"DONE", "ERROR", "CANCELLED"}
Modes == {"ai", "longform"}

DownloadPC == {"dlFetch", "dlSave", "dlClear", "dlFail", "dlExit"}
ExecPC == {"exLoad", "exAnalyze", "exToReview", "exToClips", "exFail"}
ClipPC == {"cgRegister", "cgLoad", "cgGenerate", "cgAdvance", "cgFail", "cgExit"}
JobPC == DownloadPC \cup ExecPC \cup ClipPC

CallPC == { "findVideo", "startFresh", "launch", "startReuse", "saveReuse",
            "clearReuse", "storeMode", "toExecuting", "toClips",
            "toMetadata", "toReview", "toConfirm", "toDone",
            "clearPath", "markRedownload", "cancelRun", "signal" }

IdleCall == [pc |-> "idle", run |-> NoRun, mode |-> "unset"]
FreeJob  == [pc |-> "free", run |-> NoRun]

CallRecord == [ pc : CallPC \cup {"idle"}, run : Runs \cup {NoRun},
                mode : Modes \cup {"unset"} ]
JobRecord  == [ pc : JobPC \cup {"free"}, run : Runs \cup {NoRun} ]

TypeOK ==
  /\ state \in [Runs -> Lifecycle!States]
  /\ activePhase \in [Runs -> {"", "download"}]
  /\ hasVideo \in [Runs -> BOOLEAN]
  /\ mode \in [Runs -> Modes \cup {"unset"}]
  /\ call \in [Clients -> CallRecord]
  /\ job \in [Slots -> JobRecord]
  /\ cancelled \in [Slots -> BOOLEAN]
  /\ cancelMap \in [Runs -> Slots \cup {NoSlot}]
  /\ restarts \in 0 .. MaxRestarts

Init ==
  /\ state = [r \in Runs |-> "WAITING_URL"]
  /\ activePhase = [r \in Runs |-> ""]
  /\ hasVideo = [r \in Runs |-> FALSE]
  /\ mode = [r \in Runs |-> "unset"]
  /\ call = [c \in Clients |-> IdleCall]
  /\ job = [s \in Slots |-> FreeJob]
  /\ cancelled = [s \in Slots |-> FALSE]
  /\ cancelMap = [r \in Runs |-> NoSlot]
  /\ restarts = 0

-----------------------------------------------------------------------------
(* Statements of PipelineRunRepo that write the state column. *)

(* mutant: the state is written without comparing it first *)
AdvanceStateUnguarded(r, from, to) ==
  /\ state' = [state EXCEPT ![r] = to]
  /\ activePhase' = [activePhase EXCEPT ![r] = ""]

(* UPDATE ... WHERE state = from: a compare-and-swap that also clears      *)
(* active_phase; when it misses, nothing changes.                          *)
AdvanceState(r, from, to) ==
  IF state[r] = from
  THEN /\ state' = [state EXCEPT ![r] = to]
       /\ activePhase' = [activePhase EXCEPT ![r] = ""]
  ELSE UNCHANGED <<state, activePhase>>

StartDownloadAndAdvance(r) ==
  IF state[r] = "WAITING_URL"
  THEN /\ state' = [state EXCEPT ![r] = "WAITING_MODE"]
       /\ activePhase' = [activePhase EXCEPT ![r] = "download"]
  ELSE UNCHANGED <<state, activePhase>>

(* UPDATE ... WHERE id = r: no guard on the current state. *)
Finish(r) ==
  /\ state' = [state EXCEPT ![r] = "ERROR"]
  /\ activePhase' = [activePhase EXCEPT ![r] = ""]

(* A statement run under the goroutine's context does nothing once that    *)
(* context is cancelled.                                                   *)
FinishUnlessCancelled(s, r) ==
  IF cancelled[s] THEN UNCHANGED <<state, activePhase>> ELSE Finish(r)

-----------------------------------------------------------------------------
(* Requests and goroutines. *)

Free == {s \in Slots : job[s].pc = "free"}
Busy == {c \in Clients : call[c].pc # "idle"}

(* Bound: a request is admitted only while a slot is left for the one      *)
(* goroutine it may start.                                                 *)
Admitted(c) == c \notin Busy /\ Cardinality(Busy) < Cardinality(Free)

At(c, pc) == call[c].pc = pc
Goto(c, pc) == call' = [call EXCEPT ![c].pc = pc]
Return(c) == call' = [call EXCEPT ![c] = IdleCall]

JobAt(s, pc) == job[s].pc = pc
JobGoto(s, pc) == job' = [job EXCEPT ![s].pc = pc]

(* go s.run...(r) with a fresh context *)
Start(s, r, pc) ==
  /\ s \in Free
  /\ job' = [job EXCEPT ![s] = [pc |-> pc, run |-> r]]
  /\ cancelled' = [cancelled EXCEPT ![s] = FALSE]

(* Advance reads the row and branches on the state it read; the statement  *)
(* it then executes may run much later.  A run in a terminal state, or in  *)
(* a phase the server is working on, is answered without a write.  The     *)
(* gates with a handler of their own (ReviewClips, the metadata review)    *)
(* read and swap in the same way.                                          *)
FirstStatement ==
  [ WAITING_URL |-> "findVideo",
    WAITING_MODE |-> "storeMode",
    WAITING_REVIEW_HIGHLIGHTS |-> "toClips",
    WAITING_THUMBNAIL_CONFIG |-> "toMetadata",
    WAITING_REVIEW_METADATA |-> "toReview",
    WAITING_REVIEW_CLIPS |-> "toConfirm",
    WAITING_UPLOAD_CONFIRM |-> "toDone" ]

Advance(c, r) ==
  /\ Admitted(c)
  /\ state[r] \in DOMAIN FirstStatement
  /\ \E m \in (IF state[r] = "WAITING_MODE" THEN Modes ELSE {"unset"}) :
       call' = [call EXCEPT ![c] =
                  [pc |-> FirstStatement[state[r]], run |-> r, mode |-> m]]
  /\ UNCHANGED <<row, job, cancelled, cancelMap, restarts>>

(* mutant: a gate that is skipped *)
GateEdgeSkipping ==
  [ toMetadata |-> <<"WAITING_THUMBNAIL_CONFIG", "WAITING_REVIEW_CLIPS">>,
    toReview   |-> <<"WAITING_REVIEW_METADATA", "WAITING_REVIEW_CLIPS">>,
    toConfirm  |-> <<"WAITING_REVIEW_CLIPS", "WAITING_UPLOAD_CONFIRM">>,
    toDone     |-> <<"WAITING_UPLOAD_CONFIRM", "DONE">> ]

(* The user edges that start nothing in the background: the thumbnail,     *)
(* metadata, clip review and upload confirmation gates.                    *)
GateEdge ==
  [ toMetadata |-> <<"WAITING_THUMBNAIL_CONFIG", "WAITING_REVIEW_METADATA">>,
    toReview   |-> <<"WAITING_REVIEW_METADATA", "WAITING_REVIEW_CLIPS">>,
    toConfirm  |-> <<"WAITING_REVIEW_CLIPS", "WAITING_UPLOAD_CONFIRM">>,
    toDone     |-> <<"WAITING_UPLOAD_CONFIRM", "DONE">> ]

PassGate(c) ==
  /\ call[c].pc \in DOMAIN GateEdge
  /\ AdvanceState(call[c].run, GateEdge[call[c].pc][1], GateEdge[call[c].pc][2])
  /\ Return(c)
  /\ UNCHANGED <<hasVideo, mode, job, cancelled, cancelMap, restarts>>

(* WAITING_URL: another run for the URL may have left a file that can be   *)
(* copied; whether it is still on disk is the environment's choice.        *)
FindVideo(c) ==
  /\ At(c, "findVideo")
  /\ \/ Goto(c, "startFresh")
     \/ /\ PriorVideo \/ \E r \in Runs : hasVideo[r]
        /\ Goto(c, "startReuse")
  /\ UNCHANGED <<row, job, cancelled, cancelMap, restarts>>

StartFresh(c) ==
  LET r == call[c].run IN
  /\ At(c, "startFresh")
  /\ StartDownloadAndAdvance(r)
  /\ IF state[r] = "WAITING_URL" THEN Goto(c, "launch") ELSE Return(c)
  /\ UNCHANGED <<hasVideo, mode, job, cancelled, cancelMap, restarts>>

(* cancelMap.Store; go runDownload.  Storing replaces whatever was there.  *)
Launch(c) ==
  /\ At(c, "launch")
  /\ \E s \in Slots :
       /\ Start(s, call[c].run, "dlFetch")
       /\ cancelMap' = [cancelMap EXCEPT ![call[c].run] = s]
  /\ Return(c)
  /\ UNCHANGED <<row, restarts>>

StartReuse(c) ==
  LET r == call[c].run IN
  /\ At(c, "startReuse")
  /\ StartDownloadAndAdvance(r)
  /\ IF state[r] = "WAITING_URL" THEN Goto(c, "saveReuse") ELSE Return(c)
  /\ UNCHANGED <<hasVideo, mode, job, cancelled, cancelMap, restarts>>

SaveReuse(c) ==
  /\ At(c, "saveReuse")
  /\ hasVideo' = [hasVideo EXCEPT ![call[c].run] = TRUE]
  /\ Goto(c, "clearReuse")
  /\ UNCHANGED <<state, activePhase, mode, job, cancelled, cancelMap, restarts>>

ClearReuse(c) ==
  /\ At(c, "clearReuse")
  /\ activePhase' = [activePhase EXCEPT ![call[c].run] = ""]
  /\ Return(c)
  /\ UNCHANGED <<state, hasVideo, mode, job, cancelled, cancelMap, restarts>>

(* mutant: the mode is stored whatever the state *)
StoreModeAnyState(c) ==
  /\ At(c, "storeMode")
  /\ mode' = [mode EXCEPT ![call[c].run] = call[c].mode]
  /\ Goto(c, "toExecuting")
  /\ UNCHANGED <<state, activePhase, hasVideo, job, cancelled, cancelMap, restarts>>

(* WAITING_MODE: the mode is stored only while the run is still there; the *)
(* statement may also fail, and either way the request goes on.            *)
StoreModeConfig(c) ==
  LET r == call[c].run IN
  /\ At(c, "storeMode")
  /\ \/ /\ state[r] = "WAITING_MODE"
        /\ mode' = [mode EXCEPT ![r] = call[c].mode]
     \/ UNCHANGED mode
  /\ Goto(c, "toExecuting")
  /\ UNCHANGED <<state, activePhase, hasVideo, job, cancelled, cancelMap, restarts>>

(* mutant: the goroutine is started although the swap missed *)
AdvanceAndStartAlways(c, from, to, pc) ==
  /\ AdvanceState(call[c].run, from, to)
  /\ \E s \in Slots : Start(s, call[c].run, pc)
  /\ Return(c)
  /\ UNCHANGED <<hasVideo, mode, cancelMap, restarts>>

(* A gate whose successful compare-and-swap starts a goroutine. *)
AdvanceAndStart(c, from, to, pc) ==
  LET r == call[c].run IN
  /\ AdvanceState(r, from, to)
  /\ IF state[r] = from
     THEN \E s \in Slots : Start(s, r, pc)
     ELSE UNCHANGED <<job, cancelled>>
  /\ Return(c)
  /\ UNCHANGED <<hasVideo, mode, cancelMap, restarts>>

ToExecuting(c) ==
  At(c, "toExecuting") /\ AdvanceAndStart(c, "WAITING_MODE", "EXECUTING", "exLoad")

ToClips(c) ==
  /\ At(c, "toClips")
  /\ AdvanceAndStart(c, "WAITING_REVIEW_HIGHLIGHTS", "GENERATING_CLIPS", "cgRegister")

(* Redownload checks the state once, then clears video_path and marks the  *)
(* phase without looking again; an earlier download is left running.       *)
Redownload(c, r) ==
  /\ Admitted(c)
  /\ state[r] = "WAITING_MODE"
  /\ call' = [call EXCEPT ![c] = [pc |-> "clearPath", run |-> r, mode |-> "unset"]]
  /\ UNCHANGED <<row, job, cancelled, cancelMap, restarts>>

ClearPath(c) ==
  /\ At(c, "clearPath")
  /\ hasVideo' = [hasVideo EXCEPT ![call[c].run] = FALSE]
  /\ Goto(c, "markRedownload")
  /\ UNCHANGED <<state, activePhase, mode, job, cancelled, cancelMap, restarts>>

MarkRedownload(c) ==
  /\ At(c, "markRedownload")
  /\ activePhase' = [activePhase EXCEPT ![call[c].run] = "download"]
  /\ Goto(c, "launch")
  /\ UNCHANGED <<state, hasVideo, mode, job, cancelled, cancelMap, restarts>>

(* Cancel writes the row first and signals the goroutine afterwards. *)
Cancel(c, r) ==
  /\ Admitted(c)
  /\ call' = [call EXCEPT ![c] = [pc |-> "cancelRun", run |-> r, mode |-> "unset"]]
  /\ UNCHANGED <<row, job, cancelled, cancelMap, restarts>>

(* mutant: the goroutine is signalled although no row was updated *)
CancelRunUnchecked(c) ==
  LET r == call[c].run IN
  /\ At(c, "cancelRun")
  /\ state' = [state EXCEPT ![r] = IF @ \in Terminal THEN @ ELSE "CANCELLED"]
  /\ Goto(c, "signal")
  /\ UNCHANGED <<activePhase, hasVideo, mode, job, cancelled, cancelMap, restarts>>

CancelRun(c) ==
  LET r == call[c].run IN
  /\ At(c, "cancelRun")
  /\ IF state[r] \in Terminal
     THEN UNCHANGED state /\ Return(c)
     ELSE state' = [state EXCEPT ![r] = "CANCELLED"] /\ Goto(c, "signal")
  /\ UNCHANGED <<activePhase, hasVideo, mode, job, cancelled, cancelMap, restarts>>

(* cancelMap.LoadAndDelete, then the function it held. *)
Signal(c) ==
  LET r == call[c].run IN
  /\ At(c, "signal")
  /\ cancelled' = [s \in Slots |-> cancelled[s] \/ s = cancelMap[r]]
  /\ cancelMap' = [cancelMap EXCEPT ![r] = NoSlot]
  /\ Return(c)
  /\ UNCHANGED <<row, job, restarts>>

(* The client disconnects: r.Context() ends and the next statement fails.  *)
(* Launching and signalling execute no statement and cannot be stopped.    *)
RequestAborted(c) ==
  /\ Aborts
  /\ c \in Busy
  /\ call[c].pc \notin {"launch", "signal"}
  /\ Return(c)
  /\ UNCHANGED <<row, job, cancelled, cancelMap, restarts>>

-----------------------------------------------------------------------------
(* runDownload.  The downloader may succeed although its context was       *)
(* cancelled (Twitch never looks at it); a failure is reported only if the *)
(* context was still alive when the failure was examined.                  *)
Fetch(s) ==
  /\ JobAt(s, "dlFetch")
  /\ \/ JobGoto(s, "dlSave")
     \/ JobGoto(s, IF cancelled[s] THEN "dlExit" ELSE "dlFail")
  /\ UNCHANGED <<row, call, cancelled, cancelMap, restarts>>

SaveDownload(s) ==
  /\ JobAt(s, "dlSave")
  /\ IF cancelled[s]
     THEN UNCHANGED hasVideo /\ JobGoto(s, "dlExit")
     ELSE hasVideo' = [hasVideo EXCEPT ![job[s].run] = TRUE] /\ JobGoto(s, "dlClear")
  /\ UNCHANGED <<state, activePhase, mode, call, cancelled, cancelMap, restarts>>

(* mutant: the phase marker of a finished download is left *)
KeepPhase(s) ==
  /\ JobAt(s, "dlClear")
  /\ JobGoto(s, "dlExit")
  /\ UNCHANGED <<row, call, cancelled, cancelMap, restarts>>

ClearPhase(s) ==
  /\ JobAt(s, "dlClear")
  /\ IF cancelled[s]
     THEN UNCHANGED activePhase
     ELSE activePhase' = [activePhase EXCEPT ![job[s].run] = ""]
  /\ JobGoto(s, "dlExit")
  /\ UNCHANGED <<state, hasVideo, mode, call, cancelled, cancelMap, restarts>>

(* publishError of runDownload and of runClipGeneration *)
ReportFailure(s) ==
  /\ job[s].pc \in {"dlFail", "cgFail"}
  /\ FinishUnlessCancelled(s, job[s].run)
  /\ JobGoto(s, IF job[s].pc = "dlFail" THEN "dlExit" ELSE "cgExit")
  /\ UNCHANGED <<hasVideo, mode, call, cancelled, cancelMap, restarts>>

(* mutant: no deferred delete *)
ExitKeepingEntry(s) ==
  /\ job[s].pc \in {"dlExit", "cgExit"}
  /\ job' = [job EXCEPT ![s] = FreeJob]
  /\ cancelled' = [cancelled EXCEPT ![s] = FALSE]
  /\ UNCHANGED <<row, call, cancelMap, restarts>>

(* The deferred cancelMap.Delete removes the entry of the run, whoever     *)
(* stored it.                                                              *)
Exit(s) ==
  /\ job[s].pc \in {"dlExit", "cgExit"}
  /\ cancelMap' = [cancelMap EXCEPT ![job[s].run] = NoSlot]
  /\ job' = [job EXCEPT ![s] = FreeJob]
  /\ cancelled' = [cancelled EXCEPT ![s] = FALSE]
  /\ UNCHANGED <<row, call, restarts>>

-----------------------------------------------------------------------------
(* runExecution and processor.RunExecution, under a background context     *)
(* that nobody can cancel.  Mode and video path come from one read.        *)
LoadRun(s) ==
  LET r == job[s].run IN
  /\ JobAt(s, "exLoad")
  /\ JobGoto(s, IF mode[r] = "longform" THEN "exToClips"
                ELSE IF hasVideo[r] THEN "exAnalyze" ELSE "exFail")
  /\ UNCHANGED <<row, call, cancelled, cancelMap, restarts>>

(* transcription, highlight detection and the highlights transaction *)
Analyze(s) ==
  /\ JobAt(s, "exAnalyze")
  /\ JobGoto(s, "exToReview") \/ JobGoto(s, "exFail")
  /\ UNCHANGED <<row, call, cancelled, cancelMap, restarts>>

(* mutant: the failure is logged and the row is left as it is *)
FailExecutionSilently(s) ==
  /\ JobAt(s, "exFail")
  /\ job' = [job EXCEPT ![s] = FreeJob]
  /\ UNCHANGED <<row, call, cancelled, cancelMap, restarts>>

FailExecution(s) ==
  /\ JobAt(s, "exFail")
  /\ Finish(job[s].run)
  /\ job' = [job EXCEPT ![s] = FreeJob]
  /\ UNCHANGED <<hasVideo, mode, call, cancelled, cancelMap, restarts>>

ToReview(s) ==
  /\ JobAt(s, "exToReview")
  /\ AdvanceState(job[s].run, "EXECUTING", "WAITING_REVIEW_HIGHLIGHTS")
  /\ job' = [job EXCEPT ![s] = FreeJob]
  /\ UNCHANGED <<hasVideo, mode, call, cancelled, cancelMap, restarts>>

(* Longform: a swap that missed is only a warning, and clip generation     *)
(* starts all the same.                                                    *)
SkipToClips(s) ==
  /\ JobAt(s, "exToClips")
  /\ AdvanceState(job[s].run, "EXECUTING", "GENERATING_CLIPS")
  /\ JobGoto(s, "cgRegister")
  /\ UNCHANGED <<hasVideo, mode, call, cancelled, cancelMap, restarts>>

-----------------------------------------------------------------------------
(* runClipGeneration *)
StoreEntry(s) ==
  /\ JobAt(s, "cgRegister")
  /\ cancelMap' = [cancelMap EXCEPT ![job[s].run] = s]
  /\ JobGoto(s, "cgLoad")
  /\ UNCHANGED <<row, call, cancelled, restarts>>

LoadForClips(s) ==
  /\ JobAt(s, "cgLoad")
  /\ JobGoto(s, IF cancelled[s] \/ ~hasVideo[job[s].run] THEN "cgFail" ELSE "cgGenerate")
  /\ UNCHANGED <<row, call, cancelled, cancelMap, restarts>>

(* Clips that fail, one by one or all, do not fail the run; what does is a *)
(* clip row that cannot be inserted or a directory that cannot be made.    *)
Generate(s) ==
  /\ JobAt(s, "cgGenerate")
  /\ JobGoto(s, "cgAdvance") \/ JobGoto(s, "cgFail")
  /\ UNCHANGED <<row, call, cancelled, cancelMap, restarts>>

(* advanceClipGenDone uses a context of its own. *)
ClipGenDone(s) ==
  /\ JobAt(s, "cgAdvance")
  /\ AdvanceState(job[s].run, "GENERATING_CLIPS", "WAITING_THUMBNAIL_CONFIG")
  /\ JobGoto(s, "cgExit")
  /\ UNCHANGED <<hasVideo, mode, call, cancelled, cancelMap, restarts>>

(* The server dies and comes back: nothing picks up the runs it left.      *)
Restart ==
  /\ restarts < MaxRestarts
  /\ restarts' = restarts + 1
  /\ call' = [c \in Clients |-> IdleCall]
  /\ job' = [s \in Slots |-> FreeJob]
  /\ cancelled' = [s \in Slots |-> FALSE]
  /\ cancelMap' = [r \in Runs |-> NoSlot]
  /\ UNCHANGED row

-----------------------------------------------------------------------------
Request(c) == \E r \in Runs : Advance(c, r) \/ Redownload(c, r) \/ Cancel(c, r)

Handle(c) ==
  \/ PassGate(c) \/ FindVideo(c) \/ StartFresh(c) \/ Launch(c)
  \/ StartReuse(c) \/ SaveReuse(c) \/ ClearReuse(c)
  \/ StoreModeConfig(c) \/ ToExecuting(c) \/ ToClips(c)
  \/ ClearPath(c) \/ MarkRedownload(c)
  \/ CancelRun(c) \/ Signal(c)

Work(s) ==
  \/ Fetch(s) \/ SaveDownload(s) \/ ClearPhase(s) \/ ReportFailure(s) \/ Exit(s)
  \/ LoadRun(s) \/ Analyze(s) \/ FailExecution(s) \/ ToReview(s) \/ SkipToClips(s)
  \/ StoreEntry(s) \/ LoadForClips(s) \/ Generate(s) \/ ClipGenDone(s)

Next ==
  \/ \E c \in Clients : Request(c) \/ Handle(c) \/ RequestAborted(c)
  \/ \E s \in Slots : Work(s)
  \/ Restart

Spec == Init /\ [][Next]_vars

(* The Go scheduler runs every goroutine that can run, and the external    *)
(* programs a phase waits for end.  Users owe the server nothing.          *)
FairSpec ==
  /\ Spec
  /\ \A c \in Clients : WF_vars(Handle(c))
  /\ \A s \in Slots : WF_vars(Work(s))

-----------------------------------------------------------------------------
(* Properties *)

ExecutionAt(r) == {s \in Slots : job[s].run = r /\ job[s].pc \in ExecPC}
ClipGenAt(r) == {s \in Slots : job[s].run = r /\ job[s].pc \in ClipPC \ {"cgExit"}}

(* A goroutine never works on a run that has moved past its phase: while   *)
(* one executes, the run is EXECUTING or has been ended under it, and      *)
(* likewise for clip generation.  Stale handlers, late downloads and the   *)
(* ignored failure of the longform swap all try to break this.             *)
PhaseMatchesState ==
  \A r \in Runs :
    /\ ExecutionAt(r) # {} => state[r] \in {"EXECUTING", "ERROR", "CANCELLED"}
    /\ ClipGenAt(r) # {} => state[r] \in {"GENERATING_CLIPS", "ERROR", "CANCELLED"}

(* A run is executed, and has its clips generated, by one goroutine at a   *)
(* time however often the gate is submitted: two would write the same raw  *)
(* and final clip files and insert every clip twice.                       *)
OneWorkerPerRun ==
  \A r \in Runs : Cardinality(ExecutionAt(r) \cup ClipGenAt(r)) <= 1

(* The context of a goroutine is cancelled only after its own run was      *)
(* ended in the database, so a phase that gives up silently because its    *)
(* context is gone never leaves a run that still waits for it.             *)
CancelFollowsDatabase ==
  \A s \in Slots :
    cancelled[s] => job[s].pc # "free" /\ state[job[s].run] \in {"CANCELLED", "ERROR"}

(* cancelMap holds no function of a goroutine that is gone or that works   *)
(* for another run, in spite of entries being overwritten and deleted by   *)
(* goroutines that did not store them.                                     *)
CancelMapLive ==
  \A r \in Runs : cancelMap[r] # NoSlot =>
    /\ job[cancelMap[r]].run = r
    /\ job[cancelMap[r]].pc \in DownloadPC \cup (ClipPC \ {"cgRegister"})

(* The mode is read twice, by the execution and again by the clip          *)
(* generation, while handlers that saw the run at its mode gate may still  *)
(* be storing theirs.  Both reads give the same branch: a run that skips   *)
(* the review is longform, and one that is analysed or under review is not *)
(* and will not be cut into segments.  (Which mode that is, is another     *)
(* matter: a store that fails leaves the default, or another client's.)    *)
ExecutionFollowsMode ==
  /\ \A s \in Slots :
       /\ JobAt(s, "exToClips") => mode[job[s].run] = "longform"
       /\ job[s].pc \in {"exAnalyze", "exToReview"} => mode[job[s].run] # "longform"
  /\ \A r \in Runs : state[r] = "WAITING_REVIEW_HIGHLIGHTS" => mode[r] # "longform"

(* The service implements the lifecycle, its progress included. *)
ImplementsLifecycle == Lifecycle!Spec
ImplementsLifecycleSafety == Lifecycle!Safety

(* A run that shows a download in progress at its gate does not do so for  *)
(* ever: some goroutine or handler ends it.                                *)
DownloadResolves ==
  \A r \in Runs :
    (state[r] = "WAITING_MODE" /\ activePhase[r] = "download")
      ~> ~(state[r] = "WAITING_MODE" /\ activePhase[r] = "download")

-----------------------------------------------------------------------------
(* What the documents say and the code does not do. *)

=============================================================================
