---------------------------- MODULE ServiceProofs ----------------------------
(***************************************************************************)
(* Proofs about PipelineRun for every number of runs, clients, goroutine   *)
(* slots and restarts: type correctness, the inductive invariant and what  *)
(* follows from it, and that the service implements RunLifecycle.  Then    *)
(* about the hub by which the service publishes, SSEHub, for every number  *)
(* of publishers, listeners and events and every capacity that leaves room *)
(* for the history.                                                        *)
(*                                                                         *)
(* For the invariant of the service the actions are gone through once per  *)
(* variable: a first part says which moves a step can make with one        *)
(* goroutine, row, request or cancelMap entry, and the rest uses the moves *)
(* only.                                                                   *)
(***************************************************************************)
EXTENDS PipelineRun, SSEHub, RangeFacts, FiniteSetTheorems, TLAPS

-----------------------------------------------------------------------------
(* Type correctness.  The lemmas say what the shared pieces of the actions *)
(* do to the one variable they write.                                      *)

LEMMA PCFacts ==
  /\ {"findVideo", "startFresh", "launch", "startReuse", "saveReuse",
      "clearReuse", "storeMode", "toExecuting", "toClips", "toMetadata",
      "toReview", "toConfirm", "toDone", "clearPath", "markRedownload",
      "cancelRun", "signal"} \subseteq CallPC
  /\ {"dlFetch", "dlSave", "dlClear", "dlFail", "dlExit", "exLoad",
      "exAnalyze", "exToReview", "exToClips", "exFail", "cgRegister",
      "cgLoad", "cgGenerate", "cgAdvance", "cgFail", "cgExit"} \subseteq JobPC
  /\ {"WAITING_URL", "WAITING_MODE", "EXECUTING",
      "WAITING_REVIEW_HIGHLIGHTS", "GENERATING_CLIPS",
      "WAITING_THUMBNAIL_CONFIG", "ERROR", "CANCELLED"} \subseteq Lifecycle!States
BY DEF CallPC, JobPC, DownloadPC, ExecPC, ClipPC, Lifecycle!States

LEMMA CallField ==
  ASSUME TypeOK, NEW c \in Clients
  PROVE  /\ call[c].run \in Runs \cup {NoRun}
         /\ call[c].mode \in Modes \cup {"unset"}
BY DEF TypeOK, CallRecord

LEMMA GotoType ==
  ASSUME TypeOK, NEW c \in Clients, NEW pc \in CallPC, Goto(c, pc)
  PROVE  call' \in [Clients -> CallRecord]
BY DEF TypeOK, CallRecord, Goto

LEMMA ReturnType ==
  ASSUME TypeOK, NEW c \in Clients, Return(c)
  PROVE  call' \in [Clients -> CallRecord]
BY DEF TypeOK, CallRecord, Return, IdleCall

LEMMA RequestType ==
  ASSUME TypeOK, NEW c \in Clients, NEW pc \in CallPC, NEW r \in Runs,
         NEW m \in Modes \cup {"unset"},
         call' = [call EXCEPT ![c] = [pc |-> pc, run |-> r, mode |-> m]]
  PROVE  call' \in [Clients -> CallRecord]
BY DEF TypeOK, CallRecord

LEMMA JobGotoType ==
  ASSUME TypeOK, NEW s \in Slots, NEW pc \in JobPC, JobGoto(s, pc)
  PROVE  job' \in [Slots -> JobRecord]
BY DEF TypeOK, JobRecord, JobGoto

LEMMA FreeJobType ==
  ASSUME TypeOK, NEW s \in Slots, job' = [job EXCEPT ![s] = FreeJob]
  PROVE  job' \in [Slots -> JobRecord]
BY DEF TypeOK, JobRecord, FreeJob

LEMMA StartType ==
  ASSUME TypeOK, NEW s \in Slots, NEW r \in Runs \cup {NoRun}, NEW pc \in JobPC,
         Start(s, r, pc)
  PROVE  /\ job' \in [Slots -> JobRecord]
         /\ cancelled' \in [Slots -> BOOLEAN]
BY DEF TypeOK, JobRecord, Start

LEMMA AdvanceStateType ==
  ASSUME TypeOK, NEW r, NEW from, NEW to \in Lifecycle!States,
         AdvanceState(r, from, to)
  PROVE  /\ state' \in [Runs -> Lifecycle!States]
         /\ activePhase' \in [Runs -> {"", "download"}]
BY DEF TypeOK, AdvanceState

LEMMA StartDownloadType ==
  ASSUME TypeOK, NEW r, StartDownloadAndAdvance(r)
  PROVE  /\ state' \in [Runs -> Lifecycle!States]
         /\ activePhase' \in [Runs -> {"", "download"}]
BY PCFacts DEF TypeOK, StartDownloadAndAdvance

LEMMA FinishType ==
  ASSUME TypeOK, NEW r, Finish(r)
  PROVE  /\ state' \in [Runs -> Lifecycle!States]
         /\ activePhase' \in [Runs -> {"", "download"}]
BY PCFacts DEF TypeOK, Finish

LEMMA GateEdgeType ==
  ASSUME NEW pc \in DOMAIN GateEdge
  PROVE  GateEdge[pc][2] \in Lifecycle!States
BY DEF GateEdge, Lifecycle!States

LEMMA TypeStep == ASSUME TypeOK, [Next]_vars PROVE TypeOK'
<1>1. ASSUME NEW c \in Clients, NEW r \in Runs, Advance(c, r) PROVE TypeOK'
  <2>1. PICK m \in Modes \cup {"unset"} :
          call' = [call EXCEPT ![c] = [pc |-> FirstStatement[state[r]], run |-> r, mode |-> m]]
    BY <1>1 DEF Advance
  <2>2. FirstStatement[state[r]] \in CallPC
    BY <1>1, PCFacts DEF Advance, FirstStatement
  <2>3. call' \in [Clients -> CallRecord]
    BY <2>1, <2>2, RequestType
  <2>. QED
    BY <1>1, <2>3 DEF Advance, TypeOK, row
<1>2. ASSUME NEW c \in Clients, NEW r \in Runs, Redownload(c, r) PROVE TypeOK'
  BY <1>2, RequestType, PCFacts DEF Redownload, TypeOK, row
<1>3. ASSUME NEW c \in Clients, NEW r \in Runs, Cancel(c, r) PROVE TypeOK'
  BY <1>3, RequestType, PCFacts DEF Cancel, TypeOK, row
<1>4. ASSUME NEW c \in Clients, PassGate(c) PROVE TypeOK'
  BY <1>4, ReturnType, AdvanceStateType, GateEdgeType DEF PassGate, TypeOK,
     row
<1>5. ASSUME NEW c \in Clients, FindVideo(c) PROVE TypeOK'
  BY <1>5, GotoType, PCFacts DEF FindVideo, At, TypeOK, row
<1>6. ASSUME NEW c \in Clients, StartFresh(c) PROVE TypeOK'
  BY <1>6, GotoType, ReturnType, PCFacts, StartDownloadType DEF StartFresh,
     At, TypeOK, row
<1>7. ASSUME NEW c \in Clients, Launch(c) PROVE TypeOK'
  BY <1>7, ReturnType, StartType, PCFacts, CallField DEF Launch, At, TypeOK, row
<1>8. ASSUME NEW c \in Clients, StartReuse(c) PROVE TypeOK'
  BY <1>8, GotoType, ReturnType, PCFacts, StartDownloadType DEF StartReuse,
     At, TypeOK, row
<1>9. ASSUME NEW c \in Clients, SaveReuse(c) PROVE TypeOK'
  BY <1>9, GotoType, PCFacts DEF SaveReuse, At, TypeOK, row
<1>10. ASSUME NEW c \in Clients, ClearReuse(c) PROVE TypeOK'
  BY <1>10, ReturnType DEF ClearReuse, TypeOK, row
<1>11. ASSUME NEW c \in Clients, StoreModeConfig(c) PROVE TypeOK'
  BY <1>11, GotoType, PCFacts, CallField DEF StoreModeConfig, TypeOK, row
<1>12. ASSUME NEW c \in Clients, ToExecuting(c) PROVE TypeOK'
  BY <1>12, ReturnType, AdvanceStateType, StartType, PCFacts, CallField
     DEF ToExecuting, AdvanceAndStart, TypeOK, row
<1>13. ASSUME NEW c \in Clients, ToClips(c) PROVE TypeOK'
  BY <1>13, ReturnType, AdvanceStateType, StartType, PCFacts, CallField
     DEF ToClips, AdvanceAndStart, TypeOK, row
<1>14. ASSUME NEW c \in Clients, ClearPath(c) PROVE TypeOK'
  BY <1>14, GotoType, PCFacts DEF ClearPath, TypeOK, row
<1>15. ASSUME NEW c \in Clients, MarkRedownload(c) PROVE TypeOK'
  BY <1>15, GotoType, PCFacts DEF MarkRedownload, TypeOK, row
<1>16. ASSUME NEW c \in Clients, CancelRun(c) PROVE TypeOK'
  BY <1>16, GotoType, ReturnType, PCFacts DEF CancelRun, TypeOK, row
<1>17. ASSUME NEW c \in Clients, Signal(c) PROVE TypeOK'
  BY <1>17, ReturnType DEF Signal, TypeOK, row
<1>18. ASSUME NEW c \in Clients, RequestAborted(c) PROVE TypeOK'
  BY <1>18, ReturnType DEF RequestAborted, TypeOK, row
<1>19. ASSUME NEW s \in Slots, Fetch(s) PROVE TypeOK'
  BY <1>19, JobGotoType, PCFacts DEF Fetch, TypeOK, row
<1>20. ASSUME NEW s \in Slots, SaveDownload(s) PROVE TypeOK'
  BY <1>20, JobGotoType, PCFacts DEF SaveDownload, TypeOK, row
<1>21. ASSUME NEW s \in Slots, ClearPhase(s) PROVE TypeOK'
  BY <1>21, JobGotoType, PCFacts DEF ClearPhase, TypeOK, row
<1>22. ASSUME NEW s \in Slots, ReportFailure(s) PROVE TypeOK'
  BY <1>22, JobGotoType, FinishType, PCFacts DEF ReportFailure,
     FinishUnlessCancelled, TypeOK, row
<1>23. ASSUME NEW s \in Slots, Exit(s) PROVE TypeOK'
  BY <1>23, FreeJobType DEF Exit, TypeOK, row
<1>24. ASSUME NEW s \in Slots, LoadRun(s) PROVE TypeOK'
  BY <1>24, JobGotoType, PCFacts DEF LoadRun, TypeOK, row
<1>25. ASSUME NEW s \in Slots, Analyze(s) PROVE TypeOK'
  BY <1>25, JobGotoType, PCFacts DEF Analyze, TypeOK, row
<1>26. ASSUME NEW s \in Slots, FailExecution(s) PROVE TypeOK'
  BY <1>26, FreeJobType, FinishType DEF FailExecution, TypeOK, row
<1>27. ASSUME NEW s \in Slots, ToReview(s) PROVE TypeOK'
  BY <1>27, FreeJobType, AdvanceStateType, PCFacts DEF ToReview, TypeOK, row
<1>28. ASSUME NEW s \in Slots, SkipToClips(s) PROVE TypeOK'
  BY <1>28, JobGotoType, AdvanceStateType, PCFacts DEF SkipToClips, TypeOK,
     row
<1>29. ASSUME NEW s \in Slots, StoreEntry(s) PROVE TypeOK'
  BY <1>29, JobGotoType, PCFacts DEF StoreEntry, TypeOK, row
<1>30. ASSUME NEW s \in Slots, LoadForClips(s) PROVE TypeOK'
  BY <1>30, JobGotoType, PCFacts DEF LoadForClips, TypeOK, row
<1>31. ASSUME NEW s \in Slots, Generate(s) PROVE TypeOK'
  BY <1>31, JobGotoType, PCFacts DEF Generate, TypeOK, row
<1>32. ASSUME NEW s \in Slots, ClipGenDone(s) PROVE TypeOK'
  BY <1>32, JobGotoType, AdvanceStateType, PCFacts DEF ClipGenDone, TypeOK,
     row
<1>33. CASE Restart
  <2>1. restarts' \in 0 .. MaxRestarts
    <3>1. restarts \in 0 .. MaxRestarts /\ MaxRestarts \in Nat
      BY ConstantsOK DEF ConstantsOK, TypeOK
    <3>2. restarts < MaxRestarts /\ restarts' = restarts + 1
      BY <1>33 DEF Restart
    <3>. QED
      BY <3>1, <3>2
  <2>2. call' \in [Clients -> CallRecord] /\ job' \in [Slots -> JobRecord]
    BY <1>33 DEF Restart, CallRecord, JobRecord, IdleCall, FreeJob
  <2>. QED
    BY <1>33, <2>1, <2>2 DEF Restart, TypeOK, row
<1>34. CASE UNCHANGED vars
  BY <1>34 DEF vars, memory, row, TypeOK
<1>. QED
  BY <1>1, <1>2, <1>3, <1>4, <1>5, <1>6, <1>7, <1>8, <1>9, <1>10, <1>11,
     <1>12, <1>13, <1>14, <1>15, <1>16, <1>17, <1>18, <1>19, <1>20, <1>21,
     <1>22, <1>23, <1>24, <1>25, <1>26, <1>27, <1>28, <1>29, <1>30, <1>31,
     <1>32, <1>33, <1>34 DEF Next, Request, Handle, Work

LEMMA InitType == Init => TypeOK
<1>1. 0 \in 0 .. MaxRestarts
  BY ConstantsOK DEF ConstantsOK
<1>2. IdleCall \in CallRecord /\ FreeJob \in JobRecord
  BY DEF CallRecord, JobRecord, IdleCall, FreeJob
<1>. SUFFICES ASSUME Init PROVE TypeOK
  OBVIOUS
<1>3. state \in [Runs -> Lifecycle!States] /\ activePhase \in [Runs -> {"", "download"}]
  BY PCFacts DEF Init
<1>4. hasVideo \in [Runs -> BOOLEAN] /\ mode \in [Runs -> Modes \cup {"unset"}]
  BY DEF Init
<1>5. call \in [Clients -> CallRecord] /\ job \in [Slots -> JobRecord]
  BY <1>2 DEF Init
<1>6. cancelled \in [Slots -> BOOLEAN] /\ cancelMap \in [Runs -> Slots \cup {NoSlot}]
  BY DEF Init
<1>. QED
  BY <1>1, <1>3, <1>4, <1>5, <1>6 DEF Init, TypeOK

(* Every variable of the service keeps its type, whatever is interleaved.  *)
THEOREM TypeCorrect == Spec => []TypeOK
<1>1. TypeOK /\ [Next]_vars => TypeOK'
  BY TypeStep
<1>. QED
  BY InitType, <1>1, PTL DEF Spec

-----------------------------------------------------------------------------
(* The inductive invariant.  PhaseMatchesState and the others are not      *)
(* inductive by themselves: a step of a goroutine or of a handler keeps    *)
(* them only because of what its program counter says about the row it is  *)
(* about to write.                                                         *)

Ended == {"CANCELLED", "ERROR"}
Cancellable == DownloadPC \cup (ClipPC \ {"cgRegister"})
Working == ExecPC \cup (ClipPC \ {"cgExit"})

(* Requests in flight and live goroutines belong to a run. *)
Placed ==
  /\ \A c \in Clients : call[c].pc # "idle" => call[c].run \in Runs
  /\ \A s \in Slots : job[s].pc # "free" => job[s].run \in Runs

(* What the state of its run can be while a goroutine is at work. *)
JobState ==
  \A s \in Slots :
    /\ job[s].pc \in ExecPC
         => state[job[s].run] \in {"EXECUTING", "ERROR", "CANCELLED"}
    /\ job[s].pc \in ClipPC \ {"cgExit"}
         => state[job[s].run] \in {"GENERATING_CLIPS", "ERROR", "CANCELLED"}
    /\ job[s].pc \in DownloadPC => state[job[s].run] # "WAITING_URL"

(* What a handler still knows about its run before its next statement.     *)
CallState ==
  \A c \in Clients :
    /\ call[c].pc = "signal" => state[call[c].run] \in Ended
    /\ call[c].pc \in {"launch", "clearPath", "markRedownload", "storeMode", "toExecuting"}
         => state[call[c].run] # "WAITING_URL"
    /\ call[c].pc = "storeMode" => call[c].mode \in Modes

(* No two goroutines execute, or generate clips for, one run. *)
Exclusive ==
  \A s, t \in Slots :
    s # t /\ job[s].pc \in Working /\ job[t].pc \in Working => job[s].run # job[t].run

(* Only goroutines that have been in cancelMap are ever cancelled. *)
CancelledOK ==
  \A s \in Slots :
    cancelled[s] => job[s].pc \in Cancellable /\ state[job[s].run] \in Ended

(* Execution holds a snapshot of a mode that can no longer change, and     *)
(* hands it to the review.                                                 *)
ModeOK ==
  /\ \A r \in Runs : state[r] = "WAITING_REVIEW_HIGHLIGHTS" => mode[r] # "longform"
  /\ \A s \in Slots :
       /\ job[s].pc = "exToClips" => mode[job[s].run] = "longform"
       /\ job[s].pc \in {"exAnalyze", "exToReview"} => mode[job[s].run] # "longform"

IInv ==
  TypeOK /\ Placed /\ JobState /\ CallState /\ Exclusive /\ CancelledOK
    /\ CancelMapLive /\ ModeOK

-----------------------------------------------------------------------------
(* What one step does to one goroutine, one row, one request and one entry *)
(* of cancelMap.  The lemmas that follow go through the actions once and   *)
(* show that every step consists of such moves; the parts of IInv are then *)
(* shown to be kept by the moves.                                          *)

Begins(s) ==
  LET r == job'[s].run IN
  /\ job[s].pc = "free" /\ ~ cancelled'[s] /\ r \in Runs
  /\ \/ job'[s].pc = "dlFetch" /\ state'[r] # "WAITING_URL"
     \/ job'[s].pc = "exLoad" /\ state[r] = "WAITING_MODE" /\ state'[r] = "EXECUTING"
     \/ /\ job'[s].pc = "cgRegister"
        /\ state[r] = "WAITING_REVIEW_HIGHLIGHTS" /\ state'[r] = "GENERATING_CLIPS"

Continues(s) ==
  LET r == job[s].run IN
  /\ job'[s].run = r
  /\ \/ job[s].pc \in DownloadPC /\ job'[s].pc \in DownloadPC
     \/ job[s].pc = "exLoad" /\ job'[s].pc = "exToClips" /\ mode[r] = "longform"
     \/ job[s].pc = "exLoad" /\ job'[s].pc = "exAnalyze" /\ mode[r] # "longform"
     \/ job[s].pc = "exAnalyze" /\ job'[s].pc = "exToReview"
     \/ job[s].pc \in {"exLoad", "exAnalyze"} /\ job'[s].pc = "exFail"
     \/ job[s].pc = "exToClips" /\ job'[s].pc = "cgRegister" /\ state'[r] # "EXECUTING"
     \/ job[s].pc \in ClipPC \ {"cgExit"} /\ job'[s].pc \in ClipPC \ {"cgRegister"}

Finishes(s) ==
  /\ job'[s].pc = "free"
  /\ job[s].pc \in DownloadPC \cup ClipPC
       => ~ cancelled'[s] /\ cancelMap'[job[s].run] = NoSlot

JobMove(s) == job'[s] = job[s] \/ Begins(s) \/ Continues(s) \/ Finishes(s)

(* At most one goroutine moves, unless the server restarts. *)
OneMoves ==
  \A s, t \in Slots :
    s # t => job'[s] = job[s] \/ job'[t] = job[t] \/ job'[s].pc = "free"

Gates == { "WAITING_URL", "WAITING_MODE", "WAITING_REVIEW_HIGHLIGHTS",
           "WAITING_THUMBNAIL_CONFIG", "WAITING_REVIEW_METADATA",
           "WAITING_REVIEW_CLIPS", "WAITING_UPLOAD_CONFIRM" }

PassesGate(r) ==
  /\ state[r] \in Gates
  /\ state'[r] \notin {"WAITING_URL", "WAITING_REVIEW_HIGHLIGHTS"}
  /\ state[r] = "WAITING_URL" <=> state'[r] = "WAITING_MODE"
  /\ state[r] = "WAITING_MODE"
       => \E c \in Clients : call[c].pc = "toExecuting" /\ call[c].run = r

LeavesPhase(r) ==
  \E s \in Slots :
    /\ job[s].run = r
    /\ \/ /\ state[r] = "EXECUTING" /\ job[s].pc = "exToReview"
          /\ state'[r] = "WAITING_REVIEW_HIGHLIGHTS" /\ job'[s].pc = "free"
       \/ /\ state[r] = "EXECUTING" /\ job[s].pc = "exToClips"
          /\ state'[r] = "GENERATING_CLIPS" /\ job'[s].pc = "cgRegister"
       \/ /\ state[r] = "GENERATING_CLIPS" /\ job[s].pc = "cgAdvance"
          /\ state'[r] = "WAITING_THUMBNAIL_CONFIG" /\ job'[s].pc = "cgExit"

StateMove(r) ==
  state'[r] = state[r] \/ state'[r] \in Ended \/ PassesGate(r) \/ LeavesPhase(r)

(* The mode is written at the mode gate only. *)
ModeMove(r) ==
  mode'[r] = mode[r] \/ (state[r] = "WAITING_MODE" /\ mode'[r] \in Modes)

Arrives(c) ==
  LET r == call'[c].run IN
  /\ r \in Runs
  /\ call'[c].pc \notin {"launch", "markRedownload", "toExecuting", "signal"}
  /\ call'[c].pc = "storeMode" => state'[r] = "WAITING_MODE" /\ call'[c].mode \in Modes
  /\ call'[c].pc = "clearPath" => state'[r] = "WAITING_MODE"

Proceeds(c) ==
  LET r == call[c].run IN
  /\ call[c].pc # "idle" /\ call'[c].run = r
  /\ call'[c].pc \notin {"storeMode", "clearPath"}
  /\ call'[c].pc = "launch" => call[c].pc = "markRedownload" \/ state'[r] # "WAITING_URL"
  /\ call'[c].pc = "markRedownload" => call[c].pc = "clearPath"
  /\ call'[c].pc = "toExecuting" => call[c].pc = "storeMode"
  /\ call'[c].pc = "signal" => state'[r] = "CANCELLED"

CallMove(c) ==
  call'[c] = call[c] \/ call'[c].pc = "idle" \/ Arrives(c) \/ Proceeds(c)

CancelMove(s) ==
  cancelled'[s] =>
    \/ cancelled[s]
    \/ /\ job' = job /\ state' = state
       /\ \E c \in Clients : call[c].pc = "signal" /\ cancelMap[call[c].run] = s

EntryMove(r) ==
  \/ cancelMap'[r] \in {cancelMap[r], NoSlot}
  \/ \E s \in Slots :
       /\ cancelMap'[r] = s
       /\ job'[s].run = r /\ job'[s].pc \in {"dlFetch", "cgLoad"}
-----------------------------------------------------------------------------
(* The effect of the shared pieces of the actions, pointwise. *)

LEMMA GotoEffect ==
  ASSUME TypeOK, NEW c \in Clients, NEW pc, Goto(c, pc), NEW d \in Clients
  PROVE  /\ d = c => call'[d].pc = pc /\ call'[d].run = call[d].run
                       /\ call'[d].mode = call[d].mode
         /\ d # c => call'[d] = call[d]
BY DEF TypeOK, CallRecord, Goto

LEMMA ReturnEffect ==
  ASSUME TypeOK, NEW c \in Clients, Return(c), NEW d \in Clients
  PROVE  /\ d = c => call'[d].pc = "idle"
         /\ d # c => call'[d] = call[d]
BY DEF TypeOK, Return, IdleCall

LEMMA JobGotoEffect ==
  ASSUME TypeOK, NEW s \in Slots, NEW pc, JobGoto(s, pc), NEW t \in Slots
  PROVE  /\ t = s => job'[t].pc = pc /\ job'[t].run = job[t].run
         /\ t # s => job'[t] = job[t]
BY DEF TypeOK, JobRecord, JobGoto

LEMMA FreeJobEffect ==
  ASSUME TypeOK, NEW s \in Slots, job' = [job EXCEPT ![s] = FreeJob], NEW t \in Slots
  PROVE  /\ t = s => job'[t].pc = "free"
         /\ t # s => job'[t] = job[t]
BY DEF TypeOK, FreeJob

LEMMA StartEffect ==
  ASSUME TypeOK, NEW s \in Slots, NEW r, NEW pc, Start(s, r, pc), NEW t \in Slots
  PROVE  /\ t = s => /\ job[t].pc = "free" /\ job'[t].pc = pc
                     /\ job'[t].run = r /\ ~ cancelled'[t]
         /\ t # s => job'[t] = job[t] /\ cancelled'[t] = cancelled[t]
BY DEF TypeOK, Start, Free

LEMMA AdvanceStateEffect ==
  ASSUME TypeOK, NEW r, NEW from, NEW to, AdvanceState(r, from, to), NEW q \in Runs
  PROVE  state'[q] = IF q = r /\ state[q] = from THEN to ELSE state[q]
BY DEF TypeOK, AdvanceState

LEMMA StartDownloadEffect ==
  ASSUME TypeOK, NEW r, StartDownloadAndAdvance(r), NEW q \in Runs
  PROVE  state'[q] = IF q = r /\ state[q] = "WAITING_URL" THEN "WAITING_MODE" ELSE state[q]
BY DEF TypeOK, StartDownloadAndAdvance

LEMMA FinishEffect ==
  ASSUME TypeOK, NEW r, Finish(r), NEW q \in Runs
  PROVE  state'[q] = IF q = r THEN "ERROR" ELSE state[q]
BY DEF TypeOK, Finish

LEMMA CancelEffect ==
  ASSUME TypeOK, NEW c, CancelRun(c), NEW q \in Runs
  PROVE  state'[q] = IF q = call[c].run /\ state[q] \notin Terminal
                     THEN "CANCELLED" ELSE state[q]
BY DEF TypeOK, CancelRun

LEMMA GateEdgeFacts ==
  ASSUME NEW pc \in DOMAIN GateEdge
  PROVE  /\ pc \in {"toMetadata", "toReview", "toConfirm", "toDone"}
         /\ GateEdge[pc][1] \in Gates \ {"WAITING_URL", "WAITING_MODE"}
         /\ GateEdge[pc][2] \in
              (Gates \ {"WAITING_URL", "WAITING_MODE", "WAITING_REVIEW_HIGHLIGHTS"})
                \cup {"DONE"}
BY DEF GateEdge, Gates

-----------------------------------------------------------------------------
(* Every step consists of moves. *)

LEMMA JobMoves == ASSUME IInv, Next, NEW t \in Slots PROVE JobMove(t)
<1>. TypeOK
  BY DEF IInv
<1>1. ASSUME NEW c \in Clients, Launch(c) PROVE JobMove(t)
  <2>1. PICK s \in Slots : Start(s, call[c].run, "dlFetch")
    BY <1>1 DEF Launch
  <2>2. call[c].run \in Runs /\ state'[call[c].run] # "WAITING_URL"
    BY <1>1 DEF Launch, At, row, IInv, Placed, CallState
  <2>. QED
    BY <2>1, <2>2, StartEffect DEF JobMove, Begins
<1>2. ASSUME NEW c \in Clients, ToExecuting(c) \/ ToClips(c) PROVE JobMove(t)
  <2>1. PICK from, to, pc :
          /\ AdvanceAndStart(c, from, to, pc)
          /\ \/ from = "WAITING_MODE" /\ to = "EXECUTING" /\ pc = "exLoad"
             \/ /\ from = "WAITING_REVIEW_HIGHLIGHTS" /\ to = "GENERATING_CLIPS"
                /\ pc = "cgRegister"
    BY <1>2 DEF ToExecuting, ToClips
  <2>2. call[c].run \in Runs
    BY <1>2 DEF ToExecuting, ToClips, At, IInv, Placed
  <2>3. CASE state[call[c].run] = from
    <3>1. PICK s \in Slots : Start(s, call[c].run, pc)
      BY <2>1, <2>3 DEF AdvanceAndStart
    <3>2. state'[call[c].run] = to
      BY <2>1, <2>2, <2>3, AdvanceStateEffect DEF AdvanceAndStart
    <3>. QED
      BY <2>1, <2>2, <2>3, <3>1, <3>2, StartEffect DEF JobMove, Begins
  <2>. QED
    BY <2>1, <2>3 DEF AdvanceAndStart, JobMove
<1>3. ASSUME NEW s \in Slots,
             Fetch(s) \/ SaveDownload(s) \/ ClearPhase(s)
      PROVE  JobMove(t)
  <2>1. PICK pc : JobGoto(s, pc) /\ pc \in DownloadPC /\ job[s].pc \in DownloadPC
    BY <1>3 DEF Fetch, SaveDownload, ClearPhase, JobAt, DownloadPC
  <2>. QED
    BY <2>1, JobGotoEffect DEF JobMove, Continues
<1>4. ASSUME NEW s \in Slots, ReportFailure(s) PROVE JobMove(t)
  <2>1. PICK pc : /\ JobGoto(s, pc)
                  /\ \/ pc \in DownloadPC /\ job[s].pc \in DownloadPC
                     \/ /\ job[s].pc \in ClipPC \ {"cgExit"}
                        /\ pc \in ClipPC \ {"cgRegister"}
    BY <1>4 DEF ReportFailure, DownloadPC, ClipPC
  <2>. QED
    BY <2>1, JobGotoEffect DEF JobMove, Continues
<1>5. ASSUME NEW s \in Slots, Exit(s) PROVE JobMove(t)
  <2>1. job[s].run \in Runs
    BY <1>5 DEF Exit, IInv, Placed
  <2>2. cancelMap'[job[s].run] = NoSlot /\ ~ cancelled'[s]
    BY <1>5, <2>1 DEF Exit, TypeOK
  <2>. QED
    BY <1>5, <2>2, FreeJobEffect DEF Exit, JobMove, Finishes
<1>6. ASSUME NEW s \in Slots, LoadRun(s) \/ Analyze(s) PROVE JobMove(t)
  <2>1. PICK pc :
          /\ JobGoto(s, pc)
          /\ \/ job[s].pc = "exLoad" /\ pc = "exToClips" /\ mode[job[s].run] = "longform"
             \/ job[s].pc = "exLoad" /\ pc = "exAnalyze" /\ mode[job[s].run] # "longform"
             \/ job[s].pc = "exAnalyze" /\ pc = "exToReview"
             \/ job[s].pc \in {"exLoad", "exAnalyze"} /\ pc = "exFail"
    BY <1>6 DEF LoadRun, Analyze, JobAt
  <2>. QED
    BY <2>1, JobGotoEffect DEF JobMove, Continues
<1>7. ASSUME NEW s \in Slots, FailExecution(s) \/ ToReview(s) PROVE JobMove(t)
  <2>1. job[s].pc \notin DownloadPC \cup ClipPC /\ job' = [job EXCEPT ![s] = FreeJob]
    BY <1>7 DEF FailExecution, ToReview, JobAt, DownloadPC, ClipPC
  <2>. QED
    BY <2>1, FreeJobEffect DEF JobMove, Finishes
<1>8. ASSUME NEW s \in Slots, SkipToClips(s) PROVE JobMove(t)
  <2>1. job[s].run \in Runs
    BY <1>8 DEF SkipToClips, JobAt, IInv, Placed
  <2>2. state'[job[s].run] # "EXECUTING"
    BY <1>8, <2>1, AdvanceStateEffect DEF SkipToClips
  <2>. QED
    BY <1>8, <2>2, JobGotoEffect DEF SkipToClips, JobAt, JobMove, Continues
<1>9. ASSUME NEW s \in Slots,
             StoreEntry(s) \/ LoadForClips(s) \/ Generate(s) \/ ClipGenDone(s)
      PROVE  JobMove(t)
  <2>1. PICK pc : /\ JobGoto(s, pc)
                  /\ job[s].pc \in ClipPC \ {"cgExit"}
                  /\ pc \in ClipPC \ {"cgRegister"}
    BY <1>9 DEF StoreEntry, LoadForClips, Generate, ClipGenDone, JobAt, ClipPC
  <2>. QED
    BY <2>1, JobGotoEffect DEF JobMove, Continues
<1>10. CASE Restart
  <2>1. job'[t].pc = "free" /\ ~ cancelled'[t]
    BY <1>10 DEF Restart, FreeJob
  <2>2. job[t].pc \in DownloadPC \cup ClipPC => job[t].run \in Runs
    BY DEF IInv, Placed, DownloadPC, ClipPC
  <2>. QED
    BY <1>10, <2>1, <2>2 DEF Restart, JobMove, Finishes
<1>11. ASSUME NEW c \in Clients, NEW r \in Runs,
              Advance(c, r) \/ Redownload(c, r) \/ Cancel(c, r)
       PROVE  JobMove(t)
  BY <1>11 DEF Advance, Redownload, Cancel, JobMove
<1>12. ASSUME NEW c \in Clients,
              \/ PassGate(c) \/ FindVideo(c) \/ StartFresh(c) \/ StartReuse(c)
              \/ SaveReuse(c) \/ ClearReuse(c) \/ StoreModeConfig(c)
              \/ ClearPath(c) \/ MarkRedownload(c) \/ CancelRun(c) \/ Signal(c)
              \/ RequestAborted(c)
       PROVE  JobMove(t)
  BY <1>12 DEF PassGate, FindVideo, StartFresh, StartReuse, SaveReuse, ClearReuse,
     StoreModeConfig, ClearPath, MarkRedownload, CancelRun, Signal, RequestAborted,
     JobMove
<1>. QED
  BY <1>1, <1>2, <1>3, <1>4, <1>5, <1>6, <1>7, <1>8, <1>9, <1>10, <1>11, <1>12
  DEF Next, Request, Handle, Work
LEMMA OnlyOneMoves == ASSUME IInv, Next PROVE OneMoves
<1>. TypeOK
  BY DEF IInv
<1>1. ASSUME NEW s \in Slots, Work(s), NEW t \in Slots, t # s PROVE job'[t] = job[t]
  <2>1. \/ \E pc : JobGoto(s, pc)
        \/ job' = [job EXCEPT ![s] = FreeJob]
    BY <1>1 DEF Work, Fetch, SaveDownload, ClearPhase, ReportFailure, Exit, LoadRun,
       Analyze, FailExecution, ToReview, SkipToClips, StoreEntry, LoadForClips, Generate,
       ClipGenDone
  <2>. QED
    BY <1>1, <2>1, JobGotoEffect, FreeJobEffect
<1>2. ASSUME NEW c \in Clients, Launch(c) \/ ToExecuting(c) \/ ToClips(c)
      PROVE  job' = job \/ \E s \in Slots : \A t \in Slots : t # s => job'[t] = job[t]
  <2>1. job' = job \/ \E s \in Slots : \E r, pc : Start(s, r, pc)
    BY <1>2 DEF Launch, ToExecuting, ToClips, AdvanceAndStart
  <2>. QED
    BY <2>1, StartEffect
<1>3. CASE Restart
  BY <1>3 DEF Restart, FreeJob, OneMoves
<1>4. ASSUME NEW c \in Clients, NEW r \in Runs,
             Advance(c, r) \/ Redownload(c, r) \/ Cancel(c, r)
      PROVE  job' = job
  BY <1>4 DEF Advance, Redownload, Cancel
<1>5. ASSUME NEW c \in Clients,
             \/ PassGate(c) \/ FindVideo(c) \/ StartFresh(c) \/ StartReuse(c)
             \/ SaveReuse(c) \/ ClearReuse(c) \/ StoreModeConfig(c)
             \/ ClearPath(c) \/ MarkRedownload(c) \/ CancelRun(c) \/ Signal(c)
             \/ RequestAborted(c)
      PROVE  job' = job
  BY <1>5 DEF PassGate, FindVideo, StartFresh, StartReuse, SaveReuse, ClearReuse,
     StoreModeConfig, ClearPath, MarkRedownload, CancelRun, Signal, RequestAborted
<1>. QED
  BY <1>1, <1>2, <1>3, <1>4, <1>5 DEF Next, Request, Handle, OneMoves

LEMMA StateMoves == ASSUME IInv, Next, NEW q \in Runs PROVE StateMove(q)
<1>. TypeOK
  BY DEF IInv
<1>1. ASSUME NEW c \in Clients, PassGate(c) PROVE StateMove(q)
  <2>. DEFINE e == GateEdge[call[c].pc]
  <2>1. call[c].pc \in DOMAIN GateEdge /\ AdvanceState(call[c].run, e[1], e[2])
    BY <1>1 DEF PassGate
  <2>2. /\ e[1] \in Gates \ {"WAITING_URL", "WAITING_MODE"}
        /\ e[2] \in (Gates \ {"WAITING_URL", "WAITING_MODE", "WAITING_REVIEW_HIGHLIGHTS"})
                      \cup {"DONE"}
    BY <2>1, GateEdgeFacts
  <2>3. state'[q] = IF q = call[c].run /\ state[q] = e[1] THEN e[2] ELSE state[q]
    BY <2>1, AdvanceStateEffect
  <2>. HIDE DEF e
  <2>. QED
    BY <2>2, <2>3 DEF StateMove, PassesGate, Gates
<1>2. ASSUME NEW c \in Clients, StartFresh(c) \/ StartReuse(c) PROVE StateMove(q)
  BY <1>2, StartDownloadEffect DEF StartFresh, StartReuse, StateMove, PassesGate, Gates
<1>3. ASSUME NEW c \in Clients, ToExecuting(c) PROVE StateMove(q)
  BY <1>3, AdvanceStateEffect
  DEF ToExecuting, At, AdvanceAndStart, StateMove, PassesGate, Gates
<1>4. ASSUME NEW c \in Clients, ToClips(c) PROVE StateMove(q)
  BY <1>4, AdvanceStateEffect
  DEF ToClips, AdvanceAndStart, StateMove, PassesGate, Gates
<1>5. ASSUME NEW c \in Clients, CancelRun(c) PROVE StateMove(q)
  BY <1>5, CancelEffect DEF StateMove, Ended
<1>6. ASSUME NEW s \in Slots, ReportFailure(s) \/ FailExecution(s) PROVE StateMove(q)
  BY <1>6, FinishEffect
  DEF ReportFailure, FinishUnlessCancelled, FailExecution, StateMove, Ended
<1>7. ASSUME NEW s \in Slots, ToReview(s) PROVE StateMove(q)
  <2>1. job[s].pc = "exToReview" /\ job'[s].pc = "free"
    BY <1>7, FreeJobEffect DEF ToReview, JobAt
  <2>2. state'[q] = IF q = job[s].run /\ state[q] = "EXECUTING"
                    THEN "WAITING_REVIEW_HIGHLIGHTS" ELSE state[q]
    BY <1>7, AdvanceStateEffect DEF ToReview
  <2>. QED
    BY <2>1, <2>2 DEF StateMove, LeavesPhase
<1>8. ASSUME NEW s \in Slots, SkipToClips(s) PROVE StateMove(q)
  BY <1>8, AdvanceStateEffect, JobGotoEffect DEF SkipToClips, JobAt, StateMove, LeavesPhase
<1>9. ASSUME NEW s \in Slots, ClipGenDone(s) PROVE StateMove(q)
  BY <1>9, AdvanceStateEffect, JobGotoEffect DEF ClipGenDone, JobAt, StateMove, LeavesPhase
<1>10. ASSUME NEW c \in Clients, NEW r \in Runs,
              Advance(c, r) \/ Redownload(c, r) \/ Cancel(c, r)
       PROVE  StateMove(q)
  BY <1>10 DEF Advance, Redownload, Cancel, row, StateMove
<1>11. ASSUME NEW c \in Clients,
              \/ FindVideo(c) \/ Launch(c) \/ SaveReuse(c) \/ ClearReuse(c)
              \/ StoreModeConfig(c) \/ ClearPath(c) \/ MarkRedownload(c)
              \/ Signal(c) \/ RequestAborted(c)
       PROVE  StateMove(q)
  BY <1>11 DEF FindVideo, Launch, SaveReuse, ClearReuse, StoreModeConfig, ClearPath,
     MarkRedownload, Signal, RequestAborted, row, StateMove
<1>12. ASSUME NEW s \in Slots,
              \/ Fetch(s) \/ SaveDownload(s) \/ ClearPhase(s) \/ Exit(s)
              \/ LoadRun(s) \/ Analyze(s) \/ StoreEntry(s) \/ LoadForClips(s)
              \/ Generate(s)
       PROVE  StateMove(q)
  BY <1>12 DEF Fetch, SaveDownload, ClearPhase, Exit, LoadRun, Analyze, StoreEntry,
     LoadForClips, Generate, row, StateMove
<1>13. CASE Restart
  BY <1>13 DEF Restart, row, StateMove
<1>. QED
  BY <1>1, <1>2, <1>3, <1>4, <1>5, <1>6, <1>7, <1>8, <1>9, <1>10, <1>11, <1>12, <1>13
  DEF Next, Request, Handle, Work

LEMMA ModeMoves == ASSUME IInv, Next, NEW q \in Runs PROVE ModeMove(q)
<1>1. ASSUME NEW c \in Clients, StoreModeConfig(c) PROVE ModeMove(q)
  <2>1. call[c].mode \in Modes
    BY <1>1 DEF StoreModeConfig, At, IInv, CallState
  <2>. QED
    BY <1>1, <2>1 DEF StoreModeConfig, ModeMove, IInv, TypeOK
<1>2. ASSUME NEW c \in Clients, NEW r \in Runs,
             Advance(c, r) \/ Redownload(c, r) \/ Cancel(c, r)
      PROVE  mode' = mode
  BY <1>2 DEF Advance, Redownload, Cancel, row
<1>3. ASSUME NEW c \in Clients,
             \/ PassGate(c) \/ FindVideo(c) \/ StartFresh(c) \/ Launch(c)
             \/ StartReuse(c) \/ SaveReuse(c) \/ ClearReuse(c) \/ ToExecuting(c)
             \/ ToClips(c) \/ ClearPath(c) \/ MarkRedownload(c) \/ CancelRun(c)
             \/ Signal(c) \/ RequestAborted(c)
      PROVE  mode' = mode
  BY <1>3 DEF PassGate, FindVideo, StartFresh, Launch, StartReuse, SaveReuse, ClearReuse,
     ToExecuting, ToClips, AdvanceAndStart, ClearPath, MarkRedownload, CancelRun, Signal,
     RequestAborted, row
<1>4. ASSUME NEW s \in Slots, Work(s) PROVE mode' = mode
  BY <1>4 DEF Work, Fetch, SaveDownload, ClearPhase, ReportFailure, Exit, LoadRun,
     Analyze, FailExecution, ToReview, SkipToClips, StoreEntry, LoadForClips, Generate,
     ClipGenDone, row
<1>5. Restart => mode' = mode
  BY DEF Restart, row
<1>. QED
  BY <1>1, <1>2, <1>3, <1>4, <1>5 DEF Next, Request, Handle, ModeMove
LEMMA CallMoves == ASSUME IInv, Next, NEW d \in Clients PROVE CallMove(d)
<1>. TypeOK
  BY DEF IInv
<1>1. ASSUME NEW c \in Clients, NEW r \in Runs, Advance(c, r) PROVE CallMove(d)
  <2>1. PICK m \in (IF state[r] = "WAITING_MODE" THEN Modes ELSE {"unset"}) :
          call' = [call EXCEPT ![c] = [pc |-> FirstStatement[state[r]], run |-> r, mode |-> m]]
    BY <1>1 DEF Advance
  <2>2. state[r] \in DOMAIN FirstStatement /\ state' = state
    BY <1>1 DEF Advance, row
  <2>3. /\ FirstStatement[state[r]] \notin
             {"launch", "markRedownload", "toExecuting", "signal", "clearPath"}
        /\ FirstStatement[state[r]] = "storeMode" => state[r] = "WAITING_MODE"
    BY <2>2 DEF FirstStatement
  <2>4. CASE d = c
    <3>1. /\ call'[d].pc = FirstStatement[state[r]] /\ call'[d].run = r
          /\ call'[d].mode = m
      BY <2>1, <2>4 DEF TypeOK
    <3>. QED
      BY <2>2, <2>3, <3>1 DEF CallMove, Arrives
  <2>5. CASE d # c
    BY <2>1, <2>5 DEF TypeOK, CallMove
  <2>. QED
    BY <2>4, <2>5
<1>2. ASSUME NEW c \in Clients, NEW r \in Runs, Redownload(c, r) \/ Cancel(c, r)
      PROVE  CallMove(d)
  <2>1. PICK pc \in {"clearPath", "cancelRun"} :
          /\ call' = [call EXCEPT ![c] = [pc |-> pc, run |-> r, mode |-> "unset"]]
          /\ pc = "clearPath" => state'[r] = "WAITING_MODE"
    BY <1>2 DEF Redownload, Cancel, row
  <2>2. d = c => call'[d].pc = pc /\ call'[d].run = r
    BY <2>1 DEF TypeOK
  <2>3. d # c => call'[d] = call[d]
    BY <2>1 DEF TypeOK
  <2>. QED
    BY <2>1, <2>2, <2>3 DEF CallMove, Arrives
<1>3. ASSUME NEW c \in Clients, FindVideo(c) \/ SaveReuse(c) PROVE CallMove(d)
  <2>1. PICK pc \in {"startFresh", "startReuse", "clearReuse"} :
          Goto(c, pc) /\ call[c].pc # "idle"
    BY <1>3 DEF FindVideo, SaveReuse, At
  <2>. QED
    BY <2>1, GotoEffect DEF CallMove, Proceeds
<1>4. ASSUME NEW c \in Clients, StartFresh(c) \/ StartReuse(c) PROVE CallMove(d)
  <2>1. call[c].pc # "idle" /\ call[c].run \in Runs /\ StartDownloadAndAdvance(call[c].run)
    BY <1>4 DEF StartFresh, StartReuse, At, IInv, Placed
  <2>2. \/ Return(c)
        \/ /\ Goto(c, "launch") \/ Goto(c, "saveReuse")
           /\ state[call[c].run] = "WAITING_URL"
    BY <1>4 DEF StartFresh, StartReuse
  <2>3. state[call[c].run] = "WAITING_URL" => state'[call[c].run] = "WAITING_MODE"
    BY <2>1, StartDownloadEffect
  <2>. QED
    BY <2>1, <2>2, <2>3, GotoEffect, ReturnEffect DEF CallMove, Proceeds
<1>5. ASSUME NEW c \in Clients, StoreModeConfig(c) PROVE CallMove(d)
  <2>1. call[c].pc = "storeMode" /\ call[c].run \in Runs /\ Goto(c, "toExecuting")
    BY <1>5 DEF StoreModeConfig, At, IInv, Placed
  <2>. QED
    BY <2>1, GotoEffect DEF CallMove, Proceeds
<1>6. ASSUME NEW c \in Clients, ClearPath(c) \/ MarkRedownload(c) PROVE CallMove(d)
  <2>1. \/ call[c].pc = "clearPath" /\ Goto(c, "markRedownload")
        \/ call[c].pc = "markRedownload" /\ Goto(c, "launch")
    BY <1>6 DEF ClearPath, MarkRedownload, At
  <2>. QED
    BY <2>1, GotoEffect DEF CallMove, Proceeds
<1>7. ASSUME NEW c \in Clients, CancelRun(c) PROVE CallMove(d)
  <2>1. call[c].pc = "cancelRun" /\ call[c].run \in Runs
    BY <1>7 DEF CancelRun, At, IInv, Placed
  <2>2. Return(c) \/ (Goto(c, "signal") /\ state[call[c].run] \notin Terminal)
    BY <1>7 DEF CancelRun
  <2>3. state[call[c].run] \notin Terminal => state'[call[c].run] = "CANCELLED"
    BY <1>7, <2>1, CancelEffect
  <2>. QED
    BY <2>1, <2>2, <2>3, GotoEffect, ReturnEffect DEF CallMove, Proceeds
<1>8. ASSUME NEW c \in Clients,
             \/ PassGate(c) \/ Launch(c) \/ ClearReuse(c) \/ ToExecuting(c)
             \/ ToClips(c) \/ Signal(c) \/ RequestAborted(c)
      PROVE  CallMove(d)
  <2>1. Return(c)
    BY <1>8 DEF PassGate, Launch, ClearReuse, ToExecuting, ToClips, AdvanceAndStart,
       Signal, RequestAborted
  <2>. QED
    BY <2>1, ReturnEffect DEF CallMove
<1>9. ASSUME NEW s \in Slots, Work(s) PROVE call' = call
  BY <1>9 DEF Work, Fetch, SaveDownload, ClearPhase, ReportFailure, Exit, LoadRun,
     Analyze, FailExecution, ToReview, SkipToClips, StoreEntry, LoadForClips, Generate,
     ClipGenDone
<1>10. CASE Restart
  BY <1>10 DEF Restart, IdleCall, CallMove
<1>. QED
  BY <1>1, <1>2, <1>3, <1>4, <1>5, <1>6, <1>7, <1>8, <1>9, <1>10
  DEF Next, Request, Handle, CallMove

LEMMA CancelMoves == ASSUME IInv, Next, NEW t \in Slots PROVE CancelMove(t)
<1>. TypeOK
  BY DEF IInv
<1>1. ASSUME NEW c \in Clients, Launch(c) \/ ToExecuting(c) \/ ToClips(c)
      PROVE  CancelMove(t)
  <2>1. cancelled' = cancelled \/ \E s \in Slots : \E r, pc : Start(s, r, pc)
    BY <1>1 DEF Launch, ToExecuting, ToClips, AdvanceAndStart
  <2>. QED
    BY <2>1, StartEffect DEF CancelMove
<1>2. ASSUME NEW c \in Clients, Signal(c) PROVE CancelMove(t)
  BY <1>2 DEF Signal, At, row, CancelMove
<1>3. ASSUME NEW s \in Slots, Exit(s) PROVE CancelMove(t)
  BY <1>3 DEF Exit, TypeOK, CancelMove
<1>4. ASSUME NEW c \in Clients, NEW r \in Runs,
             Advance(c, r) \/ Redownload(c, r) \/ Cancel(c, r)
      PROVE  cancelled' = cancelled
  BY <1>4 DEF Advance, Redownload, Cancel
<1>5. ASSUME NEW c \in Clients,
             \/ PassGate(c) \/ FindVideo(c) \/ StartFresh(c) \/ StartReuse(c)
             \/ SaveReuse(c) \/ ClearReuse(c) \/ StoreModeConfig(c)
             \/ ClearPath(c) \/ MarkRedownload(c) \/ CancelRun(c)
             \/ RequestAborted(c)
       PROVE cancelled' = cancelled
  BY <1>5 DEF PassGate, FindVideo, StartFresh, StartReuse, SaveReuse, ClearReuse,
     StoreModeConfig, ClearPath, MarkRedownload, CancelRun, RequestAborted
<1>6. ASSUME NEW s \in Slots, Work(s), ~ Exit(s) PROVE cancelled' = cancelled
  BY <1>6 DEF Work, Fetch, SaveDownload, ClearPhase, ReportFailure, LoadRun,
     Analyze, FailExecution, ToReview, SkipToClips, StoreEntry, LoadForClips, Generate,
     ClipGenDone
<1>7. CASE Restart
  BY <1>7 DEF Restart, CancelMove
<1>. QED
  BY <1>1, <1>2, <1>3, <1>4, <1>5, <1>6, <1>7 DEF Next, Request, Handle, CancelMove

LEMMA EntryMoves == ASSUME IInv, Next, NEW q \in Runs PROVE EntryMove(q)
<1>. TypeOK
  BY DEF IInv
<1>1. ASSUME NEW c \in Clients, Launch(c) PROVE EntryMove(q)
  <2>1. PICK s \in Slots : /\ Start(s, call[c].run, "dlFetch")
                           /\ cancelMap' = [cancelMap EXCEPT ![call[c].run] = s]
    BY <1>1 DEF Launch
  <2>2. job'[s].pc = "dlFetch" /\ job'[s].run = call[c].run
    BY <2>1, StartEffect
  <2>. QED
    BY <2>1, <2>2 DEF EntryMove, TypeOK
<1>2. ASSUME NEW c \in Clients, Signal(c) PROVE EntryMove(q)
  BY <1>2 DEF Signal, TypeOK, EntryMove
<1>3. ASSUME NEW s \in Slots, Exit(s) PROVE EntryMove(q)
  BY <1>3 DEF Exit, TypeOK, EntryMove
<1>4. ASSUME NEW s \in Slots, StoreEntry(s) PROVE EntryMove(q)
  <2>1. job'[s].pc = "cgLoad" /\ job'[s].run = job[s].run
    BY <1>4, JobGotoEffect DEF StoreEntry
  <2>. QED
    BY <1>4, <2>1 DEF StoreEntry, TypeOK, EntryMove
<1>5. ASSUME NEW c \in Clients, NEW r \in Runs,
             Advance(c, r) \/ Redownload(c, r) \/ Cancel(c, r)
      PROVE  cancelMap' = cancelMap
  BY <1>5 DEF Advance, Redownload, Cancel
<1>6. ASSUME NEW c \in Clients,
             \/ PassGate(c) \/ FindVideo(c) \/ StartFresh(c) \/ StartReuse(c)
             \/ SaveReuse(c) \/ ClearReuse(c) \/ StoreModeConfig(c)
             \/ ToExecuting(c) \/ ToClips(c) \/ ClearPath(c) \/ MarkRedownload(c)
             \/ CancelRun(c) \/ RequestAborted(c)
       PROVE cancelMap' = cancelMap
  BY <1>6 DEF PassGate, FindVideo, StartFresh, StartReuse, SaveReuse, ClearReuse,
     StoreModeConfig, ToExecuting, ToClips, AdvanceAndStart, ClearPath, MarkRedownload,
     CancelRun, RequestAborted
<1>7. ASSUME NEW s \in Slots, Work(s), ~ Exit(s), ~ StoreEntry(s)
      PROVE  cancelMap' = cancelMap
  BY <1>7 DEF Work, Fetch, SaveDownload, ClearPhase, ReportFailure, LoadRun,
     Analyze, FailExecution, ToReview, SkipToClips, LoadForClips, Generate,
     ClipGenDone
<1>8. CASE Restart
  BY <1>8 DEF Restart, EntryMove
<1>. QED
  BY <1>1, <1>2, <1>3, <1>4, <1>5, <1>6, <1>7, <1>8 DEF Next, Request, Handle, EntryMove

-----------------------------------------------------------------------------
(* The moves keep the parts of the invariant. *)

LEMMA PCSets ==
  /\ DownloadPC \cap ExecPC = {} /\ DownloadPC \cap ClipPC = {} /\ ExecPC \cap ClipPC = {}
  /\ "free" \notin DownloadPC \cup ExecPC \cup ClipPC
  /\ {"exLoad", "exAnalyze", "exToReview", "exToClips", "exFail"} = ExecPC
  /\ "dlFetch" \in DownloadPC
  /\ {"cgRegister", "cgLoad", "cgAdvance", "cgExit"} \subseteq ClipPC
BY DEF DownloadPC, ExecPC, ClipPC

LEMMA PlacedStep == ASSUME IInv, Next PROVE Placed'
<1>1. ASSUME NEW c \in Clients, call'[c].pc # "idle" PROVE call'[c].run \in Runs
  BY <1>1, CallMoves DEF CallMove, Arrives, Proceeds, IInv, Placed
<1>2. ASSUME NEW s \in Slots, job'[s].pc # "free" PROVE job'[s].run \in Runs
  BY <1>2, JobMoves, PCSets DEF JobMove, Begins, Continues, Finishes, IInv, Placed
<1>. QED
  BY <1>1, <1>2 DEF Placed

(* A goroutine that works on a run pins its phase: another one that could  *)
(* move the run on would have to work on it, too.                          *)
LEMMA PhasePinned ==
  ASSUME IInv, Next, NEW s \in Slots, job[s].pc \in Working, job'[s].pc \in Working,
         ~ (job[s].pc = "exToClips" /\ job'[s].pc = "cgRegister")
  PROVE  state'[job[s].run] \in {state[job[s].run], "ERROR", "CANCELLED"}
<1>. DEFINE r == job[s].run
<1>1. r \in Runs
  BY PCSets DEF IInv, Placed, Working
<1>2. state[r] \notin Gates
  BY PCSets DEF IInv, JobState, Working, Gates
<1>3. ~ LeavesPhase(r)
  <2>1. SUFFICES ASSUME NEW t \in Slots, job[t].run = r,
                        \/ job[t].pc = "exToReview" /\ job'[t].pc = "free"
                        \/ job[t].pc = "exToClips" /\ job'[t].pc = "cgRegister"
                        \/ job[t].pc = "cgAdvance" /\ job'[t].pc = "cgExit"
                 PROVE  FALSE
    BY DEF LeavesPhase
  <2>2. job[t].pc \in Working
    BY <2>1, PCSets DEF Working
  <2>3. t = s
    BY <2>1, <2>2 DEF IInv, Exclusive
  <2>. QED
    BY <2>1, <2>3, PCSets DEF Working
<1>. QED
  BY <1>1, <1>2, <1>3, StateMoves DEF StateMove, PassesGate, Ended

LEMMA JobStateStep == ASSUME IInv, Next PROVE JobState'
<1>1. ASSUME NEW s \in Slots, job'[s].pc \in ExecPC
      PROVE  state'[job'[s].run] \in {"EXECUTING", "ERROR", "CANCELLED"}
  <2>1. CASE Begins(s)
    BY <1>1, <2>1, PCSets DEF Begins
  <2>2. CASE job'[s].pc \in ExecPC /\ job[s].pc \in ExecPC /\ job'[s].run = job[s].run
    <3>1. state'[job[s].run] \in {state[job[s].run], "ERROR", "CANCELLED"}
      BY <2>2, PhasePinned, PCSets DEF Working
    <3>. QED
      BY <2>2, <3>1 DEF IInv, JobState
  <2>. QED
    BY <1>1, <2>1, <2>2, JobMoves, PCSets DEF JobMove, Continues, Finishes
<1>2. ASSUME NEW s \in Slots, job'[s].pc \in ClipPC \ {"cgExit"}
      PROVE  state'[job'[s].run] \in {"GENERATING_CLIPS", "ERROR", "CANCELLED"}
  <2>1. CASE Begins(s)
    BY <1>2, <2>1, PCSets DEF Begins
  <2>2. CASE /\ job[s].pc \in ClipPC \ {"cgExit"} /\ job'[s].run = job[s].run
    <3>1. state'[job[s].run] \in {state[job[s].run], "ERROR", "CANCELLED"}
      BY <1>2, <2>2, PhasePinned, PCSets DEF Working
    <3>. QED
      BY <2>2, <3>1 DEF IInv, JobState
  <2>3. CASE /\ job[s].pc = "exToClips" /\ job'[s].pc = "cgRegister"
             /\ job'[s].run = job[s].run /\ state'[job[s].run] # "EXECUTING"
    <3>. DEFINE r == job[s].run
    <3>1. r \in Runs /\ state[r] \in {"EXECUTING", "ERROR", "CANCELLED"}
      BY <2>3, PCSets DEF IInv, Placed, JobState
    <3>2. CASE LeavesPhase(r)
      <4>1. PICK t \in Slots :
              /\ job[t].run = r
              /\ \/ job[t].pc = "exToReview" /\ job'[t].pc = "free"
                 \/ job[t].pc = "exToClips" /\ state'[r] = "GENERATING_CLIPS"
                 \/ job[t].pc = "cgAdvance" /\ job'[t].pc = "cgExit"
        BY <3>2 DEF LeavesPhase
      <4>2. job[t].pc \in Working /\ job[s].pc \in Working
        BY <2>3, <4>1, PCSets DEF Working
      <4>3. t = s
        BY <4>1, <4>2 DEF IInv, Exclusive
      <4>. QED
        BY <2>3, <4>1, <4>3
    <3>. QED
      BY <2>3, <3>1, <3>2, StateMoves DEF StateMove, PassesGate, Gates, Ended
  <2>4. CASE job'[s] = job[s]
    BY <1>2, <2>2, <2>4
  <2>. QED
    BY <1>2, <2>1, <2>2, <2>3, <2>4, JobMoves, PCSets DEF JobMove, Continues, Finishes
<1>3. ASSUME NEW s \in Slots, job'[s].pc \in DownloadPC
      PROVE  state'[job'[s].run] # "WAITING_URL"
  <2>1. CASE Begins(s)
    BY <1>3, <2>1, PCSets DEF Begins
  <2>2. CASE job[s].pc \in DownloadPC /\ job'[s].run = job[s].run
    <3>1. job[s].run \in Runs /\ state[job[s].run] # "WAITING_URL"
      BY <2>2, PCSets DEF IInv, Placed, JobState
    <3>. QED
      BY <2>2, <3>1, StateMoves DEF StateMove, PassesGate, LeavesPhase, Ended
  <2>. QED
    BY <1>3, <2>1, <2>2, JobMoves, PCSets DEF JobMove, Continues, Finishes
<1>. QED
  BY <1>1, <1>2, <1>3 DEF JobState

LEMMA ExclusiveStep == ASSUME IInv, Next PROVE Exclusive'
<1>1. ASSUME NEW s \in Slots, job'[s].pc \in Working, ~ Begins(s)
      PROVE  job[s].pc \in Working /\ job'[s].run = job[s].run
  BY <1>1, JobMoves, PCSets DEF JobMove, Continues, Finishes, Working
<1>2. ASSUME NEW s \in Slots, NEW t \in Slots, Begins(s), job'[s].pc \in Working,
             job[t].pc \in Working
      PROVE  job'[s].run # job[t].run
  <2>1. state[job'[s].run] \in Gates
    BY <1>2, PCSets DEF Begins, Gates, Working
  <2>2. state[job[t].run] \notin Gates
    BY <1>2, PCSets DEF IInv, JobState, Working, Gates
  <2>. QED
    BY <2>1, <2>2
<1>3. ASSUME NEW s \in Slots, NEW t \in Slots, s # t,
             job'[s].pc \in Working, job'[t].pc \in Working
      PROVE  job'[s].run # job'[t].run
  <2>1. ~ (Begins(s) /\ Begins(t))
    <3>1. job'[s] = job[s] \/ job'[t] = job[t] \/ job'[s].pc = "free"
      BY <1>3, OnlyOneMoves DEF OneMoves
    <3>. QED
      BY <1>3, <3>1, PCSets DEF Begins, Working
  <2>2. CASE Begins(s)
    BY <1>1, <1>2, <1>3, <2>1, <2>2
  <2>3. CASE Begins(t)
    BY <1>1, <1>2, <1>3, <2>1, <2>3
  <2>4. CASE ~ Begins(s) /\ ~ Begins(t)
    BY <1>1, <1>3, <2>4 DEF IInv, Exclusive
  <2>. QED
    BY <2>2, <2>3, <2>4
<1>. QED
  BY <1>3 DEF Exclusive

LEMMA CallStateStep == ASSUME IInv, Next PROVE CallState'
<1>. DEFINE Past == {"launch", "clearPath", "markRedownload", "storeMode", "toExecuting"}
            Holds(c) == LET r == call'[c].run IN
              /\ call'[c].pc = "signal" => state'[r] \in Ended
              /\ call'[c].pc \in Past => state'[r] # "WAITING_URL"
              /\ call'[c].pc = "storeMode" => call'[c].mode \in Modes
<1>1. ASSUME NEW r \in Runs
      PROVE  /\ state[r] \in Ended => state'[r] \in Ended
             /\ state[r] # "WAITING_URL" => state'[r] # "WAITING_URL"
             /\ state'[r] = "WAITING_MODE" /\ state[r] # "WAITING_URL"
                  => state[r] = "WAITING_MODE"
  BY StateMoves DEF StateMove, PassesGate, LeavesPhase, Ended, Gates
<1>2. ASSUME NEW c \in Clients PROVE Holds(c)
  <2>1. CASE call'[c].pc = "idle"
    BY <2>1
  <2>2. CASE Arrives(c)
    BY <2>2 DEF Arrives
  <2>3. CASE call'[c] = call[c] /\ call[c].pc # "idle"
    <3>1. call[c].run \in Runs
      BY <2>3 DEF IInv, Placed
    <3>. QED
      BY <2>3, <3>1, <1>1 DEF IInv, CallState
  <2>4. CASE Proceeds(c)
    <3>1. call[c].run \in Runs /\ call'[c].run = call[c].run
      BY <2>4 DEF Proceeds, IInv, Placed
    <3>2. call'[c].pc = "signal" => state'[call[c].run] \in Ended
      BY <2>4 DEF Proceeds, Ended
    <3>3. call'[c].pc \in Past => state'[call[c].run] # "WAITING_URL"
      BY <2>4, <3>1, <1>1 DEF Proceeds, IInv, CallState
    <3>4. call'[c].pc # "storeMode"
      BY <2>4 DEF Proceeds
    <3>. QED
      BY <3>1, <3>2, <3>3, <3>4
  <2>. QED
    BY <2>1, <2>2, <2>3, <2>4, CallMoves DEF CallMove
<1>. QED
  BY <1>2 DEF CallState

LEMMA CancelMapStep == ASSUME IInv, Next PROVE CancelMapLive'
<1>1. ASSUME NEW r \in Runs, cancelMap'[r] # NoSlot
      PROVE  /\ job'[cancelMap'[r]].run = r
             /\ job'[cancelMap'[r]].pc \in DownloadPC \cup (ClipPC \ {"cgRegister"})
  <2>1. CASE cancelMap'[r] = cancelMap[r]
    <3>. DEFINE s == cancelMap[r]
    <3>1. /\ s \in Slots /\ job[s].run = r
          /\ job[s].pc \in DownloadPC \cup (ClipPC \ {"cgRegister"})
      BY <1>1, <2>1 DEF IInv, TypeOK, CancelMapLive
    <3>2. ~ Begins(s) /\ ~ Finishes(s)
      BY <1>1, <2>1, <3>1, PCSets DEF Begins, Finishes
    <3>. HIDE DEF s
    <3>3. /\ job'[s].run = r
          /\ job'[s].pc \in DownloadPC \cup (ClipPC \ {"cgRegister"})
      BY <3>1, <3>2, JobMoves, PCSets DEF JobMove, Continues
    <3>. QED
      BY <2>1, <3>3 DEF s
  <2>2. CASE \E s \in Slots : /\ cancelMap'[r] = s
                              /\ job'[s].run = r /\ job'[s].pc \in {"dlFetch", "cgLoad"}
    BY <2>2, PCSets
  <2>. QED
    BY <1>1, <2>1, <2>2, EntryMoves DEF EntryMove
<1>. QED
  BY <1>1 DEF CancelMapLive

LEMMA CancelledStep == ASSUME IInv, Next PROVE CancelledOK'
<1>1. ASSUME NEW s \in Slots, cancelled'[s]
      PROVE  job'[s].pc \in Cancellable /\ state'[job'[s].run] \in Ended
  <2>1. CASE cancelled[s]
    <3>1. /\ job[s].pc \in Cancellable /\ state[job[s].run] \in Ended
          /\ job[s].run \in Runs
      BY <2>1, PCSets DEF IInv, CancelledOK, Placed, Cancellable
    <3>2. state'[job[s].run] \in Ended
      BY <3>1, StateMoves DEF StateMove, PassesGate, LeavesPhase, Ended, Gates
    <3>3. ~ Begins(s) /\ ~ Finishes(s)
      BY <1>1, <3>1, PCSets DEF Begins, Finishes, Cancellable
    <3>4. job'[s].run = job[s].run /\ job'[s].pc \in Cancellable
      BY <3>1, <3>3, JobMoves, PCSets DEF JobMove, Continues, Cancellable
    <3>. QED
      BY <3>2, <3>4
  <2>2. CASE /\ job' = job /\ state' = state
             /\ \E c \in Clients : call[c].pc = "signal" /\ cancelMap[call[c].run] = s
    <3>1. PICK c \in Clients : call[c].pc = "signal" /\ cancelMap[call[c].run] = s
      BY <2>2
    <3>2. call[c].run \in Runs /\ state[call[c].run] \in Ended
      BY <3>1 DEF IInv, Placed, CallState
    <3>3. s # NoSlot
      BY ConstantsOK DEF ConstantsOK
    <3>4. job[s].run = call[c].run /\ job[s].pc \in Cancellable
      BY <3>1, <3>2, <3>3 DEF IInv, CancelMapLive, Cancellable
    <3>. QED
      BY <2>2, <3>2, <3>4
  <2>. QED
    BY <1>1, <2>1, <2>2, CancelMoves DEF CancelMove
<1>. QED
  BY <1>1 DEF CancelledOK

LEMMA ModeStep == ASSUME IInv, Next PROVE ModeOK'
<1>1. ASSUME NEW r \in Runs, state'[r] = "WAITING_REVIEW_HIGHLIGHTS"
      PROVE  mode'[r] # "longform"
  <2>1. /\ state[r] # "WAITING_MODE"
        /\ \/ state[r] = "WAITING_REVIEW_HIGHLIGHTS"
           \/ \E s \in Slots : job[s].run = r /\ job[s].pc = "exToReview"
    BY <1>1, StateMoves DEF StateMove, PassesGate, LeavesPhase, Ended
  <2>. QED
    BY <2>1, ModeMoves DEF ModeMove, IInv, ModeOK
<1>2. ASSUME NEW s \in Slots, job[s].pc \in ExecPC PROVE mode'[job[s].run] = mode[job[s].run]
  <2>1. job[s].run \in Runs /\ state[job[s].run] # "WAITING_MODE"
    BY <1>2, PCSets DEF IInv, Placed, JobState
  <2>. QED
    BY <2>1, ModeMoves DEF ModeMove
<1>3. ASSUME NEW s \in Slots, job'[s].pc \in ExecPC
      PROVE  /\ job'[s].pc = "exToClips" => mode'[job'[s].run] = "longform"
             /\ job'[s].pc \in {"exAnalyze", "exToReview"}
                  => mode'[job'[s].run] # "longform"
  <2>1. CASE Begins(s)
    BY <1>3, <2>1, PCSets DEF Begins
  <2>2. CASE job[s].pc \in ExecPC /\ job'[s].run = job[s].run
             /\ (job'[s].pc = job[s].pc \/ Continues(s))
    <3>1. job[s].run \in Runs
      BY <2>2, PCSets DEF IInv, Placed
    <3>. QED
      BY <1>2, <2>2, <3>1, PCSets DEF Continues, IInv, ModeOK
  <2>. QED
    BY <1>3, <2>1, <2>2, JobMoves, PCSets DEF JobMove, Continues, Finishes
<1>. QED
  BY <1>1, <1>3, PCSets DEF ModeOK

LEMMA IInvInit == Init => IInv
<1>. SUFFICES ASSUME Init PROVE IInv
  OBVIOUS
<1>1. TypeOK
  BY InitType
<1>2. Placed /\ CallState
  BY DEF Init, IdleCall, FreeJob, Placed, CallState
<1>3. /\ \A s \in Slots : job[s].pc = "free" /\ ~ cancelled[s]
      /\ \A r \in Runs : cancelMap[r] = NoSlot /\ state[r] = "WAITING_URL"
  BY DEF Init, FreeJob
<1>4. JobState /\ Exclusive /\ CancelledOK /\ CancelMapLive /\ ModeOK
  BY <1>3, PCSets DEF JobState, Exclusive, Working, CancelledOK, CancelMapLive, ModeOK
<1>. QED
  BY <1>1, <1>2, <1>4 DEF IInv

LEMMA IInvStep == IInv /\ [Next]_vars => IInv'
<1>1. ASSUME IInv, Next PROVE IInv'
  BY <1>1, TypeStep, PlacedStep, JobStateStep, CallStateStep, ExclusiveStep,
     CancelledStep, CancelMapStep, ModeStep DEF IInv
<1>2. ASSUME IInv, UNCHANGED vars PROVE IInv'
  <2>1. TypeOK'
    BY <1>2, TypeStep DEF IInv
  <2>. QED
    BY <1>2, <2>1
    DEF vars, row, memory, IInv, Placed, JobState, CallState, Exclusive, CancelledOK,
       CancelMapLive, ModeOK
<1>. QED
  BY <1>1, <1>2

(* The inductive invariant holds in every reachable state. *)
THEOREM InvariantHolds == Spec => []IInv
BY IInvInit, IInvStep, PTL DEF Spec

-----------------------------------------------------------------------------
(* What the invariant gives. *)

(* No goroutine works on a run that has left its phase. *)
THEOREM PhaseFollowed == Spec => []PhaseMatchesState
<1>1. IInv => PhaseMatchesState
  BY DEF IInv, JobState, PhaseMatchesState, ExecutionAt, ClipGenAt
<1>. QED
  BY <1>1, InvariantHolds, PTL

(* A run is worked on by at most one goroutine that executes it or         *)
(* generates its clips, whatever number of clients submit its gates.       *)
THEOREM OneWorker == Spec => []OneWorkerPerRun
<1>1. ASSUME IInv, NEW r \in Runs PROVE Cardinality(ExecutionAt(r) \cup ClipGenAt(r)) <= 1
  <2>. DEFINE W == ExecutionAt(r) \cup ClipGenAt(r)
  <2>1. \A s, t \in W : s = t
    BY <1>1 DEF IInv, Exclusive, Working, ExecutionAt, ClipGenAt
  <2>2. CASE W = {}
    BY <2>2, FS_EmptySet
  <2>3. CASE W # {}
    <3>1. PICK s : W = {s}
      BY <2>1, <2>3
    <3>2. Cardinality({s}) = 1
      BY FS_Singleton
    <3>. QED
      BY <3>1, <3>2
  <2>. QED
    BY <2>2, <2>3
<1>2. IInv => OneWorkerPerRun
  BY <1>1 DEF OneWorkerPerRun
<1>. QED
  BY <1>2, InvariantHolds, PTL

(* A context is cancelled only after its run was ended in the database. *)
THEOREM CancellationOrdered == Spec => []CancelFollowsDatabase
<1>1. IInv => CancelFollowsDatabase
  BY PCSets DEF IInv, CancelledOK, Cancellable, Ended, CancelFollowsDatabase
<1>. QED
  BY <1>1, InvariantHolds, PTL

(* cancelMap refers to live goroutines of the right run only. *)
THEOREM EntriesLive == Spec => []CancelMapLive
<1>1. IInv => CancelMapLive
  BY DEF IInv
<1>. QED
  BY <1>1, InvariantHolds, PTL

(* Execution and clip generation take the branch of one stored mode.       *)
THEOREM ModeFollowed == Spec => []ExecutionFollowsMode
<1>1. IInv => ExecutionFollowsMode
  BY DEF IInv, ModeOK, ExecutionFollowsMode, JobAt
<1>. QED
  BY <1>1, InvariantHolds, PTL

-----------------------------------------------------------------------------
(* The service implements the lifecycle of RunLifecycle: a statement that  *)
(* writes the state column is a step of it, everything else a stutter.     *)

LEMMA SwapIsEdge ==
  ASSUME TypeOK, NEW r \in Runs, NEW from, NEW to, AdvanceState(r, from, to),
         <<from, to>> \in Lifecycle!UserEdge \cup Lifecycle!PhaseEdge
  PROVE  Lifecycle!Next \/ UNCHANGED state
BY DEF AdvanceState, Lifecycle!Next, Lifecycle!PassGate, Lifecycle!LeavePhase,
   Lifecycle!Move

LEMMA FinishIsFail ==
  ASSUME NEW r \in Runs, state[r] # "WAITING_URL", Finish(r)
  PROVE  Lifecycle!Next
BY DEF Finish, Lifecycle!Next, Lifecycle!Fail, Lifecycle!Move

LEMMA Edges ==
  /\ \A pc \in DOMAIN GateEdge :
       <<GateEdge[pc][1], GateEdge[pc][2]>> \in Lifecycle!UserEdge
  /\ <<"WAITING_URL", "WAITING_MODE">> \in Lifecycle!UserEdge
  /\ <<"WAITING_MODE", "EXECUTING">> \in Lifecycle!UserEdge
  /\ <<"WAITING_REVIEW_HIGHLIGHTS", "GENERATING_CLIPS">> \in Lifecycle!UserEdge
  /\ <<"EXECUTING", "WAITING_REVIEW_HIGHLIGHTS">> \in Lifecycle!PhaseEdge
  /\ <<"EXECUTING", "GENERATING_CLIPS">> \in Lifecycle!PhaseEdge
  /\ <<"GENERATING_CLIPS", "WAITING_THUMBNAIL_CONFIG">> \in Lifecycle!PhaseEdge
BY DEF GateEdge, Lifecycle!UserEdge, Lifecycle!PhaseEdge

LEMMA LifecycleStep == ASSUME IInv, [Next]_vars PROVE [Lifecycle!Next]_state
<1>. DEFINE Goal == Lifecycle!Next \/ UNCHANGED state
<1>. TypeOK
  BY DEF IInv
<1>1. ASSUME NEW c \in Clients, PassGate(c) PROVE Goal
  <2>1. call[c].run \in Runs
    BY <1>1, GateEdgeFacts DEF PassGate, IInv, Placed
  <2>. QED
    BY <1>1, <2>1, SwapIsEdge, Edges DEF PassGate
<1>2. ASSUME NEW c \in Clients, StartFresh(c) \/ StartReuse(c) PROVE Goal
  <2>1. call[c].run \in Runs /\ StartDownloadAndAdvance(call[c].run)
    BY <1>2 DEF StartFresh, StartReuse, At, IInv, Placed
  <2>. QED
    BY <2>1, Edges DEF StartDownloadAndAdvance, Lifecycle!Next, Lifecycle!PassGate,
       Lifecycle!Move
<1>3. ASSUME NEW c \in Clients, ToExecuting(c) \/ ToClips(c) PROVE Goal
  <2>1. call[c].run \in Runs
    BY <1>3 DEF ToExecuting, ToClips, At, IInv, Placed
  <2>. QED
    BY <1>3, <2>1, SwapIsEdge, Edges DEF ToExecuting, ToClips, AdvanceAndStart
<1>4. ASSUME NEW c \in Clients, CancelRun(c) PROVE Goal
  <2>1. call[c].run \in Runs
    BY <1>4 DEF CancelRun, At, IInv, Placed
  <2>. QED
    BY <1>4, <2>1
    DEF CancelRun, Terminal, Lifecycle!Next, Lifecycle!CancelRun, Lifecycle!Terminal,
       Lifecycle!Move
<1>5. ASSUME NEW s \in Slots, ReportFailure(s) \/ FailExecution(s) PROVE Goal
  <2>1. job[s].run \in Runs /\ state[job[s].run] # "WAITING_URL"
    BY <1>5, PCSets
    DEF ReportFailure, FailExecution, JobAt, DownloadPC, ClipPC, IInv, Placed, JobState
  <2>. QED
    BY <1>5, <2>1, FinishIsFail DEF ReportFailure, FinishUnlessCancelled, FailExecution
<1>6. ASSUME NEW s \in Slots, ToReview(s) \/ SkipToClips(s) \/ ClipGenDone(s) PROVE Goal
  <2>1. job[s].run \in Runs
    BY <1>6 DEF ToReview, SkipToClips, ClipGenDone, JobAt, IInv, Placed
  <2>. QED
    BY <1>6, <2>1, SwapIsEdge, Edges DEF ToReview, SkipToClips, ClipGenDone
<1>7. ASSUME NEW c \in Clients, NEW r \in Runs,
             Advance(c, r) \/ Redownload(c, r) \/ Cancel(c, r)
      PROVE  Goal
  BY <1>7 DEF Advance, Redownload, Cancel, row
<1>8. ASSUME NEW c \in Clients,
             \/ FindVideo(c) \/ Launch(c) \/ SaveReuse(c) \/ ClearReuse(c)
             \/ StoreModeConfig(c) \/ ClearPath(c) \/ MarkRedownload(c)
             \/ Signal(c) \/ RequestAborted(c)
      PROVE  Goal
  BY <1>8 DEF FindVideo, Launch, SaveReuse, ClearReuse, StoreModeConfig, ClearPath,
     MarkRedownload, Signal, RequestAborted, row
<1>9. ASSUME NEW s \in Slots,
             \/ Fetch(s) \/ SaveDownload(s) \/ ClearPhase(s) \/ Exit(s)
             \/ LoadRun(s) \/ Analyze(s) \/ StoreEntry(s) \/ LoadForClips(s)
             \/ Generate(s)
      PROVE  Goal
  BY <1>9 DEF Fetch, SaveDownload, ClearPhase, Exit, LoadRun, Analyze, StoreEntry,
     LoadForClips, Generate, row
<1>10. Restart => Goal
  BY DEF Restart, row
<1>11. UNCHANGED vars => Goal
  BY DEF vars, row
<1>. QED
  BY <1>1, <1>2, <1>3, <1>4, <1>5, <1>6, <1>7, <1>8, <1>9, <1>10, <1>11
  DEF Next, Request, Handle, Work

(* Handlers, goroutines, aborted requests and restarts together implement  *)
(* the lifecycle: gates in one direction, ended runs that stay ended.      *)
THEOREM LifecycleImplemented == Spec => ImplementsLifecycleSafety
<1>1. Init => Lifecycle!Init
  BY DEF Init, Lifecycle!Init
<1>2. IInv /\ [Next]_vars => [Lifecycle!Next]_state
  BY LifecycleStep
<1>. QED
  BY <1>1, <1>2, InvariantHolds, PTL DEF Spec, ImplementsLifecycleSafety, Lifecycle!Safety

-----------------------------------------------------------------------------
(* The hub. *)

(* The channel of a listener has room for the whole history.               *)
LEMMA HistoryFits ==
  ASSUME HubTypeOK PROVE Fitting(history) = history
<1>1. /\ history \in Seq(Events) /\ Len(history) <= MaxHistory /\ Len(history) \in Nat
      /\ MaxHistory \in Nat /\ ChanCap \in Nat /\ MaxHistory <= ChanCap
  BY HubConstants DEF HubTypeOK, HubConstants
<1>2. SubSeq(history, 1, Len(history)) = history
  BY <1>1
<1>3. Len(history) < ChanCap \/ Len(history) = ChanCap
  BY <1>1
<1>. QED
  BY <1>2, <1>3 DEF Fitting

LEMMA StreamRange ==
  ASSUME HubTypeOK, NEW l \in Listeners
  PROVE  Range(Stream(l)) = Range(got[l]) \cup Range(chan[l])
BY RangeConcat DEF HubTypeOK, Stream

-----------------------------------------------------------------------------
(* The inductive invariant: an event that is being sent has a number.      *)

Numbered == \A p \in Publishers : publisher[p].pc = "sending" => publisher[p].sent > 0

Typed == HubTypeOK /\ Numbered

HubInv == Typed /\ NothingBetween

LEMMA PublisherFacts ==
  ASSUME Typed, NEW p \in Publishers
  PROVE  /\ publisher[p] \in PublisherRecord
         /\ publisher[p].sent \in 0 .. MaxEvents /\ publisher[p].sent \in Nat
         /\ publisher[p].sent < MaxEvents
              => /\ NextEvent(p) \in Events
                 /\ publisher[p].sent + 1 \in 0 .. MaxEvents /\ publisher[p].sent + 1 > 0
         /\ publisher[p].left \subseteq Listeners
         /\ publisher[p].pc = "sending"
              => [from |-> p, no |-> publisher[p].sent] \in Events
         /\ publisher[p].left # {} <=> publisher[p].pc = "sending"
<1>1. publisher[p] \in PublisherRecord /\ (publisher[p].pc = "sending" <=> publisher[p].left # {})
  BY DEF Typed, HubTypeOK
<1>2. publisher[p].sent \in 0 .. MaxEvents /\ MaxEvents \in Nat
  BY <1>1, HubConstants DEF PublisherRecord, HubConstants
<1>3. publisher[p].pc = "sending" => publisher[p].sent > 0
  BY DEF Typed, Numbered
<1>. QED
  BY <1>1, <1>2, <1>3 DEF PublisherRecord, Events, NextEvent

LEMMA TypedInit == HubInit => Typed
<1>1. 0 \in 0 .. MaxEvents /\ 0 <= MaxHistory /\ 0 <= ChanCap
  BY HubConstants DEF HubConstants
<1>2. <<>> \in Seq(Events) /\ Len(<<>>) = 0
  OBVIOUS
<1>. QED
  BY <1>1, <1>2 DEF HubInit, Typed, HubTypeOK, Numbered, PublisherRecord

LEMMA RegisterTyped == ASSUME Typed, NEW l \in Listeners, Register(l) PROVE Typed'
<1>1. Fitting(history) = history /\ history \in Seq(Events) /\ Len(history) <= ChanCap
  <2>1. Len(history) \in Nat /\ Len(history) <= MaxHistory /\ MaxHistory <= ChanCap
        /\ MaxHistory \in Nat /\ ChanCap \in Nat
    BY HubConstants DEF Typed, HubTypeOK, HubConstants
  <2>. QED
    BY <2>1, HistoryFits DEF Typed, HubTypeOK
<1>2. Range(history) \subseteq Events
  BY <1>1, RangeIn
<1>3. chan' \in [Listeners -> Seq(Events)] /\ \A m \in Listeners : Len(chan'[m]) <= ChanCap
  BY <1>1 DEF Register, Typed, HubTypeOK
<1>4. dropped' \in [Listeners -> SUBSET Events]
  BY <1>1, <1>2 DEF Register, Typed, HubTypeOK
<1>5. /\ connection' \in [Listeners -> {"new", "open", "closed"}]
      /\ clients' = {m \in Listeners : connection'[m] = "open"}
  BY DEF Register, Typed, HubTypeOK
<1>. QED
  BY <1>3, <1>4, <1>5 DEF Register, Typed, HubTypeOK, Numbered

LEMMA ReceiveTyped == ASSUME Typed, NEW l \in Listeners, Receive(l) PROVE Typed'
<1>1. /\ chan[l] \in Seq(Events) /\ chan[l] # <<>> /\ Len(chan[l]) <= ChanCap
      /\ ChanCap \in Nat
  BY HubConstants DEF Receive, Typed, HubTypeOK, HubConstants
<1>2. /\ Head(chan[l]) \in Events /\ Tail(chan[l]) \in Seq(Events)
      /\ Len(Tail(chan[l])) = Len(chan[l]) - 1
  BY <1>1, RangeHeadTail
<1>3. Len(Tail(chan[l])) <= ChanCap
  BY <1>1, <1>2
<1>4. chan' \in [Listeners -> Seq(Events)] /\ \A m \in Listeners : Len(chan'[m]) <= ChanCap
  BY <1>2, <1>3 DEF Receive, Typed, HubTypeOK
<1>5. got' \in [Listeners -> Seq(Events)]
  BY <1>2 DEF Receive, Typed, HubTypeOK
<1>. QED
  BY <1>4, <1>5 DEF Receive, Typed, HubTypeOK, Numbered

LEMMA LeaveTyped == ASSUME Typed, NEW l \in Listeners, Leave(l) PROVE Typed'
<1>1. history' \in Seq(Events) /\ Len(history') <= MaxHistory
  BY HubConstants DEF Leave, Typed, HubTypeOK, HubConstants
<1>2. /\ connection' \in [Listeners -> {"new", "open", "closed"}]
      /\ clients' = {m \in Listeners : connection'[m] = "open"}
  BY DEF Leave, Typed, HubTypeOK
<1>. QED
  BY <1>1, <1>2 DEF Leave, Typed, HubTypeOK, Numbered

LEMMA PublishTyped == ASSUME Typed, NEW p \in Publishers, Publish(p) PROVE Typed'
<1>1. NextEvent(p) \in Events
  BY PublisherFacts DEF Publish, PublishWith
<1>2. Kept(NextEvent(p)) \in Seq(Events) /\ Len(Kept(NextEvent(p))) <= MaxHistory
  <2>1. history \in Seq(Events) /\ Len(history) \in Nat /\ MaxHistory \in Nat
        /\ Len(history) <= MaxHistory
    BY HubConstants DEF Typed, HubTypeOK, HubConstants
  <2>2. /\ Append(history, NextEvent(p)) \in Seq(Events)
        /\ Len(Append(history, NextEvent(p))) = Len(history) + 1
    BY <1>1, <2>1
  <2>. QED
    BY <2>1, <2>2 DEF Kept
<1>3. publisher' \in [Publishers -> PublisherRecord]
      /\ \A q \in Publishers : /\ publisher'[q].pc = "sending" <=> publisher'[q].left # {}
                               /\ publisher'[q].pc = "sending" => publisher'[q].sent > 0
  <2>. DEFINE new == [pc |-> IF clients = {} THEN "idle" ELSE "sending",
                      sent |-> publisher[p].sent + 1, left |-> clients]
  <2>1. publisher' = [publisher EXCEPT ![p] = new]
    BY DEF Publish, PublishWith
  <2>2. clients \subseteq Listeners
    BY DEF Typed, HubTypeOK
  <2>3. publisher[p].sent + 1 \in 0 .. MaxEvents /\ publisher[p].sent + 1 > 0
    BY PublisherFacts DEF Publish, PublishWith
  <2>4. new \in PublisherRecord /\ (new.pc = "sending" <=> new.left # {}) /\ new.sent > 0
    BY <2>2, <2>3 DEF PublisherRecord
  <2>. HIDE DEF new
  <2>. QED
    BY <2>1, <2>4 DEF Typed, HubTypeOK, Numbered
<1>4. published' \in Seq(Events)
  BY <1>1 DEF Publish, PublishWith, Typed, HubTypeOK
<1>. QED
  BY <1>2, <1>3, <1>4 DEF Publish, PublishWith, Typed, HubTypeOK, Numbered

LEMMA SendTyped ==
  ASSUME Typed, NEW p \in Publishers, NEW l \in Listeners, Send(p, l) PROVE Typed'
<1>. DEFINE event == [from |-> p, no |-> publisher[p].sent]
            left == publisher[p].left \ {l}
<1>1. event \in Events /\ publisher[p] \in PublisherRecord
      /\ publisher[p].pc = "sending" /\ publisher[p].sent > 0
  BY PublisherFacts DEF Send, Typed, Numbered
<1>2. publisher' \in [Publishers -> PublisherRecord]
      /\ \A q \in Publishers : /\ publisher'[q].pc = "sending" <=> publisher'[q].left # {}
                               /\ publisher'[q].pc = "sending" => publisher'[q].sent > 0
  <2>. DEFINE go == [publisher[p] EXCEPT !.left = left,
                                         !.pc = IF left = {} THEN "idle" ELSE @]
              stop == [publisher[p] EXCEPT !.pc = "panicked", !.left = {}]
  <2>1. \/ publisher' = [publisher EXCEPT ![p] = go]
        \/ publisher' = [publisher EXCEPT ![p] = stop]
    BY DEF Send, Typed, HubTypeOK
  <2>2. /\ go \in PublisherRecord /\ (go.pc = "sending" <=> go.left # {}) /\ go.sent > 0
        /\ stop \in PublisherRecord /\ stop.left = {} /\ stop.pc = "panicked"
    BY <1>1 DEF PublisherRecord
  <2>. HIDE DEF go, stop
  <2>. QED
    BY <2>1, <2>2 DEF Typed, HubTypeOK, Numbered
<1>3. /\ chan' \in [Listeners -> Seq(Events)]
      /\ \A m \in Listeners : Len(chan'[m]) <= ChanCap
      /\ dropped' \in [Listeners -> SUBSET Events]
  <2>1. /\ chan[l] \in Seq(Events) /\ Len(chan[l]) \in Nat /\ ChanCap \in Nat
        /\ Append(chan[l], event) \in Seq(Events)
        /\ Len(Append(chan[l], event)) = Len(chan[l]) + 1
    BY <1>1, HubConstants DEF Typed, HubTypeOK, HubConstants
  <2>2. CASE chan' = [chan EXCEPT ![l] = Append(@, event)] /\ Len(chan[l]) < ChanCap
             /\ UNCHANGED dropped
    BY <2>1, <2>2 DEF Typed, HubTypeOK
  <2>3. CASE dropped' = [dropped EXCEPT ![l] = @ \cup {event}] /\ UNCHANGED chan
    BY <1>1, <2>3 DEF Typed, HubTypeOK
  <2>4. CASE UNCHANGED <<chan, dropped>>
    BY <2>4 DEF Typed, HubTypeOK
  <2>. QED
    BY <2>2, <2>3, <2>4 DEF Send
<1>. QED
  BY <1>2, <1>3 DEF Send, Typed, HubTypeOK, Numbered

LEMMA TypedStep == Typed /\ [HubNext]_hubVars => Typed'
<1>1. Typed /\ UNCHANGED hubVars => Typed'
  BY DEF hubVars, Typed, HubTypeOK, Numbered
<1>. QED
  BY <1>1, RegisterTyped, ReceiveTyped, LeaveTyped, PublishTyped, SendTyped
  DEF HubNext, Sending

(* Every variable of the hub keeps its type; the history and the channels  *)
(* keep to their capacities.                                               *)
THEOREM HubTypeCorrect == HubSpec => []HubTypeOK
<1>1. Typed => HubTypeOK
  BY DEF Typed
<1>. QED
  BY <1>1, TypedInit, TypedStep, PTL DEF HubSpec

-----------------------------------------------------------------------------
(* Nothing falls between the replay and the sends. *)

(* Where an event of the history is, from the point of view of a listener. *)
Shown(e, l) == e \in Range(got[l]) \cup Range(chan[l]) \cup dropped[l]

LEMMA NothingBetweenShown ==
  ASSUME Typed
  PROVE  NothingBetween <=>
           \A l \in clients : \A e \in Range(history) : Shown(e, l) \/ Underway(e, l)
BY StreamRange DEF Typed, HubTypeOK, NothingBetween, Shown

(* A listener loses nothing it was shown, and joins with the whole history. *)
LEMMA ShownStays ==
  ASSUME Typed, NEW e, NEW l \in Listeners, Shown(e, l),
         Register(l) => e \in Range(history),
         \/ \E m \in Listeners : Register(m) \/ Receive(m) \/ Leave(m)
         \/ \E p \in Publishers : Publish(p) \/ \E m \in Listeners : Send(p, m)
  PROVE  Shown(e, l)'
<1>1. ASSUME NEW m \in Listeners, Register(m) PROVE Shown(e, l)'
  BY <1>1, HistoryFits DEF Register, Typed, HubTypeOK, Shown
<1>2. ASSUME NEW m \in Listeners, Receive(m) PROVE Shown(e, l)'
  <2>1. CASE l = m
    <3>1. chan[l] \in Seq(Events) /\ chan[l] # <<>> /\ got[l] \in Seq(Events)
      BY <1>2, <2>1 DEF Receive, Typed, HubTypeOK
    <3>2. got'[l] = Append(got[l], Head(chan[l])) /\ chan'[l] = Tail(chan[l])
      BY <1>2, <2>1 DEF Receive, Typed, HubTypeOK
    <3>3. /\ Range(chan[l]) = {Head(chan[l])} \cup Range(chan'[l])
          /\ Range(got'[l]) = Range(got[l]) \cup {Head(chan[l])}
      BY <3>1, <3>2, RangeHeadTail, RangeAppend
    <3>. QED
      BY <1>2, <3>3 DEF Receive, Shown
  <2>2. CASE l # m
    BY <1>2, <2>2 DEF Receive, Typed, HubTypeOK, Shown
  <2>. QED
    BY <2>1, <2>2
<1>3. ASSUME NEW m \in Listeners, Leave(m) PROVE Shown(e, l)'
  BY <1>3 DEF Leave, Shown
<1>4. ASSUME NEW p \in Publishers, Publish(p) PROVE Shown(e, l)'
  BY <1>4 DEF Publish, PublishWith, Shown
<1>5. ASSUME NEW p \in Publishers, NEW m \in Listeners, Send(p, m) PROVE Shown(e, l)'
  <2>. DEFINE event == [from |-> p, no |-> publisher[p].sent]
  <2>1. event \in Events /\ chan[m] \in Seq(Events)
    BY <1>5, PublisherFacts DEF Send, Typed, HubTypeOK
  <2>2. Range(Append(chan[m], event)) = Range(chan[m]) \cup {event}
    BY <2>1, RangeAppend
  <2>3. /\ got' = got
        /\ \/ chan' = [chan EXCEPT ![m] = Append(@, event)] /\ dropped' = dropped
           \/ dropped' = [dropped EXCEPT ![m] = @ \cup {event}] /\ chan' = chan
           \/ chan' = chan /\ dropped' = dropped
    BY <1>5 DEF Send
  <2>. HIDE DEF event
  <2>4. Range(chan[l]) \subseteq Range(chan'[l]) /\ dropped[l] \subseteq dropped'[l]
    BY <2>2, <2>3 DEF Typed, HubTypeOK
  <2>. QED
    BY <2>3, <2>4 DEF Shown
<1>. QED
  BY <1>1, <1>2, <1>3, <1>4, <1>5

LEMMA NothingBetweenStep == ASSUME HubInv, HubNext PROVE NothingBetween'
<1>. DEFINE Held(e, l) == Shown(e, l) \/ Underway(e, l)
<1>1. Typed /\ Typed' /\ \A l \in clients : \A e \in Range(history) : Held(e, l)
  BY TypedStep, NothingBetweenShown DEF HubInv
<1>2. SUFFICES ASSUME NEW l \in clients', NEW e \in Range(history') PROVE Held(e, l)'
  <2>1. \A l \in Listeners :
          Range(got'[l] \o chan'[l]) = Range(got'[l]) \cup Range(chan'[l])
    BY <1>1, RangeConcat DEF Typed, HubTypeOK
  <2>. QED
    BY <1>1, <2>1 DEF NothingBetween, Stream, Shown, Typed, HubTypeOK
<1>3. l \in Listeners /\ connection'[l] = "open"
  BY <1>1 DEF Typed, HubTypeOK
<1>4. ASSUME NEW m \in Listeners, Register(m) PROVE Held(e, l)'
  <2>1. CASE l = m
    BY <1>1, <1>4, <2>1, HistoryFits DEF Register, Typed, HubTypeOK, Shown
  <2>2. CASE l # m
    <3>1. Held(e, l) /\ UNCHANGED publisher
      BY <1>1, <1>4, <2>2 DEF Register
    <3>. QED
      BY <1>1, <1>3, <1>4, <3>1, ShownStays DEF Underway, Register
  <2>. QED
    BY <2>1, <2>2
<1>5. ASSUME NEW m \in Listeners, Receive(m) \/ Leave(m) PROVE Held(e, l)'
  <2>1. UNCHANGED publisher
    BY <1>5 DEF Receive, Leave
  <2>2. l \in clients /\ e \in Range(history)
    BY <1>5 DEF Receive, Leave, Range
  <2>. QED
    BY <1>1, <1>3, <1>5, <2>1, <2>2, ShownStays DEF Underway
<1>6. ASSUME NEW p \in Publishers, Publish(p) PROVE Held(e, l)'
  <2>. DEFINE new == NextEvent(p)
  <2>1. /\ new \in Events /\ history \in Seq(Events) /\ l \in clients
        /\ publisher[p].pc = "idle"
        /\ publisher' = [publisher EXCEPT ![p] =
                 [pc |-> "sending", sent |-> publisher[p].sent + 1, left |-> clients]]
    BY <1>1, <1>6, PublisherFacts DEF Publish, PublishWith, Typed, HubTypeOK
  <2>2. e \in Range(history) \/ e = new
    BY <1>6, <2>1, RangeAppend DEF Publish, PublishWith, Kept
  <2>3. CASE e = new
    BY <1>1, <1>6, <2>1, <2>3 DEF NextEvent, Underway, Typed, HubTypeOK
  <2>4. CASE e \in Range(history)
    <3>1. e \in Events
      BY <2>1, <2>4, RangeIn
    <3>2. Shown(e, l) \/ (Underway(e, l) /\ e.from # p)
      BY <1>1, <2>1, <2>4 DEF Underway
    <3>. QED
      BY <1>1, <1>3, <1>6, <2>1, <2>4, <3>1, <3>2, ShownStays
      DEF Underway, Typed, HubTypeOK, Events
  <2>. QED
    BY <2>2, <2>3, <2>4
<1>7. ASSUME NEW p \in Publishers, NEW m \in Listeners, Send(p, m) PROVE Held(e, l)'
  <2>. DEFINE event == [from |-> p, no |-> publisher[p].sent]
  <2>1. /\ l \in clients /\ connection[l] = "open"
        /\ e \in Range(history) /\ history \in Seq(Events)
        /\ publisher[p].pc = "sending"
    BY <1>1, <1>3, <1>7 DEF Send, Typed, HubTypeOK
  <2>2. e \in Events /\ event \in Events
    BY <1>1, <2>1, RangeIn, PublisherFacts
  <2>3. CASE Shown(e, l)
    BY <1>1, <1>3, <1>7, <2>1, <2>3, ShownStays
  <2>4. CASE Underway(e, l) /\ e.from # p
    BY <1>1, <1>7, <2>4, <2>2 DEF Send, Underway, Typed, HubTypeOK, Events
  <2>5. CASE Underway(e, l) /\ e.from = p
    <3>1. e = event /\ l \in publisher[p].left
      BY <1>7, <2>1, <2>5, <2>2 DEF Underway, Send, Events
    <3>2. CASE m = l
      <4>1. \/ chan' = [chan EXCEPT ![l] = Append(@, event)]
            \/ dropped' = [dropped EXCEPT ![l] = @ \cup {event}]
        BY <1>7, <2>1, <3>2 DEF Send
      <4>2. chan[l] \in Seq(Events) /\ Range(Append(chan[l], event)) = Range(chan[l]) \cup {event}
        BY <1>1, <1>3, <2>2, RangeAppend DEF Typed, HubTypeOK
      <4>. QED
        BY <1>1, <1>3, <3>1, <4>1, <4>2 DEF Shown, Typed, HubTypeOK
    <3>3. CASE m # l
      <4>1. \/ publisher'[p].pc = "panicked"
            \/ /\ publisher'[p].left = publisher[p].left \ {m}
               /\ publisher'[p].pc = "sending" /\ publisher'[p].sent = publisher[p].sent
        BY <1>1, <1>7, <2>1, <3>1, <3>3 DEF Send, Typed, HubTypeOK, PublisherRecord
      <4>. QED
        BY <2>5, <3>1, <3>3, <4>1 DEF Underway
    <3>. QED
      BY <3>2, <3>3
  <2>. QED
    BY <1>1, <2>1, <2>3, <2>4, <2>5
<1>. QED
  BY <1>3, <1>4, <1>5, <1>6, <1>7 DEF HubNext, Sending

(* No event of the history falls between the replay and the copy of the    *)
(* listeners, for any number of publishers that register and publish at    *)
(* the same time.                                                          *)
THEOREM HubNothingBetween == HubSpec => []NothingBetween
<1>1. HubInit => HubInv
  BY TypedInit DEF HubInv, HubInit, NothingBetween
<1>2. HubInv /\ [HubNext]_hubVars => HubInv'
  <2>1. HubInv /\ HubNext => HubInv'
    BY TypedStep, NothingBetweenStep DEF HubInv
  <2>2. HubInv /\ UNCHANGED hubVars => HubInv'
    BY TypedStep DEF HubInv, hubVars, NothingBetween, Underway, Stream
  <2>. QED
    BY <2>1, <2>2
<1>3. HubInv => NothingBetween
  BY DEF HubInv
<1>. QED
  BY <1>1, <1>2, <1>3, PTL DEF HubSpec

(* A listener that registers is replayed the whole history: its channel is *)
(* never too small for it.                                                 *)
THEOREM HubReplayComplete == HubSpec => ReplayComplete
<1>. DEFINE Replays ==
       \A l \in Listeners : connection'[l] # connection[l] /\ connection'[l] = "open"
                              => chan'[l] = history
<1>1. ASSUME Typed, HubNext PROVE Replays
  <2>1. ASSUME NEW m \in Listeners, Register(m) PROVE Replays
    BY <1>1, <2>1, HistoryFits DEF Register, Typed, HubTypeOK
  <2>2. ASSUME NEW m \in Listeners, Receive(m) \/ Leave(m) PROVE Replays
    BY <1>1, <2>2 DEF Receive, Leave, Typed, HubTypeOK
  <2>3. ASSUME NEW p \in Publishers, Publish(p) \/ Sending(p) PROVE Replays
    BY <2>3 DEF Publish, PublishWith, Sending, Send
  <2>. QED
    BY <1>1, <2>1, <2>2, <2>3 DEF HubNext
<1>2. Typed /\ [HubNext]_hubVars => [Replays]_hubVars
  BY <1>1
<1>. QED
  BY <1>2, TypedInit, TypedStep, PTL DEF HubSpec, ReplayComplete
-----------------------------------------------------------------------------
(* The hub implements Broadcast.  The invariant relates the numbers of     *)
(* what a listener was shown to those of what is still to be sent to it.   *)

Streams == [l \in Listeners |-> Stream(l)]

PublishedBefore ==
  /\ \A e \in Range(published) : e.no <= publisher[e.from].sent
  /\ Range(history) \subseteq Range(published) /\ InOrder(history)

SendingOld ==
  \A p \in Publishers : publisher[p].pc = "sending" =>
    /\ [from |-> p, no |-> publisher[p].sent] \in Range(published)
    /\ \A l \in publisher[p].left : connection[l] # "new"

NewUntouched == \A l \in Listeners : connection[l] = "new" => got[l] = <<>> /\ chan[l] = <<>>

ShownInOrder ==
  \A l \in Listeners : Range(Streams[l]) \subseteq Range(published) /\ InOrder(Streams[l])

LeftIsAhead ==
  \A p \in Publishers : \A l \in publisher[p].left :
    publisher[p].pc = "sending" =>
      \A e \in Range(Streams[l]) : e.from = p => e.no < publisher[p].sent

FeedInv ==
  /\ Typed
  /\ PublishedBefore /\ SendingOld /\ NewUntouched /\ ShownInOrder /\ LeftIsAhead

LEMMA StreamsTyped == ASSUME Typed PROVE Streams \in [Listeners -> Seq(Events)]
BY DEF Typed, HubTypeOK, Streams, Stream

(* What each operation does to the streams.                                *)
LEMMA RegisterStreams ==
  ASSUME FeedInv, NEW l \in Listeners, Register(l)
  PROVE  l \notin clients /\ Streams' = [Streams EXCEPT ![l] = history]
<1>1. got[l] = <<>> /\ chan \in [Listeners -> Seq(Events)] /\ history \in Seq(Events)
  BY DEF FeedInv, NewUntouched, Register, Typed, HubTypeOK
<1>2. l \notin clients
  BY DEF Register, FeedInv, Typed, HubTypeOK
<1>3. <<>> \o history = history
  BY <1>1
<1>4. Stream(l)' = history
  BY <1>1, <1>3, HistoryFits DEF Register, Stream, FeedInv, Typed
<1>5. \A m \in Listeners : m # l => Stream(m)' = Stream(m)
  BY <1>1 DEF Register, Stream
<1>. QED
  BY <1>2, <1>4, <1>5 DEF Streams

LEMMA ReceiveStreams ==
  ASSUME Typed, NEW l \in Listeners, Receive(l) PROVE Streams' = Streams
<1>1. /\ chan[l] \in Seq(Events) /\ chan[l] # <<>> /\ got[l] \in Seq(Events)
      /\ got'[l] = Append(got[l], Head(chan[l])) /\ chan'[l] = Tail(chan[l])
      /\ \A m \in Listeners : m # l => got'[m] = got[m] /\ chan'[m] = chan[m]
  BY DEF Receive, Typed, HubTypeOK
<1>2. got'[l] \o chan'[l] = got[l] \o chan[l]
  BY <1>1, ConcatShift
<1>3. \A m \in Listeners : got'[m] \o chan'[m] = got[m] \o chan[m]
  BY <1>1, <1>2
<1>. QED
  BY <1>3 DEF Streams, Stream

LEMMA PublishStreams ==
  ASSUME FeedInv, NEW p \in Publishers, Publish(p)
  PROVE  /\ NextEvent(p) \in Events \ Range(published)
         /\ Range(published') = Range(published) \cup {NextEvent(p)}
         /\ Streams' = Streams
<1>1. NextEvent(p) \in Events /\ published \in Seq(Events) /\ publisher[p].sent \in Nat
  BY PublisherFacts DEF Publish, PublishWith, FeedInv, Typed, HubTypeOK
<1>2. NextEvent(p) \notin Range(published)
  <2>1. ~ (publisher[p].sent + 1 <= publisher[p].sent)
    BY <1>1
  <2>. QED
    BY <2>1 DEF FeedInv, PublishedBefore, NextEvent
<1>3. Range(published') = Range(published) \cup {NextEvent(p)}
  BY <1>1, RangeAppend DEF Publish, PublishWith
<1>. QED
  BY <1>1, <1>2, <1>3 DEF Publish, PublishWith, Streams, Stream

LEMMA SendStreams ==
  ASSUME FeedInv, NEW p \in Publishers, NEW l \in Listeners, Send(p, l)
  PROVE  \/ Streams' = Streams
         \/ /\ l \in clients
            /\ Streams' = [Streams EXCEPT ![l] =
                             Append(@, [from |-> p, no |-> publisher[p].sent])]
<1>. DEFINE event == [from |-> p, no |-> publisher[p].sent]
<1>1. got' = got
  BY DEF Send
<1>2. CASE chan' = chan
  BY <1>1, <1>2 DEF Streams, Stream
<1>3. CASE connection[l] # "closed" /\ chan' = [chan EXCEPT ![l] = Append(@, event)]
  <2>1. l \in clients
    BY <1>3 DEF Send, FeedInv, SendingOld, Typed, HubTypeOK
  <2>2. /\ event \in Events /\ got[l] \in Seq(Events) /\ chan[l] \in Seq(Events)
        /\ chan'[l] = Append(chan[l], event)
        /\ \A m \in Listeners : m # l => chan'[m] = chan[m]
    BY <1>3, PublisherFacts DEF Send, FeedInv, Typed, HubTypeOK
  <2>. HIDE DEF event
  <2>3. got[l] \o chan'[l] = Append(got[l] \o chan[l], event)
    <3>. DEFINE g == got[l]
                c == chan[l]
    <3>1. event \in Events /\ g \in Seq(Events) /\ c \in Seq(Events)
      BY <2>2
    <3>. HIDE DEF g, c
    <3>2. g \o Append(c, event) = Append(g \o c, event)
      BY <3>1, ConcatAppend
    <3>. QED
      BY <2>2, <3>2 DEF g, c
  <2>4. Streams' = [Streams EXCEPT ![l] = Append(@, event)]
    BY <1>1, <2>2, <2>3 DEF Streams, Stream
  <2>. QED
    BY <2>1, <2>4 DEF event
<1>. QED
  BY <1>2, <1>3 DEF Send

LEMMA FeedInvInit == HubInit => FeedInv
<1>1. ASSUME HubInit PROVE Streams = [l \in Listeners |-> <<>>]
  <2>1. <<>> \o <<>> = <<>>
    OBVIOUS
  <2>. QED
    BY <1>1, <2>1 DEF HubInit, Streams, Stream
<1>2. DOMAIN <<>> = {}
  OBVIOUS
<1>3. Range(<<>>) = {} /\ InOrder(<<>>)
  BY <1>2 DEF Range, InOrder
<1>. QED
  BY <1>1, <1>3, TypedInit
  DEF HubInit, FeedInv, PublishedBefore, SendingOld, NewUntouched, ShownInOrder, LeftIsAhead

(* A send, and everything that does not publish, leaves the numbers alone. *)
LEMMA SendKeepsNumbers ==
  ASSUME Typed, NEW p \in Publishers, NEW l \in Listeners, Send(p, l)
  PROVE  /\ publisher[p].pc = "sending" /\ l \in publisher[p].left
         /\ l \notin publisher'[p].left
         /\ \A q \in Publishers :
              /\ publisher'[q].sent = publisher[q].sent
              /\ publisher'[q].left \subseteq publisher[q].left
              /\ publisher'[q].pc = "sending" => publisher[q].pc = "sending"
<1>1. publisher \in [Publishers -> PublisherRecord]
  BY DEF Typed, HubTypeOK
<1>2. \A q \in Publishers : q # p => publisher'[q] = publisher[q]
  BY <1>1 DEF Send
<1>3. /\ publisher'[p].sent = publisher[p].sent /\ publisher'[p].left \subseteq publisher[p].left
      /\ l \notin publisher'[p].left
  BY <1>1 DEF Send, PublisherRecord
<1>4. publisher[p].pc = "sending" /\ l \in publisher[p].left
  BY DEF Send
<1>. QED
  BY <1>2, <1>3, <1>4

(* What a publisher adds to the history is ahead of what it holds.         *)
LEMMA PublishedStep ==
  ASSUME FeedInv, HubNext PROVE PublishedBefore' /\ SendingOld' /\ NewUntouched'
<1>1. Typed /\ Typed'
  BY TypedStep DEF FeedInv
<1>2. ASSUME NEW l \in Listeners, Register(l) \/ Receive(l) \/ Leave(l)
      PROVE  PublishedBefore' /\ SendingOld' /\ NewUntouched'
  <2>1. UNCHANGED <<publisher, published>> /\ (history' = history \/ history' = <<>>)
    BY <1>2 DEF Register, Receive, Leave
  <2>2. \A m \in Listeners : connection'[m] = "new" => connection[m] = "new" /\ m # l
    BY <1>1, <1>2 DEF Register, Receive, Leave, Typed, HubTypeOK
  <2>3. \A m \in Listeners : m # l => got'[m] = got[m] /\ chan'[m] = chan[m]
    BY <1>1, <1>2 DEF Register, Receive, Leave, Typed, HubTypeOK
  <2>4. PublishedBefore'
    <3>1. Range(<<>>) = {} /\ InOrder(<<>>)
      <4>1. DOMAIN <<>> = {}
        OBVIOUS
      <4>. QED
        BY <4>1 DEF Range, InOrder
    <3>. QED
      BY <2>1, <3>1 DEF FeedInv, PublishedBefore
  <2>5. SendingOld'
    BY <1>1, <2>1, <2>2, PublisherFacts DEF FeedInv, SendingOld
  <2>6. NewUntouched'
    BY <2>2, <2>3 DEF FeedInv, NewUntouched
  <2>. QED
    BY <2>4, <2>5, <2>6
<1>3. ASSUME NEW p \in Publishers, Publish(p)
      PROVE  PublishedBefore' /\ SendingOld' /\ NewUntouched'
  <2>. DEFINE new == NextEvent(p)
  <2>1. /\ new \in Events /\ Range(published') = Range(published) \cup {new}
        /\ published \in Seq(Events) /\ history \in Seq(Events)
        /\ publisher[p].sent \in Nat
        /\ connection' = connection /\ got' = got /\ chan' = chan /\ history' = Kept(new)
        /\ publisher' = [publisher EXCEPT ![p] =
              [pc |-> IF clients = {} THEN "idle" ELSE "sending",
               sent |-> publisher[p].sent + 1, left |-> clients]]
    BY <1>1, <1>3, PublishStreams, PublisherFacts DEF Publish, PublishWith, Typed, HubTypeOK
  <2>2. publisher'[p].sent = publisher[p].sent + 1 /\ publisher'[p].left = clients
        /\ \A q \in Publishers : q # p => publisher'[q] = publisher[q]
    BY <1>1, <2>1 DEF Typed, HubTypeOK
  <2>3. new.from = p /\ new.no = publisher[p].sent + 1
    BY DEF NextEvent
  <2>. HIDE DEF new
  <2>4. ASSUME NEW e \in Range(published') PROVE e.no <= publisher'[e.from].sent
    <3>1. CASE e = new
      BY <2>1, <2>2, <2>3, <3>1
    <3>2. CASE e \in Range(published)
      <4>1. e \in Events
        BY <2>1, <3>2, RangeIn
      <4>2. e.no \in Nat /\ e.from \in Publishers /\ e.no <= publisher[e.from].sent
        BY <3>2, <4>1 DEF Events, FeedInv, PublishedBefore
      <4>3. e.from = p => e.no <= publisher[p].sent + 1
        BY <2>1, <4>2
      <4>. QED
        BY <2>2, <4>2, <4>3
    <3>. QED
      BY <2>1, <3>1, <3>2
  <2>5. Range(history') \subseteq Range(published') /\ InOrder(history')
    <3>1. Range(history) \subseteq Range(published) /\ InOrder(history)
      BY DEF FeedInv, PublishedBefore
    <3>2. CASE history' = history
      BY <2>1, <3>1, <3>2
    <3>3. CASE history' = Append(history, new)
      <4>1. ASSUME NEW e \in Range(history), e.from = new.from PROVE e.no < new.no
        <5>1. e.no <= publisher[p].sent /\ e \in Events
          BY <2>1, <2>3, <3>1, <4>1, RangeIn DEF FeedInv, PublishedBefore
        <5>. QED
          BY <2>1, <2>3, <5>1 DEF Events
      <4>2. InOrder(Append(history, new)) /\ Range(Append(history, new)) = Range(history) \cup {new}
        BY <2>1, <3>1, <4>1, InOrderAppend, RangeAppend
      <4>. QED
        BY <2>1, <3>1, <3>3, <4>2
    <3>. QED
      BY <2>1, <3>2, <3>3 DEF Kept
  <2>6. SendingOld'
    <3>1. \A l \in clients : connection[l] # "new"
      BY <1>1 DEF Typed, HubTypeOK
    <3>2. [from |-> p, no |-> publisher[p].sent + 1] \in Range(published')
      BY <2>1 DEF new, NextEvent
    <3>. QED
      BY <2>1, <2>2, <3>1, <3>2 DEF FeedInv, SendingOld
  <2>7. NewUntouched'
    BY <2>1 DEF FeedInv, NewUntouched
  <2>. QED
    BY <2>4, <2>5, <2>6, <2>7 DEF PublishedBefore
<1>4. ASSUME NEW p \in Publishers, NEW l \in Listeners, Send(p, l)
      PROVE  PublishedBefore' /\ SendingOld' /\ NewUntouched'
  <2>1. UNCHANGED <<history, published, connection, got>>
    BY <1>4 DEF Send
  <2>2. \A e \in Range(published) : e.from \in Publishers
    <3>1. Range(published) \subseteq Events
      BY <1>1, RangeIn DEF Typed, HubTypeOK
    <3>. QED
      BY <3>1 DEF Events
  <2>3. PublishedBefore'
    BY <1>1, <1>4, <2>1, <2>2, SendKeepsNumbers DEF FeedInv, PublishedBefore
  <2>4. SendingOld'
    BY <1>1, <1>4, <2>1, SendKeepsNumbers DEF FeedInv, SendingOld
  <2>5. connection[l] # "new"
    BY <1>1, <1>4, SendKeepsNumbers DEF FeedInv, SendingOld
  <2>6. \A m \in Listeners : m # l => chan'[m] = chan[m]
    BY <1>1, <1>4 DEF Send, Typed, HubTypeOK
  <2>7. NewUntouched'
    BY <2>1, <2>5, <2>6 DEF FeedInv, NewUntouched
  <2>. QED
    BY <2>3, <2>4, <2>7
<1>. QED
  BY <1>2, <1>3, <1>4 DEF HubNext, Sending

(* Each operation keeps the streams in order: it leaves them alone, or     *)
(* begins one with a replay, or appends an event that is ahead of it.      *)
LEMMA StreamsStep == ASSUME FeedInv, HubNext PROVE ShownInOrder' /\ LeftIsAhead'
<1>1. /\ Typed /\ Typed' /\ Streams \in [Listeners -> Seq(Events)]
      /\ publisher \in [Publishers -> PublisherRecord]
  BY TypedStep, StreamsTyped DEF FeedInv, Typed, HubTypeOK
<1>2. ASSUME NEW l \in Listeners, Register(l) PROVE ShownInOrder' /\ LeftIsAhead'
  <2>1. /\ UNCHANGED <<publisher, published>> /\ connection[l] = "new"
        /\ Streams' = [Streams EXCEPT ![l] = history]
    BY <1>2, RegisterStreams DEF Register
  <2>2. InOrder(history) /\ Range(history) \subseteq Range(published)
    BY DEF FeedInv, PublishedBefore
  <2>3. \A m \in Listeners : Streams'[m] = IF m = l THEN history ELSE Streams[m]
    BY <1>1, <2>1
  <2>4. ShownInOrder'
    BY <2>1, <2>2, <2>3 DEF FeedInv, ShownInOrder
  <2>5. \A p \in Publishers : publisher[p].pc = "sending" => l \notin publisher[p].left
    BY <2>1 DEF FeedInv, SendingOld
  <2>6. \A p \in Publishers : publisher[p].left \subseteq Listeners
    BY <1>1, PublisherFacts
  <2>7. LeftIsAhead'
    BY <2>1, <2>3, <2>5, <2>6 DEF FeedInv, LeftIsAhead
  <2>. QED
    BY <2>4, <2>7
<1>3. ASSUME NEW l \in Listeners, Receive(l) \/ Leave(l) PROVE ShownInOrder' /\ LeftIsAhead'
  <2>1. UNCHANGED <<publisher, published>>
    BY <1>3 DEF Receive, Leave
  <2>2. Leave(l) => Streams' = Streams
    BY DEF Leave, Streams, Stream
  <2>3. Streams' = Streams
    BY <1>1, <1>3, <2>2, ReceiveStreams
  <2>. QED
    BY <2>1, <2>3 DEF FeedInv, ShownInOrder, LeftIsAhead
<1>4. ASSUME NEW p \in Publishers, Publish(p) PROVE ShownInOrder' /\ LeftIsAhead'
  <2>1. Streams' = Streams /\ Range(published) \subseteq Range(published')
    BY <1>4, PublishStreams
  <2>2. /\ publisher'[p].sent = publisher[p].sent + 1 /\ publisher'[p].left \subseteq Listeners
        /\ publisher[p].sent \in Nat
        /\ \A q \in Publishers : q # p => publisher'[q] = publisher[q]
    BY <1>1, <1>4, PublisherFacts DEF Publish, PublishWith, Typed, HubTypeOK
  <2>3. ShownInOrder'
    BY <2>1 DEF FeedInv, ShownInOrder
  <2>4. ASSUME NEW q \in Publishers, NEW l \in publisher'[q].left, publisher'[q].pc = "sending",
               NEW e \in Range(Streams[l]), e.from = q
        PROVE  e.no < publisher'[q].sent
    <3>1. CASE q # p
      BY <2>2, <2>4, <3>1 DEF FeedInv, LeftIsAhead
    <3>2. CASE q = p
      <4>1. l \in Listeners /\ e \in Range(published) /\ e \in Events
        BY <1>1, <2>2, <2>4, <3>2, RangeIn DEF FeedInv, ShownInOrder, Typed, HubTypeOK
      <4>2. e.no <= publisher[p].sent /\ e.no \in Nat
        BY <2>4, <3>2, <4>1 DEF FeedInv, PublishedBefore, Events
      <4>. QED
        BY <2>2, <3>2, <4>2
    <3>. QED
      BY <3>1, <3>2
  <2>. QED
    BY <2>1, <2>3, <2>4 DEF LeftIsAhead
<1>5. ASSUME NEW p \in Publishers, NEW l \in Listeners, Send(p, l)
      PROVE  ShownInOrder' /\ LeftIsAhead'
  <2>. DEFINE event == [from |-> p, no |-> publisher[p].sent]
  <2>1. /\ UNCHANGED published /\ publisher[p].pc = "sending" /\ l \in publisher[p].left
        /\ event \in Events /\ event \in Range(published)
    BY <1>1, <1>5, PublisherFacts DEF Send, FeedInv, SendingOld
  <2>2. CASE Streams' = Streams
    BY <1>1, <1>5, <2>1, <2>2, SendKeepsNumbers DEF FeedInv, ShownInOrder, LeftIsAhead
  <2>3. CASE Streams' = [Streams EXCEPT ![l] = Append(@, event)]
    <3>. DEFINE old == Streams[l]
    <3>1. /\ old \in Seq(Events) /\ InOrder(old) /\ Range(old) \subseteq Range(published)
          /\ \A e \in Range(old) : e.from = event.from => e.no < event.no
      BY <1>1, <2>1 DEF FeedInv, ShownInOrder, LeftIsAhead
    <3>. HIDE DEF old, event
    <3>2. InOrder(Append(old, event)) /\ Range(Append(old, event)) = Range(old) \cup {event}
      BY <2>1, <3>1, InOrderAppend, RangeAppend
    <3>3. \A m \in Listeners : Streams'[m] = IF m = l THEN Append(old, event) ELSE Streams[m]
      BY <1>1, <2>3 DEF old
    <3>4. ShownInOrder'
      BY <2>1, <3>1, <3>2, <3>3 DEF FeedInv, ShownInOrder
    <3>5. ASSUME NEW q \in Publishers, NEW m \in publisher'[q].left,
                 publisher'[q].pc = "sending",
                 NEW e \in Range(Streams'[m]), e.from = q
          PROVE  e.no < publisher'[q].sent
      <4>1. /\ m \in Listeners /\ m \in publisher[q].left /\ publisher[q].pc = "sending"
            /\ publisher'[q].sent = publisher[q].sent
        BY <1>1, <1>5, <3>5, SendKeepsNumbers, PublisherFacts
      <4>2. CASE e \in Range(Streams[m])
        BY <3>5, <4>1, <4>2 DEF FeedInv, LeftIsAhead
      <4>3. CASE e \notin Range(Streams[m])
        <5>1. m = l /\ e = event
          BY <3>2, <3>3, <3>5, <4>1, <4>3 DEF old
        <5>2. q = p
          BY <3>5, <5>1 DEF event
        <5>. QED
          BY <1>1, <1>5, <3>5, <5>1, <5>2, SendKeepsNumbers
      <4>. QED
        BY <4>2, <4>3
    <3>. QED
      BY <3>4, <3>5 DEF LeftIsAhead
  <2>. QED
    BY <1>5, <2>2, <2>3, SendStreams
<1>. QED
  BY <1>2, <1>3, <1>4, <1>5 DEF HubNext, Sending

LEMMA FeedInvStep == FeedInv /\ [HubNext]_hubVars => FeedInv'
<1>1. FeedInv /\ HubNext => FeedInv'
  BY TypedStep, PublishedStep, StreamsStep DEF FeedInv
<1>2. FeedInv /\ UNCHANGED hubVars => FeedInv'
  <2>. SUFFICES ASSUME FeedInv, UNCHANGED hubVars PROVE FeedInv'
    OBVIOUS
  <2>1. UNCHANGED <<clients, history, connection, chan, got, dropped, publisher, published>>
    BY DEF hubVars
  <2>2. Typed' /\ Streams' = Streams
    BY <2>1, TypedStep DEF FeedInv, Streams, Stream
  <2>. QED
    BY <2>1, <2>2 DEF FeedInv, PublishedBefore, SendingOld, NewUntouched,
                      ShownInOrder, LeftIsAhead
<1>. QED
  BY <1>1, <1>2

(* Every step of the hub is a step of Broadcast, or changes nothing there. *)
LEMMA FeedStep == ASSUME FeedInv, FeedInv', HubNext PROVE [Feed!Next]_Feed!vars
<1>1. /\ Typed /\ Streams \in [Listeners -> Seq(Events)]
      /\ \A l \in Listeners : Feed!Faithful(Streams[l])'
  <2>1. Typed /\ Typed' /\ ShownInOrder'
    BY DEF FeedInv
  <2>. QED
    BY <2>1, StreamsTyped DEF ShownInOrder, Feed!Faithful, InOrder, Range
<1>2. ASSUME NEW l \in Listeners, Register(l) PROVE Feed!Join(l)
  <2>1. /\ l \notin clients /\ clients' = clients \cup {l} /\ published' = published
        /\ Streams' = [Streams EXCEPT ![l] = history]
    BY <1>2, RegisterStreams DEF Register
  <2>2. Streams'[l] = history
    BY <1>1, <2>1
  <2>3. Streams' = [Streams EXCEPT ![l] = Streams'[l]]
    BY <2>1, <2>2
  <2>4. Feed!Faithful(Streams'[l])
    BY <1>1, <2>1 DEF Feed!Faithful
  <2>. QED
    BY <2>1, <2>3, <2>4 DEF Feed!Join, Streams
<1>3. ASSUME NEW l \in Listeners, Receive(l) PROVE UNCHANGED Feed!vars
  BY <1>1, <1>3, ReceiveStreams DEF Feed!vars, Receive, Streams
<1>4. ASSUME NEW l \in Listeners, Leave(l) PROVE Feed!Leave(l)
  BY <1>1, <1>4 DEF Feed!Leave, Leave, Stream, Typed, HubTypeOK
<1>5. ASSUME NEW p \in Publishers, Publish(p) PROVE Feed!Emit
  <2>1. clients' = clients
    BY <1>5 DEF Publish, PublishWith
  <2>. QED
    BY <1>5, <2>1, PublishStreams DEF Feed!Emit, Streams
<1>6. ASSUME NEW p \in Publishers, NEW l \in Listeners, Send(p, l)
      PROVE  Feed!Deliver(l) \/ UNCHANGED Feed!vars
  <2>1. /\ published' = published /\ clients' = clients
        /\ [from |-> p, no |-> publisher[p].sent] \in Range(published)
    BY <1>6 DEF Send, FeedInv, SendingOld
  <2>2. CASE Streams' = Streams
    BY <2>1, <2>2 DEF Feed!vars, Streams
  <2>3. CASE /\ l \in clients
             /\ Streams' = [Streams EXCEPT ![l] =
                              Append(@, [from |-> p, no |-> publisher[p].sent])]
    <3>1. Feed!Faithful(Streams'[l])
      BY <1>1, <2>1 DEF Feed!Faithful
    <3>. QED
      BY <2>1, <2>3, <3>1 DEF Feed!Deliver, Streams
  <2>. QED
    BY <1>6, <2>2, <2>3, SendStreams
<1>. QED
  BY <1>2, <1>3, <1>4, <1>5, <1>6 DEF HubNext, Sending, Feed!Next

(* The hub implements the abstract fan-out: a listener is shown what was   *)
(* published, nothing twice, and the events of one publisher in their      *)
(* order, for any number of publishers and listeners.                      *)
THEOREM HubBroadcasts == HubSpec => ImplementsBroadcast
<1>1. HubInit => Feed!Init
  <2>1. <<>> \o <<>> = <<>> /\ DOMAIN <<>> = {}
    OBVIOUS
  <2>2. Range(<<>>) = {}
    BY <2>1 DEF Range
  <2>. QED
    BY <2>1, <2>2 DEF HubInit, Feed!Init, Stream
<1>2. FeedInv /\ FeedInv' /\ [HubNext]_hubVars => [Feed!Next]_Feed!vars
  <2>1. UNCHANGED hubVars => UNCHANGED Feed!vars
    BY DEF hubVars, Feed!vars, Stream
  <2>. QED
    BY <2>1, FeedStep
<1>. QED
  BY <1>1, <1>2, FeedInvInit, FeedInvStep, PTL DEF HubSpec, Feed!Spec, ImplementsBroadcast
=============================================================================
