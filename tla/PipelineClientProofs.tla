------------------------- MODULE PipelineClientProofs -------------------------
(***************************************************************************)
(* Proofs about PipelineClient for every number of runs, operations and    *)
(* failures: what the page shows is of the run on the page, and what a     *)
(* resubmission replays is complete.                                       *)
(***************************************************************************)
EXTENDS PipelineClient, RangeFacts

-----------------------------------------------------------------------------
(* The inductive invariant. *)

(* Operations: the step of the handler fits its kind, and its request      *)
(* names a row that was created.                                           *)
Placed(job, rows) ==
  /\ job.kind = "none" <=> job.pc = "idle"
  /\ job.kind = "submit" => job.pc = "submit"
  /\ job.kind = "leave" => job.pc = "cancel"
  /\ job.kind = "start" => job.pc \in {"create", "submit"}
  /\ job.pc \in {"cancel", "submit", "wait"} => job.run \in 1 .. rows
  /\ job.pc \in {"submit", "wait"} => job.gate \in Gates
  /\ job.kind = "resubmit" => job.target \in Gates

JobsPlaced == \A j \in Jobs : Placed(jobs[j], created)

(* What the server has answered, it has done.                              *)
Honest(job, rows, been) ==
  /\ job.pc = "create" => /\ job.reply \in {Null, "created", "failed"}
                          /\ job.reply = "created" => job.run \in 1 .. rows
  /\ job.pc = "submit" => \/ job.reply \in {Null, "failed"}
                          \/ job.reply = "reused" /\ "WAITING_MODE" \in been[job.run]
                          \/ job.reply \in been[job.run] \ {"WAITING_URL"}

RepliesTrue == \A j \in Jobs : Honest(jobs[j], created, reached)

(* A run has been where it is, and where its events say it was; the first  *)
(* two gates are never come back to.                                       *)
ReachedTrue ==
  \A r \in Runs :
    /\ "WAITING_URL" \in reached[r] /\ state[r] \in reached[r]
    /\ Range(queue[r]) \subseteq reached[r] \ {"WAITING_URL"}
    /\ r > created => reached[r] = {"WAITING_URL"}
    /\ state[r] = "WAITING_URL" => reached[r] = {"WAITING_URL"}
    /\ state[r] = "WAITING_MODE" => reached[r] \subseteq {"WAITING_URL", "WAITING_MODE"}

(* Requests of the steps may overlap, other operations are alone, and each *)
(* is about the run on the page.                                           *)
Alone ==
  \A i, j \in Jobs :
    i # j /\ jobs[i].pc # "idle" /\ jobs[j].pc # "idle" =>
      jobs[i].kind = "submit" /\ jobs[j].kind = "submit"

JobsOfTheRun ==
  \A j \in Jobs :
    LET job == jobs[j] IN
    /\ job.pc = "create" => /\ run = Null
                            /\ job.reply = "created" => reached[job.run] = {"WAITING_URL"}
    /\ job.pc \in {"cancel", "submit", "wait"} => run # Null /\ run.id = job.run

StreamOfTheRun ==
  \A r \in Runs : stream[r] = "open" => run # Null /\ run.id = r /\ sseCleanup = r

NavStarts ==
  run # Null /\ run.state = "WAITING_URL" => Range(navHistory) \subseteq {"WAITING_URL"}

(* The gate a request is about to pass has been recorded, or was passed.   *)
AskedIsRecorded ==
  \A j \in Jobs :
    jobs[j].pc = "submit" =>
      /\ jobs[j].gate \in {"WAITING_URL", "WAITING_REVIEW_CLIPS"} => jobs[j].gate \in gateHistory
      /\ jobs[j].gate = "WAITING_MODE" =>
           \/ "WAITING_MODE" \in gateHistory
           \/ ~(reached[jobs[j].run] \subseteq {"WAITING_URL", "WAITING_MODE"})

(* NavIsOfTheRun and GatesRecorded, with the three gates spelt out.        *)
NavOfTheRun == Range(navHistory) \subseteq IF run = Null THEN {} ELSE reached[run.id]

PassedIsRecorded ==
  run # Null =>
    /\ "WAITING_MODE" \in reached[run.id] => "WAITING_URL" \in gateHistory
    /\ "EXECUTING" \in reached[run.id] => "WAITING_MODE" \in gateHistory
    /\ "WAITING_UPLOAD_CONFIRM" \in reached[run.id] => "WAITING_REVIEW_CLIPS" \in gateHistory

OneRunAtATime ==
  /\ Alone /\ JobsOfTheRun /\ StreamOfTheRun /\ NavStarts /\ AskedIsRecorded
  /\ NavOfTheRun /\ PassedIsRecorded

(* The run on the page is a row.                                           *)
OnARow == run # Null => run.id \in 1 .. created

(* What is true of the page whatever it does at once.                      *)
Base == TypeOK /\ JobsPlaced /\ RepliesTrue /\ ReachedTrue /\ OnARow /\ RunKnown

IInv ==
  /\ Base
  /\ ~overlapped => OneRunAtATime

-----------------------------------------------------------------------------
(* Types. *)

LEMMA GateFacts ==
  /\ Gates = {"WAITING_URL", "WAITING_MODE", "WAITING_REVIEW_HIGHLIGHTS",
              "WAITING_THUMBNAIL_CONFIG", "WAITING_REVIEW_METADATA",
              "WAITING_REVIEW_CLIPS", "WAITING_UPLOAD_CONFIRM"}
  /\ Gates \subseteq Server!States
<1>1. DOMAIN GateStateOrder = 1 .. 7 /\ GateStateOrder = [i \in 1 .. 7 |-> GateStateOrder[i]]
  BY DEF GateStateOrder
<1>2. 1 .. 7 = {1, 2, 3, 4, 5, 6, 7}
  OBVIOUS
<1>3. /\ GateStateOrder[1] = "WAITING_URL" /\ GateStateOrder[2] = "WAITING_MODE"
      /\ GateStateOrder[3] = "WAITING_REVIEW_HIGHLIGHTS"
      /\ GateStateOrder[4] = "WAITING_THUMBNAIL_CONFIG"
      /\ GateStateOrder[5] = "WAITING_REVIEW_METADATA"
      /\ GateStateOrder[6] = "WAITING_REVIEW_CLIPS"
      /\ GateStateOrder[7] = "WAITING_UPLOAD_CONFIRM"
  BY DEF GateStateOrder
<1>4. Gates = {GateStateOrder[i] : i \in {1, 2, 3, 4, 5, 6, 7}}
  BY <1>1, <1>2 DEF Gates, Range
<1>5. Gates = {"WAITING_URL", "WAITING_MODE", "WAITING_REVIEW_HIGHLIGHTS",
              "WAITING_THUMBNAIL_CONFIG", "WAITING_REVIEW_METADATA",
              "WAITING_REVIEW_CLIPS", "WAITING_UPLOAD_CONFIRM"}
  BY <1>3, <1>4
<1>. QED
  BY <1>5 DEF Server!States

LEMMA IndexFacts ==
  ASSUME NEW gate \in Gates
  PROVE  Index(gate) \in 1 .. 7 /\ GateStateOrder[Index(gate)] = gate
<1>1. DOMAIN GateStateOrder = 1 .. 7
  BY DEF GateStateOrder
<1>2. \E i \in 1 .. 7 : GateStateOrder[i] = gate
  BY <1>1 DEF Gates, Range
<1>. QED
  BY <1>1, <1>2 DEF Index

(* A set of places has a first one.                                        *)
LEMMA FirstPlace ==
  ASSUME NEW due \in SUBSET (1 .. 7), due # {}
  PROVE  \E i \in due : \A k \in due : i <= k
<1>1. \A k \in due : k \in {1, 2, 3, 4, 5, 6, 7}
  OBVIOUS
<1>2. CASE 1 \in due
  BY <1>1, <1>2
<1>3. CASE 1 \notin due /\ 2 \in due
  BY <1>1, <1>3
<1>4. CASE 1 \notin due /\ 2 \notin due /\ 3 \in due
  BY <1>1, <1>4
<1>5. CASE due \subseteq {4, 5, 6, 7} /\ 4 \in due
  BY <1>5
<1>6. CASE due \subseteq {5, 6, 7} /\ 5 \in due
  BY <1>6
<1>7. CASE due \subseteq {6, 7} /\ 6 \in due
  BY <1>7
<1>8. CASE due = {7}
  BY <1>8
<1>. QED
  BY <1>1, <1>2, <1>3, <1>4, <1>5, <1>6, <1>7, <1>8

LEMMA NextGateIsGate ==
  ASSUME NEW job, NEW from \in 0 .. 7, job.target \in Gates
  PROVE  NextGate(job, from) \in Gates
<1>. DEFINE due == {i \in from + 1 .. Index(job.target) - 1 : GateStateOrder[i] \in job.saved}
                   \cup {Index(job.target)}
<1>1. Index(job.target) \in 1 .. 7
  BY IndexFacts
<1>2. due \in SUBSET (1 .. 7) /\ due # {}
  BY <1>1
<1>3. PICK i \in due : \A k \in due : i <= k
  BY <1>2, FirstPlace
<1>4. (CHOOSE n \in due : \A k \in due : n <= k) \in due
  BY <1>3
<1>5. DOMAIN GateStateOrder = 1 .. 7
  BY DEF GateStateOrder
<1>6. NextGate(job, from) = GateStateOrder[CHOOSE n \in due : \A k \in due : n <= k]
  BY DEF NextGate
<1>. HIDE DEF due
<1>. QED
  BY <1>2, <1>4, <1>5, <1>6 DEF Gates, Range
(* The variables of the server, and what a move of a run does to them.     *)
Moves(r, s) ==
  /\ state' = [state EXCEPT ![r] = s]
  /\ reached' = [reached EXCEPT ![r] = @ \cup {s}]
  /\ queue' \in {queue, [queue EXCEPT ![r] = Append(@, s)]}
  /\ created' = created

(* How a run comes to a state.                                             *)
Comes(r, s) ==
  /\ s \in Server!States \ {"WAITING_URL"}
  /\ s = "WAITING_MODE" => state[r] = "WAITING_URL"
  /\ s = "EXECUTING" => state[r] = "WAITING_MODE"
  /\ s = "WAITING_UPLOAD_CONFIRM" => state[r] = "WAITING_REVIEW_CLIPS"

LEMMA MovedTo ==
  ASSUME TypeOK, NEW r \in Runs, NEW s \in Server!States, Server!Move(r, s), Reach(r),
         Publish(r) \/ UNCHANGED queue, UNCHANGED created
  PROVE  Moves(r, s) /\ state'[r] = s
BY DEF TypeOK, Server!Move, Reach, Publish, Moves

LEMMA LeavePhaseMoves ==
  ASSUME TypeOK, NEW r \in Runs, LeavePhase(r)
  PROVE  \E s : Moves(r, s) /\ Comes(r, s)
<1>1. PICK e \in Server!PhaseEdge : state[r] = e[1] /\ Server!Move(r, e[2])
  BY DEF LeavePhase, Server!LeavePhase
<1>2. Comes(r, e[2])
  BY <1>1 DEF Server!PhaseEdge, Server!States, Comes
<1>3. Moves(r, e[2])
  BY <1>1, <1>2, MovedTo DEF LeavePhase, Comes
<1>. QED
  BY <1>2, <1>3

LEMMA FailMoves ==
  ASSUME TypeOK, NEW r \in Runs, Fail(r)
  PROVE  \E s : Moves(r, s) /\ Comes(r, s)
<1>1. Comes(r, "ERROR")
  BY DEF Server!States, Comes
<1>2. Moves(r, "ERROR")
  BY <1>1, MovedTo DEF Fail, Server!Fail, Comes
<1>. QED
  BY <1>1, <1>2

LEMMA PlacedRun ==
  ASSUME TypeOK, JobsPlaced, NEW j \in Jobs, jobs[j].pc \in {"cancel", "submit", "wait"}
  PROVE  jobs[j].run \in Runs
<1>1. jobs[j].run \in 1 .. created
  BY DEF JobsPlaced, Placed
<1>2. created \in Nat /\ created <= MaxRuns /\ MaxRuns \in Nat
  BY ClientConstants DEF TypeOK, ClientConstants
<1>. QED
  BY <1>1, <1>2 DEF Runs

LEMMA OwnGateOnly ==
  ASSUME NEW gate, NEW s \in {"WAITING_URL", "WAITING_MODE", "WAITING_REVIEW_CLIPS"},
         Accepts(gate, s)
  PROVE  gate = s
BY DEF Accepts

LEMMA ServeCancelMoves ==
  ASSUME TypeOK, JobsPlaced, NEW j \in Jobs, ServeCancel(j)
  PROVE  /\ jobs[j].run \in Runs
         /\ Moves(jobs[j].run, "CANCELLED") /\ Comes(jobs[j].run, "CANCELLED")
<1>1. jobs[j].run \in Runs
  BY PlacedRun DEF ServeCancel
<1>2. Comes(jobs[j].run, "CANCELLED")
  BY DEF Server!States, Comes
<1>3. Moves(jobs[j].run, "CANCELLED")
  BY <1>1, <1>2, MovedTo DEF ServeCancel, Server!CancelRun, Comes
<1>. QED
  BY <1>1, <1>2, <1>3

(* The gate that is passed is the one the request is for, where no other   *)
(* request is accepted.                                                    *)
LEMMA ServeGateMoves ==
  ASSUME TypeOK, JobsPlaced, NEW j \in Jobs, ServeGate(j)
  PROVE  /\ jobs[j].run \in Runs
         /\ \E s : /\ Moves(jobs[j].run, s) /\ Comes(jobs[j].run, s) /\ state'[jobs[j].run] = s
                   /\ \/ jobs' = [jobs EXCEPT ![j].reply = s]
                      \/ jobs' = [jobs EXCEPT ![j].reply = "reused"] /\ s = "WAITING_MODE"
         /\ state[jobs[j].run] \in {"WAITING_URL", "WAITING_MODE", "WAITING_REVIEW_CLIPS"} =>
              jobs[j].gate = state[jobs[j].run]
<1>. DEFINE r == jobs[j].run
<1>1. r \in Runs
  BY PlacedRun DEF ServeGate
<1>2. PICK e \in Server!UserEdge : state[r] = e[1] /\ Server!Move(r, e[2])
  BY DEF ServeGate, Server!PassGate
<1>3. Comes(r, e[2])
  BY <1>2 DEF Server!UserEdge, Server!States, Comes
<1>4. Moves(r, e[2]) /\ state'[r] = e[2]
  BY <1>1, <1>2, <1>3, MovedTo DEF ServeGate, Comes
<1>5. e[1] = "WAITING_URL" => e[2] = "WAITING_MODE"
  BY <1>2 DEF Server!UserEdge
<1>6. \/ jobs' = [jobs EXCEPT ![j].reply = e[2]]
      \/ jobs' = [jobs EXCEPT ![j].reply = "reused"] /\ e[2] = "WAITING_MODE"
  BY <1>2, <1>4, <1>5 DEF ServeGate, Answer
<1>7. state[r] \in {"WAITING_URL", "WAITING_MODE", "WAITING_REVIEW_CLIPS"} => jobs[j].gate = state[r]
  BY OwnGateOnly DEF ServeGate
<1>. QED
  BY <1>1, <1>3, <1>4, <1>6, <1>7

-----------------------------------------------------------------------------
(* Type correctness, of an action at a time.                               *)

LEMMA MountedJobs == Remount => mounted' \subseteq Jobs
BY DEF Remount

LEMMA MoveTypes ==
  ASSUME TypeOK, NEW r \in Runs, NEW s, Moves(r, s), Comes(r, s)
  PROVE  /\ state' \in [Runs -> Server!States]
         /\ created' \in 0 .. MaxRuns
         /\ queue' \in [Runs -> Seq(Server!States)]
         /\ reached' \in [Runs -> SUBSET Server!States]
<1>1. Append(queue[r], s) \in Seq(Server!States)
  BY DEF TypeOK, Comes
<1>2. queue' \in [Runs -> Seq(Server!States)]
  BY <1>1 DEF TypeOK, Moves
<1>3. reached[r] \cup {s} \in SUBSET Server!States
  BY DEF TypeOK, Comes
<1>4. reached' \in [Runs -> SUBSET Server!States]
  BY <1>3 DEF TypeOK, Moves
<1>. QED
  BY <1>2, <1>4 DEF TypeOK, Moves, Comes

LEMMA AnswerTypes ==
  ASSUME TypeOK, NEW j \in Jobs,
         NEW value \in Server!States \cup {"created", "reused", "failed", Null}, Answer(j, value)
  PROVE  jobs' \in [Jobs -> JobRecord]
<1>1. jobs[j] \in JobRecord
  BY DEF TypeOK
<1>2. [jobs[j] EXCEPT !.reply = value] \in JobRecord
  BY <1>1 DEF JobRecord
<1>. QED
  BY <1>2 DEF TypeOK, Answer

LEMMA StepTypes ==
  ASSUME TypeOK, NEW j \in Jobs, NEW job \in JobRecord, Step(j, job)
  PROVE  jobs' \in [Jobs -> JobRecord]
<1>1. [job EXCEPT !.reply = Null] \in JobRecord
  BY DEF JobRecord
<1>. QED
  BY <1>1 DEF TypeOK, Step

LEMMA IdleType == Idle \in JobRecord
BY DEF Idle, JobRecord

LEMMA BeginTypes ==
  ASSUME TypeOK, NEW j \in Jobs, NEW job \in JobRecord, Begin(j, job)
  PROVE  /\ jobs' \in [Jobs -> JobRecord] /\ overlapped' \in BOOLEAN
         /\ started' \in 0 .. MaxJobs /\ faults' \in 0 .. MaxFaults
BY ClientConstants DEF TypeOK, Begin, ClientConstants

LEMMA ServerTypes ==
  ASSUME TypeOK, JobsPlaced, ServerStep, Remount
  PROVE  TypeOK'
<1>0. mounted' \subseteq Jobs
  BY MountedJobs
<1>1. ASSUME NEW r \in Runs, LeavePhase(r) PROVE TypeOK'
  BY <1>0, <1>1, LeavePhaseMoves, MoveTypes DEF TypeOK, LeavePhase, store, nav, limits
<1>2. ASSUME NEW r \in Runs, Fail(r) PROVE TypeOK'
  <2>1. faults' \in 0 .. MaxFaults
    BY <1>2, ClientConstants DEF TypeOK, Fail, Fault, ClientConstants
  <2>. QED
    BY <1>0, <1>2, <2>1, FailMoves, MoveTypes DEF TypeOK, Fail, store, nav, limits
<1>3. ASSUME NEW j \in Jobs, ServeCreate(j) PROVE TypeOK'
  <2>1. created' \in 0 .. MaxRuns /\ created' \in Runs
    BY <1>3, ClientConstants DEF TypeOK, ServeCreate, ClientConstants, Runs
  <2>2. jobs[j] \in JobRecord
    BY DEF TypeOK
  <2>3. [jobs[j] EXCEPT !.reply = "created", !.run = created + 1] \in JobRecord
    BY <1>3, <2>1, <2>2 DEF JobRecord, ServeCreate
  <2>4. jobs' = [jobs EXCEPT ![j] = [jobs[j] EXCEPT !.reply = "created", !.run = created + 1]]
    BY <1>3, <2>2 DEF ServeCreate, TypeOK, JobRecord
  <2>5. jobs' \in [Jobs -> JobRecord]
    BY <2>3, <2>4 DEF TypeOK
  <2>. QED
    BY <1>0, <1>3, <2>1, <2>5 DEF TypeOK, ServeCreate, store, nav, limits
<1>4. ASSUME NEW j \in Jobs, ServeCancel(j) PROVE TypeOK'
  <2>1. jobs' \in [Jobs -> JobRecord]
    BY <1>4, AnswerTypes DEF ServeCancel, Server!States
  <2>. QED
    BY <1>0, <1>4, <2>1, ServeCancelMoves, MoveTypes DEF TypeOK, ServeCancel, store, nav, limits
<1>5. ASSUME NEW j \in Jobs, ServeGate(j) PROVE TypeOK'
  <2>1. PICK s : /\ Moves(jobs[j].run, s) /\ Comes(jobs[j].run, s)
                 /\ Answer(j, s) \/ Answer(j, "reused")
    BY <1>5, ServeGateMoves DEF Answer
  <2>2. jobs' \in [Jobs -> JobRecord]
    BY <2>1, AnswerTypes DEF Comes
  <2>3. jobs[j].run \in Runs
    BY <1>5, ServeGateMoves
  <2>. QED
    BY <1>0, <1>5, <2>1, <2>2, <2>3, MoveTypes DEF TypeOK, ServeGate, store, nav, limits
<1>6. ASSUME NEW j \in Jobs, ServeEnded(j) PROVE TypeOK'
  <2>1. jobs[j].run \in Runs
    BY <1>6, PlacedRun DEF ServeEnded
  <2>2. state[jobs[j].run] \in Server!States
    BY <2>1 DEF TypeOK
  <2>3. jobs' \in [Jobs -> JobRecord]
    BY <1>6, <2>2, AnswerTypes DEF ServeEnded
  <2>. QED
    BY <1>0, <1>6, <2>3 DEF TypeOK, ServeEnded, server, store, nav, limits
<1>7. ASSUME NEW j \in Jobs, Refuse(j) PROVE TypeOK'
  <2>1. faults' \in 0 .. MaxFaults
    BY <1>7, ClientConstants DEF TypeOK, Refuse, Fault, ClientConstants
  <2>2. jobs' \in [Jobs -> JobRecord]
    BY <1>7, AnswerTypes DEF Refuse
  <2>. QED
    BY <1>0, <1>7, <2>1, <2>2 DEF TypeOK, Refuse, server, store, nav
<1>. QED
  BY <1>1, <1>2, <1>3, <1>4, <1>5, <1>6, <1>7 DEF ServerStep

LEMMA PushTypes ==
  ASSUME TypeOK, NEW s \in Server!States, Push(s)
  PROVE  /\ navHistory' \in Seq(Server!States)
         /\ navIndex' \in IF navHistory' = <<>> THEN {0} ELSE DOMAIN navHistory'
<1>1. navHistory \in Seq(Server!States)
  BY DEF TypeOK
<1>2. /\ Append(navHistory, s) \in Seq(Server!States) /\ Append(navHistory, s) # <<>>
      /\ Len(navHistory) + 1 \in DOMAIN Append(navHistory, s)
  BY <1>1
<1>. QED
  BY <1>2 DEF Push

LEMMA RunStateTypes ==
  ASSUME TypeOK, NEW r, NEW s \in Server!States, RunState(r, s)
  PROVE  run' \in [id : Runs, state : Server!States] \cup {Null}
BY DEF TypeOK, RunState

LEMMA CloseTypes ==
  ASSUME TypeOK, NEW r, Close(r)
  PROVE  /\ stream' \in [Runs -> {"none", "open", "closed"}]
         /\ queue' \in [Runs -> Seq(Server!States)]
<1>1. << >> \in Seq(Server!States)
  OBVIOUS
<1>. QED
  BY <1>1 DEF TypeOK, Close

LEMMA ClearRunTypes ==
  ASSUME TypeOK, ClearRun
  PROVE  /\ stream' \in [Runs -> {"none", "open", "closed"}]
         /\ queue' \in [Runs -> Seq(Server!States)]
         /\ run' = Null /\ navHistory' = <<>> /\ navHistory' \in Seq(Server!States) /\ navIndex' = 0
         /\ gateHistory' = {} /\ pendingReuse' = FALSE /\ sseCleanup' = Null
<1>1. /\ stream' \in [Runs -> {"none", "open", "closed"}]
      /\ queue' \in [Runs -> Seq(Server!States)]
  <2>1. CASE sseCleanup = Null
    BY <2>1 DEF TypeOK, ClearRun, StopSSE
  <2>2. CASE sseCleanup # Null
    BY <2>2, CloseTypes DEF ClearRun, StopSSE
  <2>. QED
    BY <2>1, <2>2
<1>2. << >> \in Seq(Server!States)
  OBVIOUS
<1>. QED
  BY <1>1, <1>2 DEF ClearRun

LEMMA GateTypes == TypeOK => DisplayedState \in Server!States
<1>. SUFFICES ASSUME TypeOK PROVE DisplayedState \in Server!States
  OBVIOUS
<1>1. navHistory \in Seq(Server!States)
  BY DEF TypeOK
<1>. QED
  BY <1>1 DEF DisplayedState, Server!States

LEMMA RecordedTypes == ASSUME TypeOK, NEW gate \in Gates PROVE Recorded(gate) \subseteq Gates
BY GateFacts DEF Recorded

(* The gate a step shows, where it offers to submit it.                    *)
LEMMA SubmitGate ==
  ASSUME NEW j \in Jobs, Submit(j) \/ Resubmit(j)
  PROVE  DisplayedState \in Gates
BY GateFacts DEF Submit, Resubmit

LEMMA UserTypes ==
  ASSUME TypeOK, UserStep, Remount
  PROVE  TypeOK'
<1>0. mounted' \subseteq Jobs /\ Idle \in JobRecord
  BY MountedJobs, IdleType
<1>1. ASSUME NEW j \in Jobs, Start(j) PROVE TypeOK'
  <2>1. [Idle EXCEPT !.kind = "start", !.pc = "create"] \in JobRecord
    BY DEF Idle, JobRecord
  <2>2. /\ jobs' \in [Jobs -> JobRecord] /\ overlapped' \in BOOLEAN
        /\ started' \in 0 .. MaxJobs /\ faults' \in 0 .. MaxFaults
    BY <1>1, <2>1, BeginTypes DEF Start
  <2>. QED
    BY <1>0, <1>1, <2>2 DEF TypeOK, Start, server, nav
<1>2. ASSUME NEW j \in Jobs, Submit(j) PROVE TypeOK'
  <2>0. DisplayedState \in Gates /\ run.id \in Runs
    BY <1>2, SubmitGate DEF TypeOK, Submit
  <2>1. [Idle EXCEPT !.kind = "submit", !.pc = "submit", !.run = run.id, !.gate = DisplayedState] \in JobRecord
    BY <2>0 DEF Idle, JobRecord
  <2>2. /\ jobs' \in [Jobs -> JobRecord] /\ overlapped' \in BOOLEAN
        /\ started' \in 0 .. MaxJobs /\ faults' \in 0 .. MaxFaults
    BY <1>2, <2>1, BeginTypes DEF Submit
  <2>3. gateHistory' \subseteq Gates
    BY <1>2, <2>0, RecordedTypes DEF TypeOK, Submit
  <2>. QED
    BY <1>0, <1>2, <2>2, <2>3 DEF TypeOK, Submit, server, nav
<1>3. ASSUME NEW j \in Jobs, Resubmit(j) PROVE TypeOK'
  <2>. DEFINE job == [Idle EXCEPT !.kind = "resubmit", !.target = DisplayedState, !.saved = gateHistory]
  <2>0. DisplayedState \in Gates
    BY <1>3, SubmitGate
  <2>1. CASE /\ run # Null
             /\ Begin(j, [job EXCEPT !.pc = "cancel", !.run = run.id])
             /\ UNCHANGED <<server, stream, store>>
    <3>1. [job EXCEPT !.pc = "cancel", !.run = run.id] \in JobRecord
      BY <2>0, <2>1 DEF Idle, JobRecord, TypeOK
    <3>2. /\ jobs' \in [Jobs -> JobRecord] /\ overlapped' \in BOOLEAN
          /\ started' \in 0 .. MaxJobs /\ faults' \in 0 .. MaxFaults
      BY <2>1, <3>1, BeginTypes
    <3>. QED
      BY <1>0, <1>3, <2>1, <3>2 DEF TypeOK, Resubmit, server, store, nav
  <2>2. CASE /\ run = Null
             /\ Begin(j, [job EXCEPT !.pc = "create"])
             /\ ClearRun /\ isLoading' = TRUE
             /\ UNCHANGED <<state, created>>
    <3>1. [job EXCEPT !.pc = "create"] \in JobRecord
      BY <2>0, <2>2 DEF Idle, JobRecord, TypeOK
    <3>2. /\ jobs' \in [Jobs -> JobRecord] /\ overlapped' \in BOOLEAN
          /\ started' \in 0 .. MaxJobs /\ faults' \in 0 .. MaxFaults
      BY <2>2, <3>1, BeginTypes
    <3>. QED
      BY <1>0, <1>3, <2>2, <3>2, ClearRunTypes DEF TypeOK, Resubmit
  <2>. QED
    BY <1>3, <2>1, <2>2 DEF Resubmit
<1>4. ASSUME NEW j \in Jobs, Leave(j) PROVE TypeOK'
  <2>1. [Idle EXCEPT !.kind = "leave", !.pc = "cancel", !.run = run.id] \in JobRecord
    BY <1>4 DEF Idle, JobRecord, TypeOK, Leave
  <2>2. /\ jobs' \in [Jobs -> JobRecord] /\ overlapped' \in BOOLEAN
        /\ started' \in 0 .. MaxJobs /\ faults' \in 0 .. MaxFaults
    BY <1>4, <2>1, BeginTypes DEF Leave
  <2>. QED
    BY <1>0, <1>4, <2>2 DEF TypeOK, Leave, server, store, nav
<1>5. CASE NewPipeline
  BY <1>0, <1>5, ClearRunTypes DEF TypeOK, NewPipeline, limits
<1>6. CASE NavigateBack
  <2>1. navHistory \in Seq(Server!States) /\ navIndex \in Nat
    BY DEF TypeOK
  <2>2. navIndex' \in 1 .. navIndex - 1 /\ navHistory' = navHistory
    BY <1>6 DEF NavigateBack
  <2>3. navHistory # <<>> /\ navIndex' \in DOMAIN navHistory
    BY <1>6, <2>1, <2>2 DEF TypeOK, NavigateBack
  <2>. QED
    BY <1>0, <1>6, <2>3 DEF TypeOK, NavigateBack, server, limits
<1>7. CASE ConfirmReuse
  <2>1. run.state \in Server!States
    BY <1>7 DEF TypeOK, ConfirmReuse
  <2>. QED
    BY <1>0, <1>7, <2>1, PushTypes DEF TypeOK, ConfirmReuse, server, limits
<1>. QED
  BY <1>1, <1>2, <1>3, <1>4, <1>5, <1>6, <1>7 DEF UserStep

(* The state an answer to the request of a gate names.                     *)
Named(job) == IF job.reply = "reused" THEN "WAITING_MODE" ELSE job.reply

LEMMA AnswerNames ==
  ASSUME TypeOK, JobsPlaced, RepliesTrue, NEW j \in Jobs, Answered(j, "submit"),
         jobs[j].reply # "failed"
  PROVE  /\ jobs[j].run \in Runs /\ Named(jobs[j]) \in Server!States
         /\ Named(jobs[j]) \in reached[jobs[j].run] \ {"WAITING_URL"}
<1>1. jobs[j].run \in Runs
  BY PlacedRun DEF Answered
<1>2. \/ jobs[j].reply = "reused" /\ "WAITING_MODE" \in reached[jobs[j].run]
      \/ jobs[j].reply \in reached[jobs[j].run] \ {"WAITING_URL"}
  BY DEF RepliesTrue, Honest, Answered
<1>3. Named(jobs[j]) \in reached[jobs[j].run] \ {"WAITING_URL"}
  <2>1. CASE jobs[j].reply = "reused"
    <3>1. "WAITING_MODE" \in reached[jobs[j].run]
      BY <1>1, <1>2, <2>1 DEF TypeOK, Server!States
    <3>. QED
      BY <2>1, <3>1 DEF Named
  <2>2. CASE jobs[j].reply # "reused"
    BY <1>2, <2>2 DEF Named
  <2>. QED
    BY <2>1, <2>2
<1>. QED
  BY <1>1, <1>3 DEF TypeOK

(* What an answer does to the store: the run on the page is told of it, if *)
(* the request was for it, and it is pushed or not.                        *)
LEMMA StoreAnswerDoes ==
  ASSUME NEW job, StoreAnswer(job)
  PROVE  \/ /\ job.reply = "failed"
            /\ UNCHANGED <<run, nav, pendingReuse>>
         \/ /\ job.reply # "failed"
            /\ RunState(job.run, Named(job))
            /\ Push(Named(job)) \/ UNCHANGED nav
            /\ \/ pendingReuse' = (job.reply = "reused")
               \/ UNCHANGED pendingReuse
BY DEF StoreAnswer, Named

LEMMA ContinueTypes ==
  ASSUME TypeOK, JobsPlaced, RepliesTrue, NEW j \in Jobs, Continue(j), Remount
  PROVE  TypeOK'
<1>0. mounted' \subseteq Jobs /\ Idle \in JobRecord /\ jobs[j] \in JobRecord
  BY MountedJobs, IdleType DEF TypeOK
<1>a. ASSUME NEW from \in 0 .. 7, jobs[j].target \in Gates
      PROVE  [jobs[j] EXCEPT !.pc = "wait", !.gate = NextGate(jobs[j], from)] \in JobRecord
  BY <1>0, <1>a, NextGateIsGate DEF JobRecord
<1>1. CASE RunCreated(j)
  <2>1. jobs[j].run \in Runs
    <3>1. jobs[j].run \in 1 .. created
      BY <1>1 DEF RunCreated, Answered, RepliesTrue, Honest
    <3>. QED
      BY <3>1, ClientConstants DEF TypeOK, ClientConstants, Runs
  <2>2. /\ run' \in [id : Runs, state : Server!States] \cup {Null}
        /\ navHistory' \in Seq(Server!States) /\ navHistory' # <<>> /\ navIndex' \in DOMAIN navHistory'
    <3>1. "WAITING_URL" \in Server!States
      BY DEF Server!States
    <3>2. /\ <<"WAITING_URL">> \in Seq(Server!States) /\ <<"WAITING_URL">> # <<>>
          /\ 1 \in DOMAIN <<"WAITING_URL">>
      BY <3>1
    <3>. QED
      BY <1>1, <2>1, <3>1, <3>2 DEF RunCreated
  <2>3. CASE jobs[j].kind = "start"
    <3>1. [jobs[j] EXCEPT !.pc = "submit", !.gate = "WAITING_URL"] \in JobRecord
      BY <1>0, GateFacts DEF JobRecord
    <3>2. jobs' \in [Jobs -> JobRecord]
      BY <1>1, <2>3, <3>1, StepTypes DEF RunCreated
    <3>3. gateHistory' \subseteq Gates
      BY <1>1, <2>3, GateFacts DEF TypeOK, RunCreated
    <3>. QED
      BY <1>0, <1>1, <2>2, <2>3, <3>2, <3>3 DEF TypeOK, RunCreated, server, limits
  <2>4. CASE jobs[j].kind # "start"
    <3>1. jobs[j].kind = "resubmit"
      BY <1>0, <1>1, <2>4 DEF JobsPlaced, Placed, RunCreated, Answered, JobRecord
    <3>2. [jobs[j] EXCEPT !.pc = "wait", !.gate = NextGate(jobs[j], 0)] \in JobRecord
      BY <1>a, <3>1 DEF JobsPlaced, Placed
    <3>3. jobs' \in [Jobs -> JobRecord]
      BY <1>1, <2>4, <3>2, StepTypes DEF RunCreated
    <3>4. stream' \in [Runs -> {"none", "open", "closed"}] /\ sseCleanup' \in Runs \cup {Null}
      BY <1>1, <2>1, <2>4 DEF TypeOK, RunCreated, SubscribeSSE
    <3>. QED
      BY <1>0, <1>1, <2>2, <2>4, <3>3, <3>4 DEF TypeOK, RunCreated, server, limits
  <2>. QED
    BY <2>3, <2>4
<1>2. CASE CreateFailed(j)
  BY <1>0, <1>2, StepTypes DEF TypeOK, CreateFailed, server, nav, limits
<1>3. CASE Cancelled(j)
  <2>1. [jobs[j] EXCEPT !.pc = "create"] \in JobRecord
    BY <1>0 DEF JobRecord
  <2>2. jobs' \in [Jobs -> JobRecord] /\ isLoading' \in BOOLEAN
    BY <1>0, <1>3, <2>1, StepTypes DEF TypeOK, Cancelled
  <2>. QED
    BY <1>0, <1>3, <2>2, ClearRunTypes DEF TypeOK, Cancelled, limits
<1>4. CASE GateAnswered(j)
  <2>1. jobs[j].run \in Runs
    BY <1>4, PlacedRun DEF GateAnswered, Answered
  <2>2. /\ run' \in [id : Runs, state : Server!States] \cup {Null}
        /\ navHistory' \in Seq(Server!States)
        /\ navIndex' \in IF navHistory' = <<>> THEN {0} ELSE DOMAIN navHistory'
        /\ pendingReuse' \in BOOLEAN
    <3>1. CASE jobs[j].reply = "failed" /\ UNCHANGED <<run, nav, pendingReuse>>
      BY <3>1 DEF TypeOK, nav
    <3>2. CASE /\ jobs[j].reply # "failed"
               /\ RunState(jobs[j].run, Named(jobs[j]))
               /\ Push(Named(jobs[j])) \/ UNCHANGED nav
               /\ \/ pendingReuse' = (jobs[j].reply = "reused")
                  \/ UNCHANGED pendingReuse
      <4>1. Named(jobs[j]) \in Server!States
        BY <1>4, <3>2, AnswerNames DEF GateAnswered
      <4>2. run' \in [id : Runs, state : Server!States] \cup {Null}
        BY <3>2, <4>1, RunStateTypes
      <4>3. pendingReuse' \in BOOLEAN
        BY <3>2 DEF TypeOK
      <4>4. /\ navHistory' \in Seq(Server!States)
            /\ navIndex' \in IF navHistory' = <<>> THEN {0} ELSE DOMAIN navHistory'
        BY <3>2, <4>1, PushTypes DEF TypeOK, nav
      <4>. QED
        BY <4>2, <4>3, <4>4
    <3>. QED
      BY <1>4, <3>1, <3>2, StoreAnswerDoes DEF GateAnswered
  <2>3. /\ jobs' \in [Jobs -> JobRecord]
        /\ stream' \in [Runs -> {"none", "open", "closed"}] /\ sseCleanup' \in Runs \cup {Null}
    <3>1. CASE jobs[j].kind = "start"
      BY <1>0, <1>4, <2>1, <3>1, StepTypes DEF TypeOK, GateAnswered, SubscribeSSE
    <3>2. CASE jobs[j].kind = "submit"
      BY <1>0, <1>4, <3>2, StepTypes DEF TypeOK, GateAnswered
    <3>3. CASE jobs[j].kind \notin {"start", "submit"}
      <4>1. jobs[j].kind = "resubmit" /\ jobs[j].gate \in Gates /\ jobs[j].target \in Gates
        BY <1>0, <1>4, <3>3 DEF JobsPlaced, Placed, GateAnswered, Answered, JobRecord
      <4>2. Index(jobs[j].gate) \in 0 .. 7
        BY <4>1, IndexFacts
      <4>. QED
        BY <1>a, <1>4, <3>3, <4>1, <4>2, StepTypes DEF TypeOK, GateAnswered
    <3>. QED
      BY <3>1, <3>2, <3>3
  <2>. QED
    BY <1>0, <1>4, <2>2, <2>3 DEF TypeOK, GateAnswered, server, limits
<1>5. CASE GateReached(j)
  <2>1. jobs[j].gate \in Gates
    BY <1>5 DEF GateReached, JobsPlaced, Placed
  <2>2. [jobs[j] EXCEPT !.pc = "submit"] \in JobRecord
    BY <1>0 DEF JobRecord
  <2>3. jobs' \in [Jobs -> JobRecord]
    BY <1>0, <1>5, <2>2, StepTypes DEF GateReached
  <2>4. gateHistory' \subseteq Gates
    BY <1>5, <2>1, RecordedTypes DEF TypeOK, GateReached
  <2>. QED
    BY <1>0, <1>5, <2>3, <2>4 DEF TypeOK, GateReached, server, nav, limits
<1>6. CASE GateTimeout(j)
  BY <1>0, <1>6, StepTypes DEF TypeOK, GateTimeout, server, store, nav, limits
<1>. QED
  BY <1>1, <1>2, <1>3, <1>4, <1>5, <1>6 DEF Continue

(* What an event does, whose head is a state its run has been in.          *)
LEMMA DeliverDoes ==
  ASSUME TypeOK, ReachedTrue, NEW r \in Runs, Deliver(r)
  PROVE  \E s \in Server!States :
           /\ s \in reached[r] \ {"WAITING_URL"} /\ stream[r] = "open"
           /\ RunState(r, s)
           /\ \/ Close(r) /\ sseCleanup' = Null /\ UNCHANGED nav
              \/ /\ queue' = [queue EXCEPT ![r] = Tail(@)] /\ queue[r] # <<>>
                 /\ Push(s) \/ UNCHANGED nav
                 /\ UNCHANGED <<stream, sseCleanup>>
<1>1. queue[r] \in Seq(Server!States) /\ queue[r] # <<>>
  BY DEF TypeOK, Deliver
<1>2. Head(queue[r]) \in Server!States /\ Head(queue[r]) \in Range(queue[r])
  BY <1>1, RangeHeadTail
<1>3. Head(queue[r]) \in reached[r] \ {"WAITING_URL"}
  BY <1>2 DEF ReachedTrue
<1>. QED
  BY <1>1, <1>2, <1>3 DEF Deliver

LEMMA StreamTypes ==
  ASSUME TypeOK, ReachedTrue, NEW r \in Runs, Deliver(r) \/ StreamLost(r), Remount
  PROVE  TypeOK'
<1>0. mounted' \subseteq Jobs
  BY MountedJobs
<1>1. CASE Deliver(r)
  <2>1. PICK s \in Server!States :
           /\ RunState(r, s)
           /\ \/ Close(r) /\ sseCleanup' = Null /\ UNCHANGED nav
              \/ /\ queue' = [queue EXCEPT ![r] = Tail(@)] /\ queue[r] # <<>>
                 /\ Push(s) \/ UNCHANGED nav
                 /\ UNCHANGED <<stream, sseCleanup>>
    BY <1>1, DeliverDoes
  <2>2. run' \in [id : Runs, state : Server!States] \cup {Null}
    BY <2>1, RunStateTypes
  <2>3. /\ navHistory' \in Seq(Server!States)
        /\ navIndex' \in IF navHistory' = <<>> THEN {0} ELSE DOMAIN navHistory'
    BY <2>1, PushTypes DEF TypeOK, nav
  <2>4. queue[r] \in Seq(Server!States)
    BY DEF TypeOK
  <2>5. /\ stream' \in [Runs -> {"none", "open", "closed"}] /\ sseCleanup' \in Runs \cup {Null}
        /\ queue' \in [Runs -> Seq(Server!States)]
    <3>1. CASE Close(r) /\ sseCleanup' = Null
      BY <3>1, CloseTypes
    <3>2. CASE /\ queue' = [queue EXCEPT ![r] = Tail(@)] /\ queue[r] # <<>>
               /\ UNCHANGED <<stream, sseCleanup>>
      <4>1. Tail(queue[r]) \in Seq(Server!States)
        BY <2>4, <3>2, RangeHeadTail
      <4>. QED
        BY <3>2, <4>1 DEF TypeOK
    <3>. QED
      BY <2>1, <3>1, <3>2
  <2>. QED
    BY <1>0, <1>1, <2>2, <2>3, <2>5 DEF TypeOK, Deliver, limits
<1>2. CASE StreamLost(r)
  <2>1. faults' \in 0 .. MaxFaults
    BY <1>2, ClientConstants DEF TypeOK, StreamLost, Fault, ClientConstants
  <2>. QED
    BY <1>0, <1>2, <2>1, CloseTypes DEF TypeOK, StreamLost, nav
<1>. QED
  BY <1>1, <1>2

-----------------------------------------------------------------------------
(* The steps keep what is true whatever the page does at once.             *)

(* The rows and the histories of the runs only grow.                       *)
Grows == /\ created' \in Nat /\ created <= created'
         /\ \A r \in Runs : reached[r] \subseteq reached'[r]

LEMMA RowTypes ==
  ASSUME TypeOK PROVE created \in Nat /\ 1 .. created \subseteq Runs /\ created + 1 \in Nat
BY ClientConstants DEF TypeOK, ClientConstants, Runs

LEMMA StaysPlaced ==
  ASSUME NEW job, NEW n \in Nat, NEW m \in Nat, n <= m, Placed(job, n)
  PROVE  Placed(job, m)
BY DEF Placed

LEMMA StaysHonest ==
  ASSUME NEW job, NEW n \in Nat, NEW m \in Nat, n <= m, 1 .. n \subseteq Runs,
         NEW been, NEW later, \A r \in Runs : been[r] \subseteq later[r],
         Placed(job, n), Honest(job, n, been)
  PROVE  Honest(job, m, later)
<1>1. job.pc = "submit" => been[job.run] \subseteq later[job.run]
  BY DEF Placed
<1>. QED
  BY <1>1 DEF Honest

(* One operation takes a step: the others are as they were.                *)
LEMMA OneSteps ==
  ASSUME TypeOK, JobsPlaced, RepliesTrue, Grows, NEW j \in Jobs, NEW job,
         jobs' = [jobs EXCEPT ![j] = job], Placed(job, created'), Honest(job, created', reached')
  PROVE  JobsPlaced' /\ RepliesTrue'
<1>1. \A i \in Jobs : jobs'[i] = IF i = j THEN job ELSE jobs[i]
  BY DEF TypeOK
<1>2. ASSUME NEW i \in Jobs PROVE Placed(jobs[i], created') /\ Honest(jobs[i], created', reached')
  <2>1. Placed(jobs[i], created) /\ Honest(jobs[i], created, reached)
    BY DEF JobsPlaced, RepliesTrue
  <2>. QED
    BY <2>1, RowTypes, StaysPlaced, StaysHonest DEF Grows
<1>. QED
  BY <1>1, <1>2 DEF JobsPlaced, RepliesTrue

LEMMA NoneSteps ==
  ASSUME TypeOK, JobsPlaced, RepliesTrue, Grows, jobs' = jobs
  PROVE  JobsPlaced' /\ RepliesTrue'
<1>1. ASSUME NEW i \in Jobs PROVE Placed(jobs[i], created') /\ Honest(jobs[i], created', reached')
  <2>1. Placed(jobs[i], created) /\ Honest(jobs[i], created, reached)
    BY DEF JobsPlaced, RepliesTrue
  <2>. QED
    BY <2>1, RowTypes, StaysPlaced, StaysHonest DEF Grows
<1>. QED
  BY <1>1 DEF JobsPlaced, RepliesTrue

LEMMA Stands ==
  ASSUME TypeOK, UNCHANGED <<created, reached>>
  PROVE  Grows
BY RowTypes DEF Grows

(* A run that has got anywhere is a row.                                   *)
LEMMA MovingIsRow ==
  ASSUME TypeOK, ReachedTrue, NEW r \in Runs, state[r] # "WAITING_URL"
  PROVE  r \in 1 .. created
BY RowTypes, ClientConstants DEF ReachedTrue, Runs, ClientConstants

LEMMA MoveGrows ==
  ASSUME TypeOK, NEW r \in Runs, NEW s, Moves(r, s)
  PROVE  Grows
BY RowTypes DEF TypeOK, Moves, Grows

LEMMA MoveReached ==
  ASSUME TypeOK, ReachedTrue, NEW r \in 1 .. created, NEW s, Moves(r, s), Comes(r, s)
  PROVE  ReachedTrue'
<1>1. r \in Runs
  BY RowTypes
<1>2. ASSUME NEW x \in Runs, x # r
      PROVE  state'[x] = state[x] /\ reached'[x] = reached[x] /\ queue'[x] = queue[x]
  BY <1>2 DEF TypeOK, Moves
<1>3. state'[r] = s /\ reached'[r] = reached[r] \cup {s}
  BY <1>1 DEF TypeOK, Moves
<1>4. queue[r] \in Seq(Server!States) /\ s \in Server!States
  BY <1>1 DEF TypeOK, Comes
<1>5. Range(queue'[r]) \subseteq Range(queue[r]) \cup {s}
  <2>1. CASE queue' = queue
    BY <2>1
  <2>2. CASE queue' = [queue EXCEPT ![r] = Append(@, s)]
    BY <1>1, <1>4, <2>2, RangeAppend DEF TypeOK
  <2>. QED
    BY <2>1, <2>2 DEF Moves
<1>6. ~(r > created)
  BY RowTypes
<1>7. /\ "WAITING_URL" \in reached'[r] /\ state'[r] \in reached'[r]
      /\ Range(queue'[r]) \subseteq reached'[r] \ {"WAITING_URL"}
      /\ state'[r] # "WAITING_URL"
      /\ state'[r] = "WAITING_MODE" => reached'[r] \subseteq {"WAITING_URL", "WAITING_MODE"}
  BY <1>1, <1>3, <1>5 DEF ReachedTrue, Comes
<1>. QED
  BY <1>2, <1>6, <1>7 DEF ReachedTrue, Moves

LEMMA ReachedStands ==
  ASSUME TypeOK, ReachedTrue, UNCHANGED <<state, reached>>, created' \in Nat, created <= created',
         \A r \in Runs : Range(queue'[r]) \subseteq Range(queue[r])
  PROVE  ReachedTrue'
BY RowTypes, ClientConstants DEF ReachedTrue, Runs, ClientConstants

LEMMA QueueStands ==
  ASSUME queue' = queue
  PROVE  \A r \in Runs : Range(queue'[r]) \subseteq Range(queue[r])
BY DEF Range

LEMMA QueueCloses ==
  ASSUME TypeOK, NEW r, Close(r) 
  PROVE  \A x \in Runs : Range(queue'[x]) \subseteq Range(queue[x])
<1>1. ASSUME NEW x \in Runs PROVE queue'[x] = queue[x] \/ queue'[x] = << >>
  BY DEF Close, TypeOK
<1>2. Range(<< >>) = {}
  BY DEF Range
<1>. QED
  BY <1>1, <1>2

LEMMA QueueClears ==
  ASSUME TypeOK, ClearRun
  PROVE  \A x \in Runs : Range(queue'[x]) \subseteq Range(queue[x])
BY QueueCloses, QueueStands DEF ClearRun, StopSSE

LEMMA RunStays ==
  ASSUME TypeOK, OnARow, RunKnown, Grows, run' = run
  PROVE  OnARow' /\ RunKnown'
BY RowTypes DEF TypeOK, OnARow, RunKnown, Grows

LEMMA RunTold ==
  ASSUME TypeOK, OnARow, RunKnown, UNCHANGED <<created, reached>>,
         NEW r, NEW s \in reached[r], RunState(r, s)
  PROVE  OnARow' /\ RunKnown'
BY DEF TypeOK, OnARow, RunKnown, RunState

LEMMA RunGone == run' = Null => OnARow' /\ RunKnown'
BY DEF OnARow, RunKnown

LEMMA Answers ==
  ASSUME TypeOK, JobsPlaced, RepliesTrue, Grows, NEW j \in Jobs, NEW value, Answer(j, value),
         \/ value = "failed"
         \/ jobs[j].pc = "cancel"
         \/ /\ jobs[j].pc = "submit"
            /\ \/ value \in reached'[jobs[j].run] \ {"WAITING_URL"}
               \/ value = "reused" /\ "WAITING_MODE" \in reached'[jobs[j].run]
  PROVE  JobsPlaced' /\ RepliesTrue'
<1>. DEFINE job == [jobs[j] EXCEPT !.reply = value]
<1>1. jobs[j] \in JobRecord
  BY DEF TypeOK
<1>2. /\ job.kind = jobs[j].kind /\ job.pc = jobs[j].pc /\ job.run = jobs[j].run
      /\ job.gate = jobs[j].gate /\ job.target = jobs[j].target /\ job.reply = value
  BY <1>1 DEF JobRecord
<1>3. jobs' = [jobs EXCEPT ![j] = job]
  BY DEF Answer
<1>4. Placed(jobs[j], created')
  BY RowTypes, StaysPlaced DEF JobsPlaced, Grows
<1>5. Placed(job, created')
  BY <1>2, <1>4 DEF Placed
<1>6. Honest(job, created', reached')
  BY <1>2 DEF Honest
<1>. HIDE DEF job
<1>. QED
  BY <1>3, <1>5, <1>6, OneSteps

(* A gate that looks at who asks is passed by a request of its own step.   *)
Asked(r, s) ==
  s \in {"WAITING_MODE", "EXECUTING", "WAITING_UPLOAD_CONFIRM"} =>
    \E j \in Jobs : jobs[j].pc = "submit" /\ jobs[j].run = r /\ jobs[j].gate = state[r]

(* What a step of the server does to the runs.                             *)
RunMoves ==
  \E r \in 1 .. created, s \in Server!States :
    /\ Moves(r, s) /\ Comes(r, s) /\ Asked(r, s)
    /\ state[r] # "WAITING_URL" \/ \E j \in Jobs : jobs[j].pc \in {"cancel", "submit"} /\ jobs[j].run = r

LEMMA RunMovesBase ==
  ASSUME Base, RunMoves
  PROVE  Grows /\ ReachedTrue'
BY MoveGrows, MoveReached, RowTypes DEF RunMoves, Base

LEMMA MoveOfJob ==
  ASSUME JobsPlaced, NEW j \in Jobs, jobs[j].pc \in {"cancel", "submit"}
  PROVE  jobs[j].run \in 1 .. created
BY DEF JobsPlaced, Placed

LEMMA LeavePhaseDoes ==
  ASSUME Base, NEW r \in Runs, LeavePhase(r)
  PROVE  RunMoves /\ jobs' = jobs
<1>1. PICK e \in Server!PhaseEdge : state[r] = e[1] /\ Server!Move(r, e[2])
  BY DEF LeavePhase, Server!LeavePhase
<1>2. Comes(r, e[2]) /\ state[r] # "WAITING_URL" /\ Asked(r, e[2])
  BY <1>1 DEF Server!PhaseEdge, Server!States, Comes, Asked
<1>3. Moves(r, e[2])
  BY <1>1, <1>2, MovedTo DEF LeavePhase, Comes, Base
<1>4. r \in 1 .. created
  BY <1>2, MovingIsRow DEF Base
<1>. QED
  BY <1>2, <1>3, <1>4 DEF Comes, RunMoves, LeavePhase

LEMMA FailDoes ==
  ASSUME Base, NEW r \in Runs, Fail(r)
  PROVE  RunMoves /\ jobs' = jobs
<1>1. Comes(r, "ERROR") /\ state[r] # "WAITING_URL" /\ Asked(r, "ERROR")
  BY DEF Server!States, Comes, Asked, Fail, Server!Fail
<1>2. Moves(r, "ERROR")
  BY <1>1, MovedTo DEF Fail, Server!Fail, Comes, Base
<1>3. r \in 1 .. created
  BY <1>1, MovingIsRow DEF Base
<1>. QED
  BY <1>1, <1>2, <1>3 DEF Comes, RunMoves, Fail

LEMMA ServeCancelDoes ==
  ASSUME Base, NEW j \in Jobs, ServeCancel(j)
  PROVE  RunMoves /\ Answer(j, "CANCELLED") /\ jobs[j].pc = "cancel"
<1>1. jobs[j].run \in 1 .. created /\ jobs[j].pc = "cancel"
  BY MoveOfJob DEF ServeCancel, Base
<1>2. Moves(jobs[j].run, "CANCELLED") /\ Comes(jobs[j].run, "CANCELLED")
  BY ServeCancelMoves DEF Base
<1>3. Asked(jobs[j].run, "CANCELLED")
  BY DEF Asked
<1>. QED
  BY <1>1, <1>2, <1>3 DEF Comes, RunMoves, ServeCancel

LEMMA ServeGateDoes ==
  ASSUME Base, NEW j \in Jobs, ServeGate(j)
  PROVE  /\ RunMoves /\ jobs[j].pc = "submit"
         /\ \E value : /\ Answer(j, value)
                       /\ \/ value \in reached'[jobs[j].run] \ {"WAITING_URL"}
                          \/ value = "reused" /\ "WAITING_MODE" \in reached'[jobs[j].run]
<1>. DEFINE r == jobs[j].run
<1>0. /\ r \in 1 .. created /\ jobs[j].pc = "submit" /\ r \in Runs
  BY MoveOfJob, RowTypes DEF ServeGate, Base
<1>1. PICK e \in Server!UserEdge : state[r] = e[1] /\ Server!Move(r, e[2])
  BY DEF ServeGate, Server!PassGate
<1>2. /\ Comes(r, e[2])
      /\ e[1] = "WAITING_URL" => e[2] = "WAITING_MODE"
      /\ e[2] \in {"WAITING_MODE", "EXECUTING", "WAITING_UPLOAD_CONFIRM"} =>
           state[r] \in {"WAITING_URL", "WAITING_MODE", "WAITING_REVIEW_CLIPS"}
  BY <1>1 DEF Server!UserEdge, Server!States, Comes
<1>3. Moves(r, e[2]) /\ state'[r] = e[2]
  BY <1>0, <1>1, <1>2, MovedTo DEF ServeGate, Comes, Base
<1>4. Asked(r, e[2])
  BY <1>0, <1>2, OwnGateOnly DEF Asked, ServeGate
<1>5. e[2] \in reached'[r] \ {"WAITING_URL"}
  BY <1>0, <1>2, <1>3 DEF Base, TypeOK, Moves, Comes
<1>6. \/ Answer(j, e[2])
      \/ Answer(j, "reused") /\ e[2] = "WAITING_MODE"
  BY <1>1, <1>2, <1>3 DEF ServeGate
<1>. QED
  BY <1>0, <1>2, <1>3, <1>4, <1>5, <1>6 DEF Comes, RunMoves

LEMMA ServerBase ==
  ASSUME Base, ServerStep
  PROVE  JobsPlaced' /\ RepliesTrue' /\ ReachedTrue' /\ OnARow' /\ RunKnown'
<1>. USE DEF Base
<1>1. ASSUME NEW r \in Runs, LeavePhase(r) PROVE JobsPlaced' /\ RepliesTrue' /\ ReachedTrue' /\ OnARow' /\ RunKnown'
  BY <1>1, LeavePhaseDoes, RunMovesBase, NoneSteps, RunStays DEF LeavePhase, store
<1>2. ASSUME NEW r \in Runs, Fail(r) PROVE JobsPlaced' /\ RepliesTrue' /\ ReachedTrue' /\ OnARow' /\ RunKnown'
  BY <1>2, FailDoes, RunMovesBase, NoneSteps, RunStays DEF Fail, store
<1>3. ASSUME NEW j \in Jobs, ServeCreate(j) PROVE JobsPlaced' /\ RepliesTrue' /\ ReachedTrue' /\ OnARow' /\ RunKnown'
  <2>. DEFINE job == [jobs[j] EXCEPT !.reply = "created", !.run = created + 1]
  <2>1. Grows /\ created' \in Nat /\ created <= created' /\ created + 1 \in 1 .. created'
    BY <1>3, RowTypes DEF ServeCreate, Grows
  <2>2. jobs[j] \in JobRecord /\ jobs[j].pc = "create"
    BY <1>3 DEF TypeOK, ServeCreate
  <2>3. jobs' = [jobs EXCEPT ![j] = job]
    BY <1>3, <2>2 DEF ServeCreate, TypeOK, JobRecord
  <2>4. /\ job.kind = jobs[j].kind /\ job.pc = "create" /\ job.run = created + 1
        /\ job.gate = jobs[j].gate /\ job.target = jobs[j].target /\ job.reply = "created"
    BY <2>2 DEF JobRecord
  <2>5. Placed(job, created')
    <3>1. Placed(jobs[j], created)
      BY DEF JobsPlaced
    <3>. QED
      BY <2>2, <2>4, <3>1 DEF Placed
  <2>6. Honest(job, created', reached')
    BY <2>1, <2>4 DEF Honest
  <2>7. JobsPlaced' /\ RepliesTrue'
    <3>. HIDE DEF job
    <3>. QED
      BY <2>1, <2>3, <2>5, <2>6, OneSteps
  <2>. QED
    BY <1>3, <2>1, <2>7, QueueStands, ReachedStands, RunStays DEF ServeCreate, store
<1>4. ASSUME NEW j \in Jobs, ServeCancel(j) PROVE JobsPlaced' /\ RepliesTrue' /\ ReachedTrue' /\ OnARow' /\ RunKnown'
  <2>1. Grows /\ ReachedTrue' /\ Answer(j, "CANCELLED") /\ jobs[j].pc = "cancel"
    BY <1>4, ServeCancelDoes, RunMovesBase
  <2>. QED
    BY <1>4, <2>1, Answers, RunStays DEF ServeCancel, store
<1>5. ASSUME NEW j \in Jobs, ServeGate(j) PROVE JobsPlaced' /\ RepliesTrue' /\ ReachedTrue' /\ OnARow' /\ RunKnown'
  <2>1. Grows /\ ReachedTrue' /\ jobs[j].pc = "submit"
    BY <1>5, ServeGateDoes, RunMovesBase
  <2>2. JobsPlaced' /\ RepliesTrue'
    BY <1>5, <2>1, ServeGateDoes, Answers
  <2>. QED
    BY <1>5, <2>1, <2>2, RunStays DEF ServeGate, store
<1>6. ASSUME NEW j \in Jobs, ServeEnded(j) PROVE JobsPlaced' /\ RepliesTrue' /\ ReachedTrue' /\ OnARow' /\ RunKnown'
  <2>1. Grows /\ ReachedTrue' /\ OnARow' /\ RunKnown'
    BY <1>6, Stands, QueueStands, ReachedStands, RunStays, RowTypes DEF ServeEnded, server, store
  <2>2. jobs[j].run \in Runs /\ jobs[j].pc = "submit"
    BY <1>6, PlacedRun DEF ServeEnded
  <2>3. state[jobs[j].run] \in reached'[jobs[j].run] \ {"WAITING_URL"}
    BY <1>6, <2>2 DEF ServeEnded, AnsweredEnded, Terminal, ReachedTrue
  <2>. QED
    BY <1>6, <2>1, <2>2, <2>3, Answers DEF ServeEnded
<1>7. ASSUME NEW j \in Jobs, Refuse(j) PROVE JobsPlaced' /\ RepliesTrue' /\ ReachedTrue' /\ OnARow' /\ RunKnown'
  <2>1. Grows /\ ReachedTrue' /\ OnARow' /\ RunKnown'
    BY <1>7, Stands, QueueStands, ReachedStands, RunStays, RowTypes DEF Refuse, server, store
  <2>. QED
    BY <1>7, <2>1, Answers DEF Refuse
<1>. QED
  BY <1>1, <1>2, <1>3, <1>4, <1>5, <1>6, <1>7 DEF ServerStep

(* The operations when the server and its rows stand still.                *)
LEMMA StepsAlone ==
  ASSUME TypeOK, JobsPlaced, RepliesTrue, UNCHANGED <<created, reached>>, NEW j \in Jobs, NEW job,
         jobs' = [jobs EXCEPT ![j] = job], Placed(job, created), job.reply = Null
  PROVE  JobsPlaced' /\ RepliesTrue'
<1>1. Honest(job, created, reached)
  BY NullIsNothing DEF Honest
<1>. QED
  BY <1>1, Stands, OneSteps

LEMMA IdlePlaced ==
  /\ Idle.kind = "none" /\ Idle.pc = "idle" /\ Idle.reply = Null
  /\ \A n : Placed(Idle, n)
BY DEF Idle, Placed

(* A step of a handler, and its end.                                       *)
LEMMA StepAlone ==
  ASSUME TypeOK, JobsPlaced, RepliesTrue, UNCHANGED <<created, reached>>, NEW j \in Jobs,
         NEW job \in JobRecord, Step(j, job), Placed(job, created)
  PROVE  JobsPlaced' /\ RepliesTrue'
<1>. DEFINE after == [job EXCEPT !.reply = Null]
<1>1. /\ after.kind = job.kind /\ after.pc = job.pc /\ after.run = job.run
      /\ after.gate = job.gate /\ after.target = job.target /\ after.reply = Null
  BY DEF JobRecord
<1>2. Placed(after, created)
  BY <1>1 DEF Placed
<1>3. jobs' = [jobs EXCEPT ![j] = after]
  BY DEF Step
<1>. HIDE DEF after
<1>. QED
  BY <1>1, <1>2, <1>3, StepsAlone

LEMMA StoppedAlone ==
  ASSUME TypeOK, JobsPlaced, RepliesTrue, UNCHANGED <<created, reached>>, NEW j \in Jobs, Step(j, Idle)
  PROVE  JobsPlaced' /\ RepliesTrue'
BY IdlePlaced, IdleType, StepAlone

LEMMA UserBase ==
  ASSUME Base, UserStep
  PROVE  JobsPlaced' /\ RepliesTrue' /\ ReachedTrue' /\ OnARow' /\ RunKnown'
<1>. USE DEF Base
<1>0. UNCHANGED <<state, created, reached>>
  BY DEF UserStep, Start, Submit, Resubmit, Leave, NewPipeline, NavigateBack, ConfirmReuse, server, store
<1>a. ASSUME queue' = queue PROVE ReachedTrue'
  BY <1>0, <1>a, QueueStands, ReachedStands, RowTypes
<1>b. ASSUME ClearRun PROVE ReachedTrue' /\ OnARow' /\ RunKnown'
  <2>1. ReachedTrue'
    BY <1>0, <1>b, QueueClears, ReachedStands, RowTypes
  <2>2. run' = Null
    BY <1>b DEF ClearRun
  <2>. QED
    BY <2>1, <2>2, RunGone
<1>c. ASSUME run' = run PROVE OnARow' /\ RunKnown'
  BY <1>0, <1>c, Stands, RunStays
<1>d. ASSUME jobs' = jobs PROVE JobsPlaced' /\ RepliesTrue'
  BY <1>0, <1>d, Stands, NoneSteps
<1>1. ASSUME NEW j \in Jobs, Start(j)
      PROVE  JobsPlaced' /\ RepliesTrue' /\ ReachedTrue' /\ OnARow' /\ RunKnown'
  <2>. DEFINE job == [Idle EXCEPT !.kind = "start", !.pc = "create"]
  <2>1. Placed(job, created) /\ job.reply = Null
    BY DEF Idle, Placed
  <2>2. jobs' = [jobs EXCEPT ![j] = job]
    BY <1>1 DEF Start, Begin
  <2>3. JobsPlaced' /\ RepliesTrue'
    BY <1>0, <2>1, <2>2, StepsAlone
  <2>. QED
    BY <1>1, <1>a, <1>c, <2>3 DEF Start, server
<1>2. ASSUME NEW j \in Jobs, Submit(j)
      PROVE  JobsPlaced' /\ RepliesTrue' /\ ReachedTrue' /\ OnARow' /\ RunKnown'
  <2>. DEFINE job == [Idle EXCEPT !.kind = "submit", !.pc = "submit", !.run = run.id, !.gate = DisplayedState]
  <2>1. Placed(job, created) /\ job.reply = Null
    <3>1. DisplayedState \in Gates /\ run.id \in 1 .. created
      BY <1>2, SubmitGate DEF Submit, OnARow
    <3>. QED
      BY <3>1 DEF Idle, Placed
  <2>2. jobs' = [jobs EXCEPT ![j] = job]
    BY <1>2 DEF Submit, Begin
  <2>3. JobsPlaced' /\ RepliesTrue'
    BY <1>0, <2>1, <2>2, StepsAlone
  <2>. QED
    BY <1>2, <1>a, <1>c, <2>3 DEF Submit, server
<1>3. ASSUME NEW j \in Jobs, Resubmit(j)
      PROVE  JobsPlaced' /\ RepliesTrue' /\ ReachedTrue' /\ OnARow' /\ RunKnown'
  <2>. DEFINE job == [Idle EXCEPT !.kind = "resubmit", !.target = DisplayedState, !.saved = gateHistory]
              over == [job EXCEPT !.pc = "cancel", !.run = run.id]
              anew == [job EXCEPT !.pc = "create"]
  <2>0. DisplayedState \in Gates
    BY <1>3, SubmitGate
  <2>1. CASE run # Null /\ Begin(j, over) /\ UNCHANGED <<server, stream, store>>
    <3>1. Placed(over, created) /\ over.reply = Null
      BY <2>0, <2>1 DEF Idle, Placed, OnARow
    <3>2. jobs' = [jobs EXCEPT ![j] = over]
      BY <2>1 DEF Begin
    <3>3. JobsPlaced' /\ RepliesTrue'
      BY <1>0, <3>1, <3>2, StepsAlone
    <3>. QED
      BY <2>1, <1>a, <1>c, <3>3 DEF server, store
  <2>2. CASE Begin(j, anew) /\ ClearRun
    <3>1. Placed(anew, created) /\ anew.reply = Null
      BY <2>0 DEF Idle, Placed
    <3>2. jobs' = [jobs EXCEPT ![j] = anew]
      BY <2>2 DEF Begin
    <3>3. JobsPlaced' /\ RepliesTrue'
      BY <1>0, <3>1, <3>2, StepsAlone
    <3>. QED
      BY <2>2, <1>b, <3>3
  <2>. QED
    BY <1>3, <2>1, <2>2 DEF Resubmit
<1>4. ASSUME NEW j \in Jobs, Leave(j)
      PROVE  JobsPlaced' /\ RepliesTrue' /\ ReachedTrue' /\ OnARow' /\ RunKnown'
  <2>. DEFINE job == [Idle EXCEPT !.kind = "leave", !.pc = "cancel", !.run = run.id]
  <2>1. Placed(job, created) /\ job.reply = Null
    BY <1>4 DEF Idle, Placed, OnARow, Leave
  <2>2. jobs' = [jobs EXCEPT ![j] = job]
    BY <1>4 DEF Leave, Begin
  <2>3. JobsPlaced' /\ RepliesTrue'
    BY <1>0, <2>1, <2>2, StepsAlone
  <2>. QED
    BY <1>4, <1>a, <1>c, <2>3 DEF Leave, server, store
<1>5. CASE NewPipeline
  BY <1>5, <1>b, <1>d DEF NewPipeline
<1>6. CASE NavigateBack \/ ConfirmReuse
  BY <1>6, <1>a, <1>c, <1>d DEF NavigateBack, ConfirmReuse, server
<1>. QED
  BY <1>1, <1>2, <1>3, <1>4, <1>5, <1>6 DEF UserStep

LEMMA ContinueBase ==
  ASSUME Base, NEW j \in Jobs, Continue(j)
  PROVE  JobsPlaced' /\ RepliesTrue' /\ ReachedTrue' /\ OnARow' /\ RunKnown'
<1>. USE DEF Base
<1>0. UNCHANGED <<state, created, reached>> /\ jobs[j] \in JobRecord /\ Placed(jobs[j], created)
  BY DEF Continue, RunCreated, CreateFailed, Cancelled, GateAnswered, GateReached, GateTimeout, server,
         TypeOK, JobsPlaced
<1>a. ASSUME queue' = queue PROVE ReachedTrue'
  BY <1>0, <1>a, QueueStands, ReachedStands, RowTypes
<1>b. ASSUME ClearRun PROVE ReachedTrue' /\ OnARow' /\ RunKnown'
  <2>1. ReachedTrue'
    BY <1>0, <1>b, QueueClears, ReachedStands, RowTypes
  <2>2. run' = Null
    BY <1>b DEF ClearRun
  <2>. QED
    BY <2>1, <2>2, RunGone
<1>c. ASSUME run' = run PROVE OnARow' /\ RunKnown'
  BY <1>0, <1>c, Stands, RunStays
<1>d. ASSUME Step(j, Idle) PROVE JobsPlaced' /\ RepliesTrue'
  BY <1>0, <1>d, StoppedAlone
<1>e. ASSUME NEW from \in 0 .. 7, jobs[j].kind = "resubmit",
             Step(j, [jobs[j] EXCEPT !.pc = "wait", !.gate = NextGate(jobs[j], from)]),
             jobs[j].run \in 1 .. created
      PROVE  JobsPlaced' /\ RepliesTrue'
  <2>. DEFINE job == [jobs[j] EXCEPT !.pc = "wait", !.gate = NextGate(jobs[j], from)]
  <2>1. NextGate(jobs[j], from) \in Gates
    BY <1>0, <1>e, NextGateIsGate DEF Placed
  <2>2. job \in JobRecord /\ Placed(job, created)
    BY <1>0, <1>e, <2>1 DEF Placed, JobRecord
  <2>. QED
    BY <1>0, <1>e, <2>2, StepAlone
<1>1. CASE RunCreated(j)
  <2>1. jobs[j].run \in 1 .. created /\ jobs[j].pc = "create"
    BY <1>1 DEF RunCreated, Answered, RepliesTrue, Honest
  <2>2. OnARow' /\ RunKnown'
    BY <1>0, <1>1, <2>1, RowTypes DEF RunCreated, OnARow, RunKnown, ReachedTrue
  <2>3. CASE jobs[j].kind = "start"
    <3>. DEFINE job == [jobs[j] EXCEPT !.pc = "submit", !.gate = "WAITING_URL"]
    <3>1. job \in JobRecord /\ Placed(job, created)
      BY <1>0, <2>1, <2>3, GateFacts DEF Placed, JobRecord
    <3>2. Step(j, job)
      BY <1>1, <2>3 DEF RunCreated
    <3>. HIDE DEF job
    <3>. QED
      BY <1>0, <1>1, <1>a, <2>2, <3>1, <3>2, StepAlone DEF RunCreated, server
  <2>4. CASE jobs[j].kind # "start"
    <3>1. jobs[j].kind = "resubmit"
      BY <1>0, <2>1, <2>4 DEF Placed, JobRecord
    <3>. QED
      BY <1>1, <1>a, <1>e, <2>1, <2>2, <2>4, <3>1 DEF RunCreated, server
  <2>. QED
    BY <2>3, <2>4
<1>2. CASE CreateFailed(j)
  BY <1>2, <1>a, <1>c, <1>d DEF CreateFailed, server
<1>3. CASE Cancelled(j)
  <2>1. CASE jobs[j].kind = "leave"
    BY <1>3, <1>b, <1>d, <2>1 DEF Cancelled
  <2>2. CASE jobs[j].kind # "leave"
    <3>. DEFINE job == [jobs[j] EXCEPT !.pc = "create"]
    <3>1. jobs[j].kind = "resubmit"
      BY <1>0, <1>3, <2>2 DEF Placed, JobRecord, Cancelled, Answered
    <3>2. job \in JobRecord /\ Placed(job, created)
      BY <1>0, <3>1 DEF Placed, JobRecord
    <3>3. Step(j, job)
      BY <1>3, <2>2 DEF Cancelled
    <3>. HIDE DEF job
    <3>. QED
      BY <1>0, <1>3, <1>b, <3>2, <3>3, StepAlone DEF Cancelled
  <2>. QED
    BY <2>1, <2>2
<1>4. CASE GateAnswered(j)
  <2>1. jobs[j].run \in 1 .. created /\ jobs[j].pc = "submit" /\ jobs[j].gate \in Gates
    BY <1>0, <1>4 DEF GateAnswered, Answered, Placed
  <2>2. OnARow' /\ RunKnown'
    <3>1. CASE UNCHANGED run
      BY <3>1, <1>c
    <3>2. CASE jobs[j].reply # "failed" /\ RunState(jobs[j].run, Named(jobs[j]))
      <4>1. Named(jobs[j]) \in reached[jobs[j].run]
        BY <1>4, <3>2, AnswerNames DEF GateAnswered
      <4>. QED
        BY <1>0, <3>2, <4>1, RunTold
    <3>. QED
      BY <1>4, <3>1, <3>2, StoreAnswerDoes DEF GateAnswered
  <2>3. CASE jobs[j].kind \in {"start", "submit"}
    BY <1>4, <1>a, <1>d, <2>2, <2>3 DEF GateAnswered, server
  <2>4. CASE jobs[j].kind \notin {"start", "submit"}
    <3>1. jobs[j].kind = "resubmit"
      BY <1>0, <2>1, <2>4 DEF Placed, JobRecord
    <3>2. Index(jobs[j].gate) \in 0 .. 7
      BY <2>1, IndexFacts
    <3>. QED
      BY <1>4, <1>a, <1>e, <2>1, <2>2, <3>1, <3>2 DEF GateAnswered, server
  <2>. QED
    BY <2>3, <2>4
<1>5. CASE GateReached(j)
  <2>1. CASE jobs[j].gate = jobs[j].target
    BY <1>5, <1>a, <1>c, <1>d, <2>1 DEF GateReached, server
  <2>2. CASE jobs[j].gate # jobs[j].target
    <3>. DEFINE job == [jobs[j] EXCEPT !.pc = "submit"]
    <3>1. job \in JobRecord /\ Placed(job, created)
      BY <1>0, <1>5 DEF Placed, JobRecord, GateReached
    <3>2. Step(j, job)
      BY <1>5, <2>2 DEF GateReached
    <3>. HIDE DEF job
    <3>. QED
      BY <1>0, <1>5, <1>a, <1>c, <3>1, <3>2, StepAlone DEF GateReached, server
  <2>. QED
    BY <2>1, <2>2
<1>6. CASE GateTimeout(j)
  BY <1>6, <1>a, <1>c, <1>d DEF GateTimeout, server, store
<1>. QED
  BY <1>1, <1>2, <1>3, <1>4, <1>5, <1>6 DEF Continue

LEMMA StreamBase ==
  ASSUME Base, NEW r \in Runs, Deliver(r) \/ StreamLost(r)
  PROVE  JobsPlaced' /\ RepliesTrue' /\ ReachedTrue' /\ OnARow' /\ RunKnown'
<1>. USE DEF Base
<1>0. UNCHANGED <<state, created, reached, jobs>>
  BY DEF Deliver, StreamLost
<1>1. JobsPlaced' /\ RepliesTrue'
  BY <1>0, Stands, NoneSteps
<1>2. CASE Deliver(r)
  <2>1. PICK s \in Server!States :
           /\ s \in reached[r] \ {"WAITING_URL"}
           /\ RunState(r, s)
           /\ \/ Close(r)
              \/ queue' = [queue EXCEPT ![r] = Tail(@)] /\ queue[r] # <<>>
    BY <1>2, DeliverDoes
  <2>2. \A x \in Runs : Range(queue'[x]) \subseteq Range(queue[x])
    <3>1. CASE Close(r)
      BY <3>1, QueueCloses
    <3>2. CASE queue' = [queue EXCEPT ![r] = Tail(@)] /\ queue[r] # <<>>
      <4>1. Range(Tail(queue[r])) \subseteq Range(queue[r])
        BY <3>2, RangeHeadTail DEF TypeOK
      <4>. QED
        BY <3>2, <4>1 DEF TypeOK
    <3>. QED
      BY <2>1, <3>1, <3>2
  <2>. QED
    BY <1>0, <1>1, <2>1, <2>2, RunTold, ReachedStands, RowTypes
<1>3. CASE StreamLost(r)
  BY <1>0, <1>1, <1>3, QueueCloses, ReachedStands, Stands, RunStays, RowTypes DEF StreamLost
<1>. QED
  BY <1>2, <1>3

LEMMA BaseStep ==
  ASSUME Base, [Next]_vars
  PROVE  Base'
<1>1. CASE Next
  <2>1. ASSUME ServerStep, Remount PROVE Base'
    BY <2>1, ServerTypes, ServerBase DEF Base
  <2>2. ASSUME UserStep, Remount PROVE Base'
    BY <2>2, UserTypes, UserBase DEF Base
  <2>3. ASSUME NEW j \in Jobs, Continue(j), Remount PROVE Base'
    BY <2>3, ContinueTypes, ContinueBase DEF Base
  <2>4. ASSUME NEW r \in Runs, Deliver(r) \/ StreamLost(r), Remount PROVE Base'
    BY <2>4, StreamTypes, StreamBase DEF Base
  <2>. QED
    BY <1>1, <2>1, <2>2, <2>3, <2>4 DEF Next
<1>2. CASE UNCHANGED vars
  BY <1>2 DEF vars, server, store, nav, limits, Base, TypeOK, JobsPlaced, RepliesTrue, ReachedTrue,
              OnARow, RunKnown
<1>. QED
  BY <1>1, <1>2

LEMMA BaseInit == Init => Base
<1>. SUFFICES ASSUME Init PROVE Base
  OBVIOUS
<1>1. << >> \in Seq(Server!States) /\ Range(<< >>) = {}
  BY DEF Range
<1>2. TypeOK
  <2>1. /\ created \in 0 .. MaxRuns /\ started \in 0 .. MaxJobs /\ faults \in 0 .. MaxFaults
    BY ClientConstants DEF Init, ClientConstants
  <2>2. /\ state \in [Runs -> Server!States] /\ reached \in [Runs -> SUBSET Server!States]
    BY DEF Init, Server!Init, Server!States
  <2>3. /\ queue \in [Runs -> Seq(Server!States)] /\ navHistory \in Seq(Server!States)
    BY <1>1 DEF Init
  <2>4. jobs \in [Jobs -> JobRecord] /\ stream \in [Runs -> {"none", "open", "closed"}]
    BY IdleType DEF Init
  <2>. QED
    BY <2>1, <2>2, <2>3, <2>4 DEF Init, TypeOK
<1>3. JobsPlaced
  BY IdlePlaced DEF Init, JobsPlaced
<1>4. RepliesTrue
  BY IdlePlaced DEF Init, RepliesTrue, Honest
<1>5. ReachedTrue
  BY <1>1 DEF Init, Server!Init, ReachedTrue
<1>. QED
  BY <1>2, <1>3, <1>4, <1>5 DEF Init, OnARow, RunKnown, Base

(* Type correctness.                                                       *)
THEOREM TypeCorrect == Spec => []TypeOK
<1>1. Base => TypeOK
  BY DEF Base
<1>. QED
  BY BaseInit, BaseStep, <1>1, PTL DEF Spec

(* What the page shows is a state its run has been in: no answer to an     *)
(* operation on a run given up meanwhile, and no event of a stream left    *)
(* open, is taken for news of the run on the page.                         *)
THEOREM PageShowsItsRun == Spec => []RunKnown
<1>1. Base => RunKnown
  BY DEF Base
<1>. QED
  BY BaseInit, BaseStep, <1>1, PTL DEF Spec

-----------------------------------------------------------------------------
(* One run at a time: the steps of the server.                             *)

(* What a step of the server does to an operation.                         *)
JobsServed ==
  \A j \in Jobs :
    /\ jobs'[j].kind = jobs[j].kind /\ jobs'[j].pc = jobs[j].pc /\ jobs'[j].gate = jobs[j].gate
    /\ jobs[j].pc # "create" => jobs'[j].run = jobs[j].run
    /\ jobs[j].pc = "create" /\ jobs'[j].reply = "created" =>
         \/ jobs[j].reply = "created" /\ jobs'[j].run = jobs[j].run
         \/ jobs'[j].run \in Runs /\ jobs'[j].run > created

LEMMA AnswerServes ==
  ASSUME TypeOK, NEW j \in Jobs, NEW value, Answer(j, value),
         jobs[j].pc = "create" => value # "created"
  PROVE  JobsServed
<1>1. jobs[j] \in JobRecord /\ jobs'[j] = [jobs[j] EXCEPT !.reply = value]
  BY DEF TypeOK, Answer
<1>2. /\ jobs'[j].kind = jobs[j].kind /\ jobs'[j].pc = jobs[j].pc /\ jobs'[j].run = jobs[j].run
      /\ jobs'[j].gate = jobs[j].gate /\ jobs'[j].reply = value
  BY <1>1 DEF JobRecord
<1>3. \A i \in Jobs : i # j => jobs'[i] = jobs[i]
  BY DEF TypeOK, Answer
<1>. QED
  BY <1>2, <1>3 DEF JobsServed

LEMMA ServerDoes ==
  ASSUME Base, ServerStep
  PROVE  /\ UNCHANGED <<stream, run, navHistory, gateHistory, sseCleanup, overlapped>>
         /\ JobsServed
         /\ RunMoves \/ reached' = reached
<1>. USE DEF Base
<1>1. ASSUME NEW r \in Runs, LeavePhase(r)
      PROVE  /\ UNCHANGED <<stream, run, navHistory, gateHistory, sseCleanup, overlapped>>
             /\ JobsServed /\ RunMoves
  BY <1>1, LeavePhaseDoes DEF LeavePhase, store, nav, JobsServed
<1>2. ASSUME NEW r \in Runs, Fail(r)
      PROVE  /\ UNCHANGED <<stream, run, navHistory, gateHistory, sseCleanup, overlapped>>
             /\ JobsServed /\ RunMoves
  BY <1>2, FailDoes DEF Fail, store, nav, JobsServed
<1>3. ASSUME NEW j \in Jobs, ServeCreate(j)
      PROVE  /\ UNCHANGED <<stream, run, navHistory, gateHistory, sseCleanup, overlapped>>
             /\ JobsServed /\ reached' = reached
  <2>1. jobs[j] \in JobRecord /\ jobs'[j] = [jobs[j] EXCEPT !.reply = "created", !.run = created + 1]
    BY <1>3 DEF TypeOK, ServeCreate, JobRecord
  <2>2. /\ jobs'[j].kind = jobs[j].kind /\ jobs'[j].pc = jobs[j].pc /\ jobs'[j].run = created + 1
        /\ jobs'[j].gate = jobs[j].gate
    BY <2>1 DEF JobRecord
  <2>3. \A i \in Jobs : i # j => jobs'[i] = jobs[i]
    BY <1>3 DEF TypeOK, ServeCreate
  <2>4. created + 1 \in Runs /\ created + 1 > created
    BY <1>3, RowTypes, ClientConstants DEF ServeCreate, Runs, ClientConstants
  <2>. QED
    BY <1>3, <2>2, <2>3, <2>4 DEF ServeCreate, store, nav, JobsServed
<1>4. ASSUME NEW j \in Jobs, ServeCancel(j)
      PROVE  /\ UNCHANGED <<stream, run, navHistory, gateHistory, sseCleanup, overlapped>>
             /\ JobsServed /\ RunMoves
  BY <1>4, ServeCancelDoes, AnswerServes DEF ServeCancel, store, nav
<1>5. ASSUME NEW j \in Jobs, ServeGate(j)
      PROVE  /\ UNCHANGED <<stream, run, navHistory, gateHistory, sseCleanup, overlapped>>
             /\ JobsServed /\ RunMoves
  <2>1. RunMoves /\ jobs[j].pc = "submit" /\ \E value : Answer(j, value)
    BY <1>5, ServeGateDoes
  <2>. QED
    BY <1>5, <2>1, AnswerServes DEF ServeGate, store, nav
<1>6. ASSUME NEW j \in Jobs, ServeEnded(j)
      PROVE  /\ UNCHANGED <<stream, run, navHistory, gateHistory, sseCleanup, overlapped>>
             /\ JobsServed /\ reached' = reached
  BY <1>6, AnswerServes DEF ServeEnded, store, nav
<1>7. ASSUME NEW j \in Jobs, Refuse(j)
      PROVE  /\ UNCHANGED <<stream, run, navHistory, gateHistory, sseCleanup, overlapped>>
             /\ JobsServed /\ reached' = reached
  BY <1>7, AnswerServes DEF Refuse, store, nav
<1>. QED
  BY <1>1, <1>2, <1>3, <1>4, <1>5, <1>6, <1>7 DEF ServerStep

(* The histories of the server change in no other way.                     *)
LEMMA ServedReached ==
  ASSUME Base, ServerStep
  PROVE  \A r \in Runs : reached[r] \subseteq reached'[r]
BY ServerDoes, RunMovesBase DEF Grows

LEMMA ServerRecords ==
  ASSUME Base, OneRunAtATime, ServerStep
  PROVE  PassedIsRecorded'
<1>1. CASE reached' = reached
  BY <1>1, ServerDoes DEF OneRunAtATime, PassedIsRecorded
<1>2. CASE RunMoves
  <2>1. PICK r \in 1 .. created, s \in Server!States : Moves(r, s) /\ Comes(r, s) /\ Asked(r, s)
    BY <1>2 DEF RunMoves
  <2>2. r \in Runs
    BY RowTypes DEF Base
  <2>3. ASSUME NEW gate \in {"WAITING_URL", "WAITING_MODE", "WAITING_REVIEW_CLIPS"}, state[r] = gate,
               s \in {"WAITING_MODE", "EXECUTING", "WAITING_UPLOAD_CONFIRM"}
        PROVE  gate \in gateHistory
    <3>1. PICK j \in Jobs : jobs[j].pc = "submit" /\ jobs[j].run = r /\ jobs[j].gate = gate
      BY <2>1, <2>3 DEF Asked
    <3>2. gate = "WAITING_MODE" => reached[r] \subseteq {"WAITING_URL", "WAITING_MODE"}
      BY <2>2, <2>3 DEF Base, ReachedTrue
    <3>. QED
      BY <2>3, <3>1, <3>2 DEF OneRunAtATime, AskedIsRecorded
  <2>4. /\ s = "WAITING_MODE" => "WAITING_URL" \in gateHistory
        /\ s = "EXECUTING" => "WAITING_MODE" \in gateHistory
        /\ s = "WAITING_UPLOAD_CONFIRM" => "WAITING_REVIEW_CLIPS" \in gateHistory
    BY <2>1, <2>3 DEF Comes
  <2>5. /\ reached'[r] = reached[r] \cup {s}
        /\ \A x \in Runs : x # r => reached'[x] = reached[x]
    BY <2>1, <2>2 DEF Moves, Base, TypeOK
  <2>6. run # Null => run.id \in Runs
    BY DEF Base, TypeOK
  <2>7. run' = run /\ gateHistory' = gateHistory /\ PassedIsRecorded
    BY ServerDoes DEF OneRunAtATime
  <2>8. CASE run # Null /\ run.id = r
    BY <2>4, <2>5, <2>7, <2>8 DEF PassedIsRecorded
  <2>9. CASE run = Null \/ run.id # r
    BY <2>5, <2>6, <2>7, <2>9 DEF PassedIsRecorded
  <2>. QED
    BY <2>8, <2>9
<1>. QED
  BY <1>1, <1>2, ServerDoes

(* A run just created is not moved before its page is told of it.          *)
LEMMA ServerKeepsFresh ==
  ASSUME Base, OneRunAtATime, ServerStep, NEW j \in Jobs, jobs[j].pc = "create",
         jobs'[j].reply = "created"
  PROVE  reached'[jobs'[j].run] = {"WAITING_URL"}
<1>1. run = Null
  BY DEF OneRunAtATime, JobsOfTheRun
<1>2. ~(\E i \in Jobs : jobs[i].pc \in {"cancel", "submit"})
  BY <1>1 DEF OneRunAtATime, JobsOfTheRun
<1>3. PICK n \in Runs : n = jobs'[j].run /\ reached[n] = {"WAITING_URL"}
  <2>1. CASE jobs[j].reply = "created" /\ jobs'[j].run = jobs[j].run
    <3>1. jobs[j].run \in Runs
      BY <2>1, RowTypes DEF Base, RepliesTrue, Honest
    <3>. QED
      BY <2>1, <3>1 DEF OneRunAtATime, JobsOfTheRun
  <2>2. CASE jobs'[j].run \in Runs /\ jobs'[j].run > created
    BY <2>2 DEF Base, ReachedTrue
  <2>. QED
    BY <2>1, <2>2, ServerDoes DEF JobsServed
<1>4. CASE RunMoves
  <2>1. PICK r \in 1 .. created, s \in Server!States : Moves(r, s) /\ state[r] # "WAITING_URL"
    BY <1>2, <1>4 DEF RunMoves
  <2>2. r \in Runs /\ state[r] \in reached[r]
    BY RowTypes DEF Base, ReachedTrue
  <2>3. r # n
    BY <1>3, <2>1, <2>2
  <2>. QED
    BY <1>3, <2>1, <2>2, <2>3 DEF Moves, Base, TypeOK
<1>. QED
  BY <1>3, <1>4, ServerDoes

LEMMA ServerOneRun ==
  ASSUME Base, OneRunAtATime, ServerStep
  PROVE  OneRunAtATime'
<1>. USE DEF OneRunAtATime
<1>0. /\ UNCHANGED <<stream, run, navHistory, gateHistory, sseCleanup, overlapped>>
      /\ JobsServed
      /\ \A r \in Runs : reached[r] \subseteq reached'[r]
  BY ServerDoes, ServedReached
<1>1. Alone'
  BY <1>0 DEF Alone, JobsServed
<1>2. JobsOfTheRun'
  BY <1>0, ServerKeepsFresh DEF JobsOfTheRun, JobsServed
<1>3. StreamOfTheRun' /\ NavStarts'
  BY <1>0 DEF StreamOfTheRun, NavStarts
<1>4. AskedIsRecorded'
  <2>. SUFFICES ASSUME NEW j \in Jobs, jobs'[j].pc = "submit"
                PROVE  /\ jobs'[j].gate \in {"WAITING_URL", "WAITING_REVIEW_CLIPS"} => jobs'[j].gate \in gateHistory'
                       /\ jobs'[j].gate = "WAITING_MODE" =>
                            \/ "WAITING_MODE" \in gateHistory'
                            \/ ~(reached'[jobs'[j].run] \subseteq {"WAITING_URL", "WAITING_MODE"})
    BY DEF AskedIsRecorded
  <2>1. jobs[j].pc = "submit" /\ jobs'[j].run = jobs[j].run /\ jobs'[j].gate = jobs[j].gate
    BY <1>0 DEF JobsServed
  <2>2. jobs[j].run \in Runs
    BY <2>1, PlacedRun DEF Base
  <2>. QED
    BY <1>0, <2>1, <2>2 DEF AskedIsRecorded
<1>5. NavOfTheRun'
  BY <1>0 DEF NavOfTheRun, Base, TypeOK
<1>6. PassedIsRecorded'
  BY ServerRecords
<1>. QED
  BY <1>1, <1>2, <1>3, <1>4, <1>5, <1>6

-----------------------------------------------------------------------------
(* One run at a time: the buttons, the answers and the events.             *)

NoneInFlight == \A j \in Jobs : jobs[j].pc = "idle"

LEMMA OneJob ==
  ASSUME TypeOK, NEW j \in Jobs, NEW job, jobs' = [jobs EXCEPT ![j] = job]
  PROVE  jobs'[j] = job /\ \A i \in Jobs : i # j => jobs'[i] = jobs[i]
BY DEF TypeOK

LEMMA StepIs ==
  ASSUME TypeOK, NEW j \in Jobs, NEW job \in JobRecord, Step(j, job)
  PROVE  /\ jobs'[j].kind = job.kind /\ jobs'[j].pc = job.pc /\ jobs'[j].run = job.run
         /\ jobs'[j].gate = job.gate /\ jobs'[j].reply = Null
         /\ \A i \in Jobs : i # j => jobs'[i] = jobs[i]
<1>1. jobs'[j] = [job EXCEPT !.reply = Null] /\ \A i \in Jobs : i # j => jobs'[i] = jobs[i]
  BY DEF TypeOK, Step
<1>. QED
  BY <1>1 DEF JobRecord

LEMMA Stopped ==
  ASSUME TypeOK, NEW j \in Jobs, Step(j, Idle)
  PROVE  jobs'[j].pc = "idle" /\ \A i \in Jobs : i # j => jobs'[i] = jobs[i]
BY StepIs, IdleType, IdlePlaced

(* No stream is open once its run has been cleared.                        *)
LEMMA Cleared ==
  ASSUME TypeOK, StreamOfTheRun, ClearRun
  PROVE  StreamOfTheRun' /\ NavStarts' /\ NavOfTheRun' /\ PassedIsRecorded' /\ run' = Null
<1>1. run' = Null /\ Range(navHistory') = {}
  BY DEF ClearRun, Range
<1>2. ASSUME NEW r \in Runs PROVE stream'[r] # "open"
  <2>1. CASE sseCleanup = Null
    BY <2>1, NullIsNothing DEF StreamOfTheRun, ClearRun, StopSSE
  <2>2. CASE sseCleanup # Null
    BY <2>2 DEF StreamOfTheRun, ClearRun, StopSSE, Close, TypeOK
  <2>. QED
    BY <2>1, <2>2
<1>. QED
  BY <1>1, <1>2 DEF StreamOfTheRun, NavStarts, NavOfTheRun, PassedIsRecorded

(* Pushing a state the run on the page has been in.                        *)
LEMMA Pushed ==
  ASSUME TypeOK, NavOfTheRun, NEW s \in Server!States, Push(s), run # Null, run' # Null,
         run'.id = run.id, UNCHANGED reached, s \in reached[run.id]
  PROVE  NavOfTheRun'
<1>1. Range(navHistory') = Range(navHistory) \cup {s}
  BY RangeAppend DEF TypeOK, Push
<1>. QED
  BY <1>1 DEF NavOfTheRun

(* The displayed state is one of the history.                              *)
LEMMA DisplayedIsListed ==
  ASSUME TypeOK, DisplayedState # "WAITING_URL"
  PROVE  DisplayedState \in Range(navHistory)
BY DEF TypeOK, DisplayedState, Range

LEMMA BeginsAlone ==
  ASSUME Base, NEW j \in Jobs, NEW job, Begin(j, job), ~overlapped'
  PROVE  /\ \A i \in Jobs : jobs[i].pc # "idle" => jobs[i].kind = "submit"
         /\ job.kind # "submit" => NoneInFlight
         /\ job.kind = "start" => run = Null
<1>1. \A i \in Jobs : /\ jobs[i].kind \in {"none", "start", "submit", "resubmit", "leave"}
                      /\ jobs[i].kind = "none" <=> jobs[i].pc = "idle"
  BY DEF Base, TypeOK, JobsPlaced, Placed, JobRecord
<1>. QED
  BY <1>1 DEF Begin, InFlight, NoneInFlight

LEMMA UserOneRun ==
  ASSUME Base, OneRunAtATime, UserStep, ~overlapped'
  PROVE  OneRunAtATime'
<1>. USE DEF OneRunAtATime, Base
<1>0. UNCHANGED reached
  BY DEF UserStep, Start, Submit, Resubmit, Leave, NewPipeline, NavigateBack, ConfirmReuse
<1>1. ASSUME NEW j \in Jobs, Start(j) PROVE OneRunAtATime'
  <2>. DEFINE job == [Idle EXCEPT !.kind = "start", !.pc = "create"]
  <2>1. job.kind = "start" /\ job.pc = "create" /\ job.reply = Null
    BY DEF Idle
  <2>2. NoneInFlight /\ run = Null /\ jobs'[j] = job /\ \A i \in Jobs : i # j => jobs'[i] = jobs[i]
    BY <1>1, <2>1, BeginsAlone, OneJob DEF Start, Begin
  <2>. HIDE DEF job
  <2>3. UNCHANGED <<stream, run, navHistory, gateHistory, sseCleanup>>
    BY <1>1 DEF Start, server, nav
  <2>. QED
    BY <1>0, <2>1, <2>2, <2>3, NullIsNothing
       DEF NoneInFlight, Alone, JobsOfTheRun, StreamOfTheRun, NavStarts, AskedIsRecorded, NavOfTheRun,
           PassedIsRecorded
<1>2. ASSUME NEW j \in Jobs, Submit(j) PROVE OneRunAtATime'
  <2>. DEFINE job == [Idle EXCEPT !.kind = "submit", !.pc = "submit", !.run = run.id, !.gate = DisplayedState]
  <2>1. /\ job.kind = "submit" /\ job.pc = "submit" /\ job.run = run.id /\ job.gate = DisplayedState
    BY DEF Idle
  <2>2. /\ \A i \in Jobs : jobs[i].pc # "idle" => jobs[i].kind = "submit"
        /\ jobs'[j] = job /\ \A i \in Jobs : i # j => jobs'[i] = jobs[i]
    BY <1>2, BeginsAlone, OneJob DEF Submit, Begin
  <2>. HIDE DEF job
  <2>3. /\ UNCHANGED <<stream, run, navHistory, sseCleanup>> /\ run # Null
        /\ gateHistory' = gateHistory \cup Recorded(DisplayedState)
    BY <1>2 DEF Submit, server, nav
  <2>4. /\ DisplayedState # "WAITING_URL"
        /\ DisplayedState = "WAITING_REVIEW_CLIPS" => DisplayedState \in gateHistory'
    BY <1>2, <2>3 DEF Submit, Recorded
  <2>5. ASSUME DisplayedState = "WAITING_MODE"
        PROVE  \/ "WAITING_MODE" \in gateHistory'
               \/ ~(reached[run.id] \subseteq {"WAITING_URL", "WAITING_MODE"})
    <3>1. run.state # "WAITING_URL"
      BY <2>3, <2>5, DisplayedIsListed DEF NavStarts
    <3>2. run.state \in reached[run.id]
      BY <2>3 DEF RunKnown
    <3>3. run.state = "WAITING_MODE" => "WAITING_MODE" \in gateHistory'
      BY <2>3, <2>5 DEF Recorded
    <3>. QED
      BY <3>1, <3>2, <3>3
  <2>6. Alone' /\ JobsOfTheRun'
    BY <1>0, <2>1, <2>2, <2>3 DEF Alone, JobsOfTheRun
  <2>7. AskedIsRecorded'
    BY <1>0, <2>1, <2>2, <2>3, <2>4, <2>5 DEF AskedIsRecorded
  <2>. QED
    BY <1>0, <2>3, <2>6, <2>7 DEF StreamOfTheRun, NavStarts, NavOfTheRun, PassedIsRecorded
<1>3. ASSUME NEW j \in Jobs, Resubmit(j) PROVE OneRunAtATime'
  <2>. DEFINE job == [Idle EXCEPT !.kind = "resubmit", !.target = DisplayedState, !.saved = gateHistory]
              over == [job EXCEPT !.pc = "cancel", !.run = run.id]
              anew == [job EXCEPT !.pc = "create"]
  <2>1. CASE run # Null /\ Begin(j, over) /\ UNCHANGED <<server, stream, store>>
    <3>1. over.kind = "resubmit" /\ over.pc = "cancel" /\ over.run = run.id
      BY DEF Idle
    <3>2. NoneInFlight /\ jobs'[j] = over /\ \A i \in Jobs : i # j => jobs'[i] = jobs[i]
      BY <2>1, <3>1, BeginsAlone, OneJob DEF Begin
    <3>. HIDE DEF over
    <3>3. UNCHANGED <<stream, run, navHistory, gateHistory, sseCleanup>>
      BY <2>1 DEF store, nav
    <3>4. Alone' /\ JobsOfTheRun' /\ AskedIsRecorded'
      BY <2>1, <3>1, <3>2, <3>3 DEF NoneInFlight, Alone, JobsOfTheRun, AskedIsRecorded
    <3>. QED
      BY <1>0, <3>3, <3>4 DEF StreamOfTheRun, NavStarts, NavOfTheRun, PassedIsRecorded
  <2>2. CASE Begin(j, anew) /\ ClearRun
    <3>1. anew.kind = "resubmit" /\ anew.pc = "create" /\ anew.reply = Null
      BY DEF Idle
    <3>2. NoneInFlight /\ jobs'[j] = anew /\ \A i \in Jobs : i # j => jobs'[i] = jobs[i]
      BY <2>2, <3>1, BeginsAlone, OneJob DEF Begin
    <3>. HIDE DEF anew
    <3>3. StreamOfTheRun' /\ NavStarts' /\ NavOfTheRun' /\ PassedIsRecorded' /\ run' = Null
      BY <2>2, Cleared
    <3>4. Alone' /\ JobsOfTheRun' /\ AskedIsRecorded'
      BY <3>1, <3>2, <3>3, NullIsNothing DEF NoneInFlight, Alone, JobsOfTheRun, AskedIsRecorded
    <3>. QED
      BY <3>3, <3>4
  <2>. QED
    BY <1>3, <2>1, <2>2 DEF Resubmit
<1>4. ASSUME NEW j \in Jobs, Leave(j) PROVE OneRunAtATime'
  <2>. DEFINE job == [Idle EXCEPT !.kind = "leave", !.pc = "cancel", !.run = run.id]
  <2>1. job.kind = "leave" /\ job.pc = "cancel" /\ job.run = run.id
    BY DEF Idle
  <2>2. NoneInFlight /\ jobs'[j] = job /\ \A i \in Jobs : i # j => jobs'[i] = jobs[i]
    BY <1>4, <2>1, BeginsAlone, OneJob DEF Leave, Begin
  <2>. HIDE DEF job
  <2>3. UNCHANGED <<stream, run, navHistory, gateHistory, sseCleanup>> /\ run # Null
    BY <1>4 DEF Leave, store, nav
  <2>4. Alone' /\ JobsOfTheRun' /\ AskedIsRecorded'
    BY <2>1, <2>2, <2>3 DEF NoneInFlight, Alone, JobsOfTheRun, AskedIsRecorded
  <2>. QED
    BY <1>0, <2>3, <2>4 DEF StreamOfTheRun, NavStarts, NavOfTheRun, PassedIsRecorded
<1>5. CASE NewPipeline
  <2>1. NoneInFlight /\ jobs' = jobs /\ ClearRun
    BY <1>5 DEF NewPipeline, NoneInFlight
  <2>2. StreamOfTheRun' /\ NavStarts' /\ NavOfTheRun' /\ PassedIsRecorded' /\ run' = Null
    BY <2>1, Cleared
  <2>. QED
    BY <2>1, <2>2 DEF NoneInFlight, Alone, JobsOfTheRun, AskedIsRecorded
<1>6. CASE NavigateBack
  BY <1>0, <1>6 DEF NavigateBack, Alone, JobsOfTheRun, AskedIsRecorded, StreamOfTheRun, NavStarts, NavOfTheRun,
                    PassedIsRecorded
<1>7. CASE ConfirmReuse
  <2>1. UNCHANGED <<jobs, stream, run, gateHistory, sseCleanup>> /\ run # Null /\ Push(run.state)
    BY <1>7 DEF ConfirmReuse
  <2>2. run.state \in Server!States /\ run.state \in reached[run.id]
    BY <2>1 DEF TypeOK, RunKnown
  <2>3. NavOfTheRun'
    BY <1>0, <2>1, <2>2, Pushed
  <2>4. NavStarts'
    <3>1. Range(navHistory') = Range(navHistory) \cup {run.state}
      BY <2>1, <2>2, RangeAppend DEF TypeOK, Push
    <3>. QED
      BY <2>1, <3>1 DEF NavStarts
  <2>. QED
    BY <1>0, <2>1, <2>3, <2>4 DEF Alone, JobsOfTheRun, AskedIsRecorded, StreamOfTheRun, PassedIsRecorded
<1>. QED
  BY <1>1, <1>2, <1>3, <1>4, <1>5, <1>6, <1>7 DEF UserStep

(* The run on the page is told of a state past the URL, which is pushed    *)
(* or not.                                                                 *)
LEMMA Told ==
  ASSUME Base, OneRunAtATime, UNCHANGED <<reached, gateHistory>>, run # Null,
         NEW s \in Server!States \ {"WAITING_URL"}, s \in reached[run.id], RunState(run.id, s),
         Push(s) \/ UNCHANGED nav
  PROVE  /\ run' # Null /\ run'.id = run.id
         /\ NavStarts' /\ NavOfTheRun' /\ PassedIsRecorded'
<1>. USE DEF OneRunAtATime, Base
<1>1. run' = [run EXCEPT !.state = s] /\ run \in [id : Runs, state : Server!States]
  BY DEF RunState, TypeOK
<1>2. run' \in [id : Runs, state : Server!States] /\ run'.id = run.id /\ run'.state = s
  BY <1>1
<1>3. run' # Null
  BY <1>2, NullIsNothing
<1>4. NavOfTheRun'
  BY <1>2, <1>3, Pushed DEF NavOfTheRun, nav
<1>. QED
  BY <1>2, <1>3, <1>4 DEF NavStarts, PassedIsRecorded

LEMMA ContinueOneRun ==
  ASSUME Base, OneRunAtATime, NEW j \in Jobs, Continue(j)
  PROVE  OneRunAtATime'
<1>. USE DEF OneRunAtATime, Base
<1>0. UNCHANGED reached /\ jobs[j] \in JobRecord /\ Placed(jobs[j], created) /\ jobs[j].pc # "idle"
  BY DEF Continue, RunCreated, CreateFailed, Cancelled, GateAnswered, GateReached, GateTimeout,
         Answered, TypeOK, JobsPlaced
(* The operation ends, and the page shows what it showed.                  *)
<1>a. ASSUME Step(j, Idle), UNCHANGED <<stream, run, navHistory, sseCleanup>>,
             gateHistory \subseteq gateHistory'
      PROVE  OneRunAtATime'
  <2>1. jobs'[j].pc = "idle" /\ \A i \in Jobs : i # j => jobs'[i] = jobs[i]
    BY <1>a, Stopped
  <2>2. Alone' /\ JobsOfTheRun' /\ AskedIsRecorded'
    BY <1>0, <1>a, <2>1 DEF Alone, JobsOfTheRun, AskedIsRecorded
  <2>. QED
    BY <1>0, <1>a, <2>2 DEF StreamOfTheRun, NavStarts, NavOfTheRun, PassedIsRecorded
<1>b. jobs[j].kind # "submit" => \A i \in Jobs : i # j => jobs[i].pc = "idle"
  BY <1>0 DEF Alone
<1>1. CASE RunCreated(j)
  <2>1. /\ jobs[j].pc = "create" /\ jobs[j].reply = "created" /\ jobs[j].run \in Runs
        /\ reached[jobs[j].run] = {"WAITING_URL"} /\ run = Null
    BY <1>1, RowTypes DEF RunCreated, Answered, RepliesTrue, Honest, JobsOfTheRun
  <2>2. \A i \in Jobs : i # j => jobs[i].pc = "idle"
    BY <1>0, <1>b, <2>1 DEF Placed
  <2>3. /\ run'.id = jobs[j].run /\ run'.state = "WAITING_URL" /\ run' # Null
        /\ Range(navHistory') = {"WAITING_URL"}
    <3>1. run' = [id |-> jobs[j].run, state |-> "WAITING_URL"] /\ navHistory' = <<"WAITING_URL">>
      BY <1>1 DEF RunCreated
    <3>2. run' \in [id : Runs, state : Server!States]
      BY <2>1, <3>1 DEF Server!States
    <3>. QED
      BY <3>1, <3>2, NullIsNothing DEF Range
  <2>4. NavStarts' /\ NavOfTheRun' /\ PassedIsRecorded'
    BY <1>0, <2>1, <2>3 DEF NavStarts, NavOfTheRun, PassedIsRecorded
  <2>5. CASE jobs[j].kind = "start"
    <3>. DEFINE job == [jobs[j] EXCEPT !.pc = "submit", !.gate = "WAITING_URL"]
    <3>1. job \in JobRecord /\ job.kind = "start" /\ job.pc = "submit" /\ job.run = jobs[j].run
          /\ job.gate = "WAITING_URL"
      BY <1>0, <2>5, GateFacts DEF JobRecord
    <3>2. Step(j, job) /\ gateHistory' = gateHistory \cup {"WAITING_URL"}
          /\ UNCHANGED <<stream, sseCleanup>>
      BY <1>1, <2>5 DEF RunCreated
    <3>. HIDE DEF job
    <3>3. /\ jobs'[j].kind = "start" /\ jobs'[j].pc = "submit" /\ jobs'[j].run = jobs[j].run
          /\ jobs'[j].gate = "WAITING_URL"
          /\ \A i \in Jobs : i # j => jobs'[i] = jobs[i]
      BY <3>1, <3>2, StepIs
    <3>4. Alone' /\ JobsOfTheRun' /\ AskedIsRecorded'
      BY <2>2, <2>3, <3>2, <3>3 DEF Alone, JobsOfTheRun, AskedIsRecorded
    <3>5. StreamOfTheRun'
      BY <2>1, <3>2 DEF StreamOfTheRun
    <3>. QED
      BY <2>4, <3>4, <3>5
  <2>6. CASE jobs[j].kind # "start"
    <3>. DEFINE job == [jobs[j] EXCEPT !.pc = "wait", !.gate = NextGate(jobs[j], 0)]
    <3>1. Step(j, job) /\ SubscribeSSE(jobs[j].run)
      BY <1>1, <2>6 DEF RunCreated
    <3>2. jobs[j].target \in Gates
      BY <1>0, <2>1, <2>6 DEF Placed, JobRecord
    <3>3. NextGate(jobs[j], 0) \in Gates
      BY <3>2, NextGateIsGate
    <3>4. job \in JobRecord /\ job.pc = "wait" /\ job.run = jobs[j].run
      BY <1>0, <3>3 DEF JobRecord
    <3>. HIDE DEF job
    <3>5. jobs'[j].pc = "wait" /\ jobs'[j].run = jobs[j].run /\ \A i \in Jobs : i # j => jobs'[i] = jobs[i]
      BY <3>1, <3>4, StepIs
    <3>6. Alone' /\ JobsOfTheRun' /\ AskedIsRecorded'
      BY <2>2, <2>3, <3>5 DEF Alone, JobsOfTheRun, AskedIsRecorded
    <3>7. StreamOfTheRun'
      BY <2>1, <2>3, <3>1 DEF StreamOfTheRun, SubscribeSSE, TypeOK
    <3>. QED
      BY <2>4, <3>6, <3>7
  <2>. QED
    BY <2>5, <2>6
<1>2. CASE CreateFailed(j)
  BY <1>2, <1>a DEF CreateFailed, nav
<1>3. CASE Cancelled(j)
  <2>1. StreamOfTheRun' /\ NavStarts' /\ NavOfTheRun' /\ PassedIsRecorded' /\ run' = Null
    BY <1>3, Cleared DEF Cancelled
  <2>2. \A i \in Jobs : i # j => jobs[i].pc = "idle"
    BY <1>0, <1>3, <1>b DEF Placed, Cancelled, Answered
  <2>3. CASE jobs[j].kind = "leave"
    <3>1. jobs'[j].pc = "idle" /\ \A i \in Jobs : i # j => jobs'[i] = jobs[i]
      BY <1>3, <2>3, Stopped DEF Cancelled
    <3>. QED
      BY <2>1, <2>2, <3>1 DEF Alone, JobsOfTheRun, AskedIsRecorded
  <2>4. CASE jobs[j].kind # "leave"
    <3>. DEFINE job == [jobs[j] EXCEPT !.pc = "create"]
    <3>1. job \in JobRecord /\ job.pc = "create"
      BY <1>0 DEF JobRecord
    <3>2. Step(j, job)
      BY <1>3, <2>4 DEF Cancelled
    <3>. HIDE DEF job
    <3>3. jobs'[j].pc = "create" /\ jobs'[j].reply = Null /\ \A i \in Jobs : i # j => jobs'[i] = jobs[i]
      BY <3>1, <3>2, StepIs
    <3>. QED
      BY <2>1, <2>2, <3>3, NullIsNothing DEF Alone, JobsOfTheRun, AskedIsRecorded
  <2>. QED
    BY <2>3, <2>4
<1>4. CASE GateAnswered(j)
  <2>1. jobs[j].pc = "submit" /\ jobs[j].gate \in Gates /\ run # Null /\ run.id = jobs[j].run
        /\ jobs[j].run \in Runs /\ UNCHANGED gateHistory
    BY <1>0, <1>4, PlacedRun DEF GateAnswered, Answered, Placed, JobsOfTheRun
  <2>2. /\ run' # Null /\ run'.id = run.id
        /\ NavStarts' /\ NavOfTheRun' /\ PassedIsRecorded'
    <3>1. CASE UNCHANGED <<run, nav, pendingReuse>>
      BY <1>0, <2>1, <3>1 DEF nav, NavStarts, NavOfTheRun, PassedIsRecorded
    <3>2. CASE /\ jobs[j].reply # "failed"
               /\ RunState(jobs[j].run, Named(jobs[j]))
               /\ Push(Named(jobs[j])) \/ UNCHANGED nav
      <4>1. /\ Named(jobs[j]) \in Server!States
            /\ Named(jobs[j]) \in reached[jobs[j].run] \ {"WAITING_URL"}
        BY <1>4, <3>2, AnswerNames DEF GateAnswered
      <4>. QED
        BY <1>0, <2>1, <3>2, <4>1, Told
    <3>. QED
      BY <1>4, <3>1, <3>2, StoreAnswerDoes DEF GateAnswered
  <2>3. /\ \/ jobs'[j].pc = "idle"
           \/ jobs'[j].pc = "wait" /\ jobs'[j].run = jobs[j].run /\ jobs[j].kind # "submit"
        /\ \A i \in Jobs : i # j => jobs'[i] = jobs[i]
    <3>1. CASE jobs[j].kind \in {"start", "submit"}
      BY <1>4, <3>1, Stopped DEF GateAnswered
    <3>2. CASE jobs[j].kind \notin {"start", "submit"}
      <4>. DEFINE job == [jobs[j] EXCEPT !.pc = "wait", !.gate = NextGate(jobs[j], Index(jobs[j].gate))]
      <4>1. Step(j, job)
        BY <1>4, <3>2 DEF GateAnswered
      <4>2. jobs[j].target \in Gates /\ Index(jobs[j].gate) \in 0 .. 7
        BY <1>0, <2>1, <3>2, IndexFacts DEF Placed, JobRecord
      <4>3. NextGate(jobs[j], Index(jobs[j].gate)) \in Gates
        BY <4>2, NextGateIsGate
      <4>4. job \in JobRecord /\ job.pc = "wait" /\ job.run = jobs[j].run
        BY <1>0, <4>3 DEF JobRecord
      <4>. HIDE DEF job
      <4>. QED
        BY <3>2, <4>1, <4>4, StepIs
    <3>. QED
      BY <3>1, <3>2
  <2>4. Alone' /\ JobsOfTheRun' /\ AskedIsRecorded'
    BY <1>0, <1>b, <2>1, <2>2, <2>3 DEF Alone, JobsOfTheRun, AskedIsRecorded
  <2>5. StreamOfTheRun'
    <3>1. UNCHANGED <<stream, sseCleanup>> \/ SubscribeSSE(jobs[j].run)
      BY <1>4 DEF GateAnswered
    <3>. QED
      BY <2>1, <2>2, <3>1 DEF StreamOfTheRun, SubscribeSSE, TypeOK
  <2>. QED
    BY <2>2, <2>4, <2>5
<1>5. CASE GateReached(j)
  <2>1. /\ jobs[j].pc = "wait" /\ run # Null /\ run.state = jobs[j].gate
        /\ UNCHANGED <<stream, run, navHistory, sseCleanup>>
    BY <1>5 DEF GateReached, nav
  <2>2. CASE jobs[j].gate = jobs[j].target
    BY <1>5, <1>a, <2>1, <2>2 DEF GateReached
  <2>3. CASE jobs[j].gate # jobs[j].target
    <3>. DEFINE job == [jobs[j] EXCEPT !.pc = "submit"]
    <3>1. /\ job \in JobRecord /\ job.pc = "submit" /\ job.run = jobs[j].run
          /\ job.gate = jobs[j].gate
      BY <1>0 DEF JobRecord
    <3>2. Step(j, job) /\ gateHistory' = gateHistory \cup Recorded(jobs[j].gate)
      BY <1>5, <2>3 DEF GateReached
    <3>. HIDE DEF job
    <3>3. /\ jobs'[j].pc = "submit" /\ jobs'[j].run = jobs[j].run /\ jobs'[j].gate = jobs[j].gate
          /\ \A i \in Jobs : i # j => jobs'[i] = jobs[i]
      BY <3>1, <3>2, StepIs
    <3>4. \A i \in Jobs : i # j => jobs[i].pc = "idle"
      BY <1>0, <1>b, <2>1 DEF Placed
    <3>5. jobs[j].gate \in {"WAITING_URL", "WAITING_MODE", "WAITING_REVIEW_CLIPS"} =>
            jobs[j].gate \in gateHistory'
      BY <2>1, <3>2 DEF Recorded
    <3>6. Alone' /\ JobsOfTheRun' /\ AskedIsRecorded'
      BY <2>1, <3>3, <3>4, <3>5 DEF Alone, JobsOfTheRun, AskedIsRecorded
    <3>. QED
      BY <1>0, <2>1, <3>2, <3>6 DEF StreamOfTheRun, NavStarts, NavOfTheRun, PassedIsRecorded
  <2>. QED
    BY <2>2, <2>3
<1>6. CASE GateTimeout(j)
  BY <1>6, <1>a DEF GateTimeout, store, nav
<1>. QED
  BY <1>1, <1>2, <1>3, <1>4, <1>5, <1>6 DEF Continue

LEMMA StreamOneRun ==
  ASSUME Base, OneRunAtATime, NEW r \in Runs, Deliver(r) \/ StreamLost(r)
  PROVE  OneRunAtATime'
<1>. USE DEF OneRunAtATime, Base
<1>0. /\ UNCHANGED <<reached, jobs, gateHistory>>
      /\ stream[r] = "open" /\ run # Null /\ run.id = r
  BY DEF Deliver, StreamLost, StreamOfTheRun
<1>1. Alone'
  BY <1>0 DEF Alone
(* No other stream is open than the one that is closed.                    *)
<1>2. ASSUME Close(r) PROVE \A x \in Runs : stream'[x] # "open"
  BY <1>0, <1>2 DEF StreamOfTheRun, Close, TypeOK
<1>3. CASE Deliver(r)
  <2>1. PICK s \in Server!States :
           /\ s \in reached[r] \ {"WAITING_URL"} /\ RunState(r, s)
           /\ \/ Close(r) /\ UNCHANGED nav
              \/ (Push(s) \/ UNCHANGED nav) /\ UNCHANGED <<stream, sseCleanup>>
    BY <1>3, DeliverDoes
  <2>2. /\ run' # Null /\ run'.id = run.id
        /\ NavStarts' /\ NavOfTheRun' /\ PassedIsRecorded'
    BY <1>0, <2>1, Told
  <2>3. StreamOfTheRun'
    BY <1>2, <2>1, <2>2 DEF StreamOfTheRun
  <2>. QED
    BY <1>0, <1>1, <2>2, <2>3 DEF JobsOfTheRun, AskedIsRecorded
<1>4. CASE StreamLost(r)
  <2>1. UNCHANGED <<run, navHistory>> /\ Close(r)
    BY <1>4 DEF StreamLost, nav
  <2>. QED
    BY <1>0, <1>1, <1>2, <2>1
       DEF StreamOfTheRun, JobsOfTheRun, AskedIsRecorded, NavStarts, NavOfTheRun, PassedIsRecorded
<1>. QED
  BY <1>3, <1>4

(* Runs once begun over each other stay so.                                *)
LEMMA OverlappedStays == Next /\ overlapped => overlapped'
BY DEF Next, ServerStep, UserStep, Continue, LeavePhase, Fail, ServeCreate, ServeCancel, ServeGate,
       ServeEnded, Refuse, Start, Submit, Resubmit, Leave, Begin, NewPipeline, NavigateBack, ConfirmReuse,
       RunCreated, CreateFailed, Cancelled, GateAnswered, GateReached, GateTimeout, Deliver, StreamLost

LEMMA IInvInit == Init => IInv
<1>. SUFFICES ASSUME Init PROVE IInv
  OBVIOUS
<1>1. Range(navHistory) = {}
  BY DEF Init, Range
<1>2. Alone /\ JobsOfTheRun /\ AskedIsRecorded
  BY IdlePlaced DEF Init, Alone, JobsOfTheRun, AskedIsRecorded
<1>3. StreamOfTheRun /\ NavStarts /\ NavOfTheRun /\ PassedIsRecorded
  BY <1>1 DEF Init, StreamOfTheRun, NavStarts, NavOfTheRun, PassedIsRecorded
<1>. QED
  BY <1>2, <1>3, BaseInit DEF IInv, OneRunAtATime

LEMMA IInvStep ==
  ASSUME IInv, [Next]_vars
  PROVE  IInv'
<1>1. Base /\ Base'
  BY BaseStep DEF IInv
<1>2. ASSUME Next, ~overlapped' PROVE OneRunAtATime'
  <2>1. OneRunAtATime
    BY <1>2, OverlappedStays DEF IInv
  <2>. QED
    BY <1>1, <1>2, <2>1, ServerOneRun, UserOneRun, ContinueOneRun, StreamOneRun DEF Next
<1>3. ASSUME UNCHANGED vars, ~overlapped' PROVE OneRunAtATime'
  BY <1>3 DEF vars, server, store, nav, limits, IInv, OneRunAtATime, Alone, JobsOfTheRun, AskedIsRecorded,
              StreamOfTheRun, NavStarts, NavOfTheRun, PassedIsRecorded
<1>. QED
  BY <1>1, <1>2, <1>3 DEF IInv

(* As long as runs are not begun over each other, the steps one can walk   *)
(* back through are those of the run on the page: no event of the run      *)
(* before is pushed after clearRun.                                        *)
THEOREM StepsAreOfTheRun == Spec => []NavIsOfTheRun
<1>1. IInv => NavIsOfTheRun
  BY DEF IInv, OneRunAtATime, NavOfTheRun, NavIsOfTheRun
<1>. QED
  BY IInvInit, IInvStep, <1>1, PTL DEF Spec

(* What resubmitFromBacked replays is complete: a gate that only a request *)
(* of its own step can pass has been recorded when the run is past it,     *)
(* even if the event of the next state overtakes the answer.               *)
THEOREM ReplayIsComplete == Spec => []GatesRecorded
<1>1. IInv => GatesRecorded
  BY DEF IInv, OneRunAtATime, PassedIsRecorded, GatesRecorded, Server!UserEdge
<1>. QED
  BY IInvInit, IInvStep, <1>1, PTL DEF Spec
===============================================================================
