---------------------------- MODULE UploadQueue ----------------------------
(***************************************************************************)
(* The upload queue: confirming a run inserts a row of uploads for every   *)
(* selected clip, the queue endpoints schedule, retry and delete rows, and *)
(* the worker uploads the rows that are due.  The worker is a loop that    *)
(* makes one pass after another, and Upload Now starts an additional pass  *)
(* of its own.  A pass works from the rows it listed at its beginning.     *)
(*                                                                         *)
(* The database is opened with one connection: every statement is one      *)
(* step.  YouTube is external: an upload may fail, and one that succeeds   *)
(* adds a video.  A client that disconnects stops its request at the next  *)
(* statement.                                                              *)
(***************************************************************************)
EXTENDS Naturals, FiniteSets

CONSTANTS
  NumClips,     \* selected clips of the run, numbered in their order
  Keyed,        \* the selected clips whose id is also a key of table clips
  MaxRows,      \* row ids (bound)
  Confirmers,   \* concurrent upload confirmations
  Schedulers,   \* concurrent bulk-schedule and upload-now requests
  Loop,         \* the pass of the worker's loop
  Triggers,     \* additional passes alive at once (bound)
  MaxAsked,     \* how often a clip is queued or retried (bound)
  Aborts,       \* whether requests may be cut off
  MaxRestarts   \* server restarts (bound)

Clips == 1 .. NumClips
Ids == 1 .. MaxRows
Passes == {Loop} \cup Triggers

ASSUME ConstantsOK ==
  /\ NumClips \in Nat \ {0}
  /\ Keyed \subseteq Clips
  /\ MaxRows \in Nat
  /\ MaxAsked \in Nat
  /\ Aborts \in BOOLEAN
  /\ MaxRestarts \in Nat
  /\ Loop \notin Triggers

VARIABLES
  runState,   \* state of the pipeline run
  uploads,    \* the rows of uploads, a function from the ids in use
  videos,     \* videos[p][k] : videos of clip k that pass p has put on YouTube
  confirm,    \* confirmUpload requests in flight
  bulk,       \* bulk-schedule and upload-now requests in flight
  pass,       \* passes of the worker
  asked,      \* history: how often each clip was queued or retried
  stranded,   \* history: rows a restart left in status running
  restarts

requests == <<confirm, bulk>>
vars == <<runState, uploads, videos, confirm, bulk, pass, asked, stranded, restarts>>

Status == {"queued", "running", "uploaded", "error"}
Due == {"never", "later", "now"}  \* publish_at: NULL, in the future, reached

Row == [ clip : Clips, order : Clips, status : Status, due : Due,
         video : Clips \cup {0} ]    \* video: whose youtube_id, 0 for none
Item == [ id : Ids, clip : Clips, order : Clips ]

ConfirmRecord == [ pc : {"idle", "create", "schedule", "finish"},
                   clip : Clips, row : Ids \cup {0}, direct : BOOLEAN ]
BulkRecord == [ left : SUBSET Ids, trigger : BOOLEAN, busy : BOOLEAN ]
PassRecord == [ pc : {"rest", "list", "mark", "upload", "record", "fail"},
                items : SUBSET Item ]

NoConfirm == [pc |-> "idle", clip |-> 1, row |-> 0, direct |-> FALSE]
NoBulk == [left |-> {}, trigger |-> FALSE, busy |-> FALSE]
Resting == [pc |-> "rest", items |-> {}]

TypeOK ==
  /\ runState \in {"WAITING_UPLOAD_CONFIRM", "DONE", "CANCELLED"}
  /\ DOMAIN uploads \subseteq Ids
  /\ uploads \in [DOMAIN uploads -> Row]
  /\ videos \in [Passes -> [Clips -> Nat]]
  /\ confirm \in [Confirmers -> ConfirmRecord]
  /\ bulk \in [Schedulers -> BulkRecord]
  /\ pass \in [Passes -> PassRecord]
  /\ \A p \in Passes : pass[p].pc \in {"mark", "upload", "record", "fail"}
                         <=> pass[p].items # {}
  /\ asked \in [Clips -> 0 .. MaxAsked]
  /\ stranded \subseteq DOMAIN uploads
  /\ restarts \in 0 .. MaxRestarts

Init ==
  /\ runState = "WAITING_UPLOAD_CONFIRM"
  /\ uploads = [u \in {} |-> 0]
  /\ videos = [p \in Passes |-> [k \in Clips |-> 0]]
  /\ confirm = [c \in Confirmers |-> NoConfirm]
  /\ bulk = [b \in Schedulers |-> NoBulk]
  /\ pass = [p \in Passes |-> Resting]
  /\ asked = [k \in Clips |-> 0]
  /\ stranded = {}
  /\ restarts = 0

-----------------------------------------------------------------------------
(* Statements on the uploads table.  An UPDATE of an id that is not in the *)
(* table changes nothing.                                                  *)
Rows == DOMAIN uploads

UpdateStatus(u, st) ==
  /\ uploads' = IF u \in Rows THEN [uploads EXCEPT ![u].status = st] ELSE uploads
  /\ stranded' = stranded \ {u}

MarkCompleted(u, k) ==
  /\ uploads' = IF u \in Rows
                THEN [uploads EXCEPT ![u].status = "uploaded", ![u].video = k]
                ELSE uploads
  /\ stranded' = stranded \ {u}

SetSchedule(u, due) ==
  uploads' = IF u \in Rows THEN [uploads EXCEPT ![u].due = due] ELSE uploads

(* The key is an INTEGER PRIMARY KEY without AUTOINCREMENT: the next id is *)
(* one more than the greatest in the table, so ids are used again.         *)
NextId == CHOOSE u \in 1 .. MaxRows + 1 :
            /\ \A v \in Rows : v < u
            /\ u = 1 \/ u - 1 \in Rows

Listed(S) ==
  { [id |-> u, clip |-> uploads[u].clip, order |-> uploads[u].order] : u \in S }

(* mutants: the list without its condition on the status, and with the     *)
(* comparison of publish_at turned around                                  *)
DueUnfiltered == Listed({u \in Rows : uploads[u].due = "now"})
DueInFuture == Listed({u \in Rows : uploads[u].status = "queued" /\ uploads[u].due = "later"})

DueItems == Listed({u \in Rows : uploads[u].status = "queued" /\ uploads[u].due = "now"})

Queued == {u \in Rows : uploads[u].status = "queued"}

-----------------------------------------------------------------------------
(* confirmUpload: the clips one after the other, then the run.             *)
ConfirmUpload(c) ==
  /\ confirm[c].pc = "idle"
  /\ runState = "WAITING_UPLOAD_CONFIRM"
  /\ \E direct \in BOOLEAN :
       confirm' = [confirm EXCEPT ![c] =
                     [pc |-> "create", clip |-> 1, row |-> 0, direct |-> direct]]
  /\ UNCHANGED <<runState, uploads, videos, bulk, pass, asked, stranded, restarts>>

NextClip(c) ==
  IF confirm[c].clip = NumClips
  THEN [confirm[c] EXCEPT !.pc = "finish"]
  ELSE [confirm[c] EXCEPT !.pc = "create", !.clip = @ + 1]

(* uploads.clip_id REFERENCES clips(id): the row is inserted only if the   *)
(* id of the pipeline clip happens to be a key of clips as well.           *)
CreateQueued(c) ==
  LET k == confirm[c].clip IN
  /\ confirm[c].pc = "create"
  /\ k \in Keyed
  /\ NextId \in Ids
  /\ asked[k] < MaxAsked
  /\ uploads' = [u \in Rows \cup {NextId} |->
                   IF u = NextId
                   THEN [clip |-> k, order |-> k, status |-> "queued",
                         due |-> "never", video |-> 0]
                   ELSE uploads[u]]
  /\ asked' = [asked EXCEPT ![k] = @ + 1]
  /\ confirm' = [confirm EXCEPT ![c] =
                   IF confirm[c].direct
                   THEN [confirm[c] EXCEPT !.pc = "schedule", !.row = NextId]
                   ELSE NextClip(c)]
  /\ UNCHANGED <<runState, videos, bulk, pass, stranded, restarts>>

ScheduleDirect(c) ==
  /\ confirm[c].pc = "schedule"
  /\ SetSchedule(confirm[c].row, "now")
  /\ confirm' = [confirm EXCEPT ![c] = NextClip(c)]
  /\ UNCHANGED <<runState, videos, bulk, pass, asked, stranded, restarts>>

FinishConfirm(c) ==
  /\ confirm[c].pc = "finish"
  /\ runState' = IF runState = "WAITING_UPLOAD_CONFIRM" THEN "DONE" ELSE runState
  /\ confirm' = [confirm EXCEPT ![c] = NoConfirm]
  /\ UNCHANGED <<uploads, videos, bulk, pass, asked, stranded, restarts>>

(* The foreign key fails and so does the request: the rows inserted so far *)
(* stay.                                                                   *)
CreateFails(c) ==
  /\ confirm[c].pc = "create"
  /\ confirm[c].clip \notin Keyed
  /\ confirm' = [confirm EXCEPT ![c] = NoConfirm]
  /\ UNCHANGED <<runState, uploads, videos, bulk, pass, asked, stranded, restarts>>

(* A clip that cannot be copied, or a client that went away, likewise.     *)
ConfirmAborted(c) ==
  /\ Aborts
  /\ confirm[c].pc # "idle"
  /\ confirm' = [confirm EXCEPT ![c] = NoConfirm]
  /\ UNCHANGED <<runState, uploads, videos, bulk, pass, asked, stranded, restarts>>

CancelRun ==
  /\ runState = "WAITING_UPLOAD_CONFIRM"
  /\ runState' = "CANCELLED"
  /\ UNCHANGED <<uploads, videos, requests, pass, asked, stranded, restarts>>

-----------------------------------------------------------------------------
(* The queue endpoints.  None of them looks at the status of the row.      *)
PostSchedule(u) ==
  /\ u \in Rows
  /\ \E due \in {"later", "now"} : SetSchedule(u, due)
  /\ UNCHANGED <<runState, videos, requests, pass, asked, stranded, restarts>>

PostRetry(u) ==
  /\ u \in Rows
  /\ asked[uploads[u].clip] < MaxAsked
  /\ UpdateStatus(u, "queued")
  /\ asked' = [asked EXCEPT ![uploads[u].clip] = @ + 1]
  /\ UNCHANGED <<runState, videos, requests, pass, restarts>>

DeleteQueue(u) ==
  /\ u \in Rows
  /\ uploads' = [v \in Rows \ {u} |-> uploads[v]]
  /\ stranded' = stranded \ {u}
  /\ UNCHANGED <<runState, videos, requests, pass, asked, restarts>>

(* Bulk schedule and Upload Now list the rows first and write them one by  *)
(* one; Upload Now leaves alone the rows that were due and starts a pass   *)
(* (bound: it waits until one of Triggers is free).                        *)
PostBulkSchedule(b) ==
  /\ ~ bulk[b].busy
  /\ bulk' = [bulk EXCEPT ![b] = [left |-> Queued, trigger |-> FALSE, busy |-> TRUE]]
  /\ UNCHANGED <<runState, uploads, videos, confirm, pass, asked, stranded, restarts>>

PostUploadNow(b) ==
  /\ ~ bulk[b].busy
  /\ Triggers # {}
  /\ bulk' = [bulk EXCEPT ![b] =
                [left |-> {u \in Queued : uploads[u].due # "now"},
                 trigger |-> TRUE, busy |-> TRUE]]
  /\ UNCHANGED <<runState, uploads, videos, confirm, pass, asked, stranded, restarts>>

ScheduleNext(b) ==
  /\ \E u \in bulk[b].left :
       /\ \E due \in (IF bulk[b].trigger THEN {"now"} ELSE {"later", "now"}) :
            SetSchedule(u, due)
       /\ bulk' = [bulk EXCEPT ![b].left = @ \ {u}]
  /\ UNCHANGED <<runState, videos, confirm, pass, asked, stranded, restarts>>

(* The client went away: the remaining updates fail, which is ignored.     *)
BulkAborted(b) ==
  /\ Aborts
  /\ bulk[b].left # {}
  /\ bulk' = [bulk EXCEPT ![b].left = {}]
  /\ UNCHANGED <<runState, uploads, videos, confirm, pass, asked, stranded, restarts>>

BulkDone(b) ==
  /\ bulk[b].busy
  /\ bulk[b].left = {}
  /\ IF bulk[b].trigger
     THEN \E p \in Triggers : /\ pass[p].pc = "rest"
                              /\ pass' = [pass EXCEPT ![p].pc = "list"]
     ELSE UNCHANGED pass
  /\ bulk' = [bulk EXCEPT ![b] = NoBulk]
  /\ UNCHANGED <<runState, uploads, videos, confirm, asked, stranded, restarts>>

(* publish_at is reached *)
TimePasses(u) ==
  /\ u \in Rows
  /\ uploads[u].due = "later"
  /\ SetSchedule(u, "now")
  /\ UNCHANGED <<runState, videos, requests, pass, asked, stranded, restarts>>

-----------------------------------------------------------------------------
(* runOnce *)
Tick ==
  /\ pass[Loop].pc = "rest"
  /\ pass' = [pass EXCEPT ![Loop].pc = "list"]
  /\ UNCHANGED <<runState, uploads, videos, requests, asked, stranded, restarts>>

ListDueForUpload(p) ==
  /\ pass[p].pc = "list"
  /\ pass' = [pass EXCEPT ![p] =
                [pc |-> IF DueItems = {} THEN "rest" ELSE "mark", items |-> DueItems]]
  /\ UNCHANGED <<runState, uploads, videos, requests, asked, stranded, restarts>>

(* The items are worked on in queue order. *)
Precedes(i, j) == i.order < j.order \/ (i.order = j.order /\ i.id <= j.id)
Current(p) == CHOOSE i \in pass[p].items : \A j \in pass[p].items : Precedes(i, j)

Advance(p) ==
  LET rest == pass[p].items \ {Current(p)} IN
  pass' = [pass EXCEPT ![p] = [pc |-> IF rest = {} THEN "rest" ELSE "mark", items |-> rest]]

MarkRunning(p) ==
  /\ pass[p].pc = "mark"
  /\ UpdateStatus(Current(p).id, "running")
  /\ pass' = [pass EXCEPT ![p].pc = "upload"]
  /\ UNCHANGED <<runState, videos, requests, asked, restarts>>

(* YouTubeUploader.Upload: the video is that of the item, as it was listed. *)
Upload(p) ==
  /\ pass[p].pc = "upload"
  /\ \/ /\ videos' = [videos EXCEPT ![p][Current(p).clip] = @ + 1]
        /\ pass' = [pass EXCEPT ![p].pc = "record"]
     \/ /\ pass' = [pass EXCEPT ![p].pc = "fail"]
        /\ UNCHANGED videos
  /\ UNCHANGED <<runState, uploads, requests, asked, stranded, restarts>>

Record(p) ==
  /\ pass[p].pc = "record"
  /\ MarkCompleted(Current(p).id, Current(p).clip)
  /\ Advance(p)
  /\ UNCHANGED <<runState, videos, requests, asked, restarts>>

(* mutant: the failure is logged and not written *)
FailSilently(p) ==
  /\ pass[p].pc = "fail"
  /\ Advance(p)
  /\ UNCHANGED <<runState, uploads, videos, requests, asked, stranded, restarts>>

MarkError(p) ==
  /\ pass[p].pc = "fail"
  /\ UpdateStatus(Current(p).id, "error")
  /\ Advance(p)
  /\ UNCHANGED <<runState, videos, requests, asked, restarts>>

(* The server dies and comes back; the worker lists again at startup.      *)
Restart ==
  /\ restarts < MaxRestarts
  /\ restarts' = restarts + 1
  /\ confirm' = [c \in Confirmers |-> NoConfirm]
  /\ bulk' = [b \in Schedulers |-> NoBulk]
  /\ pass' = [p \in Passes |-> Resting]
  /\ stranded' = {u \in Rows : uploads[u].status = "running"}
  /\ UNCHANGED <<runState, uploads, videos, asked>>

-----------------------------------------------------------------------------
Work(p) ==
  ListDueForUpload(p) \/ MarkRunning(p) \/ Upload(p) \/ Record(p) \/ MarkError(p)

Confirming(c) ==
  CreateQueued(c) \/ CreateFails(c) \/ ScheduleDirect(c) \/ FinishConfirm(c)

Scheduling(b) ==
  PostBulkSchedule(b) \/ PostUploadNow(b) \/ ScheduleNext(b)
  \/ BulkAborted(b) \/ BulkDone(b)

Next ==
  \/ \E c \in Confirmers : ConfirmUpload(c) \/ Confirming(c) \/ ConfirmAborted(c)
  \/ \E b \in Schedulers : Scheduling(b)
  \/ \E u \in Ids : PostSchedule(u) \/ PostRetry(u) \/ DeleteQueue(u) \/ TimePasses(u)
  \/ \E p \in Passes : Work(p)
  \/ CancelRun
  \/ Tick
  \/ Restart

Spec == Init /\ [][Next]_vars

(* The ticker keeps ticking, an upload ends one way or the other, and a    *)
(* handler that can go on does.                                            *)
FairSpec ==
  /\ Spec
  /\ WF_vars(Tick)
  /\ \A p \in Passes : WF_vars(Work(p))
  /\ \A c \in Confirmers : WF_vars(Confirming(c))

-----------------------------------------------------------------------------
(* Properties *)

Worked(u) ==
  \E p \in Passes : pass[p].pc \in {"upload", "record", "fail"} /\ Current(p).id = u

(* A row that shows running is being uploaded by some pass, or it is one   *)
(* that a restart left behind: no order of retries, deletions, overlapping *)
(* passes and rows that inherit an id leaves a row running by itself.      *)
RunningIsWorked ==
  \A u \in Rows : uploads[u].status = "running" => Worked(u) \/ u \in stranded

Ledger == INSTANCE UploadLedger WITH Publishers <- Passes, run <- runState

(* The queue keeps the ledger: whatever rows are deleted, retried or given *)
(* an id used before while a pass holds its list, and however many passes  *)
(* overlap, none publishes a clip more often than it was queued or         *)
(* retried.  The loop alone therefore publishes once; two passes that have *)
(* listed the same row both publish it, and that is the worst they do.     *)
ImplementsLedger == Ledger!Spec

(* A row that is queued and due does not wait for ever: some pass takes    *)
(* it up, or the user takes it away.                                       *)
Waiting(u) == u \in Rows /\ uploads[u].status = "queued" /\ uploads[u].due = "now"
DueIsTried == \A u \in Ids : Waiting(u) ~> ~ Waiting(u)

(* An upload that shows running ends, unless a restart stranded the row.   *)
Running(u) == u \in Rows /\ uploads[u].status = "running"
RunningEnds == \A u \in Ids : Running(u) ~> ~ Running(u) \/ u \in stranded
=============================================================================
