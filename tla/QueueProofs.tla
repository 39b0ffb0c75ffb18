----------------------------- MODULE QueueProofs -----------------------------
(***************************************************************************)
(* Proofs about the upload queue.  First the server's (UploadQueue), for   *)
(* every number of clips, rows, requests, passes and restarts.  Then its   *)
(* page (QueuePage), for every number of rows, times, requests in flight,  *)
(* gestures and failures.  The two models stand side by side: no theorem   *)
(* is about both.                                                          *)
(***************************************************************************)
EXTENDS UploadQueue, QueuePage, RangeFacts, FiniteSetTheorems, WellFoundedInduction

(* The item a pass works on is one of its items: they have an order.       *)
First(S) == CHOOSE i \in S : \A j \in S : Precedes(i, j)

LEMMA LeastNumber ==
  ASSUME NEW T, T \subseteq Nat, T # {}
  PROVE  \E m \in T : \A n \in T : m <= n
<1>1. PICK m \in T : \A n \in T : ~ (<<n, m>> \in OpToRel(<, Nat))
  BY NatLessThanWellFounded, WFMin
<1>2. ASSUME NEW n \in T PROVE m <= n
  <2>1. m \in Nat /\ n \in Nat /\ <<n, m>> \in Nat \X Nat
    OBVIOUS
  <2>2. ~ (n < m)
    BY <1>1, <2>1 DEF OpToRel
  <2>. QED
    BY <2>1, <2>2
<1>. QED
  BY <1>2

LEMMA FirstIn == ASSUME NEW S, S \subseteq Item, S # {} PROVE First(S) \in S
<1>. DEFINE orders == {i.order : i \in S}
<1>1. \A i \in S : i.order \in Nat /\ i.id \in Nat
  BY DEF Item, Clips, Ids
<1>2. PICK o \in orders : \A n \in orders : o <= n
  BY <1>1, LeastNumber
<1>. DEFINE ids == {i.id : i \in {j \in S : j.order = o}}
<1>3. ids \subseteq Nat /\ ids # {}
  BY <1>1, <1>2
<1>. HIDE DEF ids
<1>4. PICK d \in ids : \A n \in ids : d <= n
  BY <1>3, LeastNumber
<1>5. PICK i \in S : i.order = o /\ i.id = d
  BY <1>4 DEF ids
<1>6. ASSUME NEW j \in S PROVE Precedes(i, j)
  <2>1. o <= j.order /\ o \in Nat /\ j.order \in Nat
    BY <1>1, <1>2
  <2>2. j.order = o => d <= j.id
    BY <1>4 DEF ids
  <2>. QED
    BY <1>5, <2>1, <2>2 DEF Precedes
<1>. QED
  BY <1>6 DEF First

LEMMA CurrentIsFirst == ASSUME NEW p PROVE Current(p) = First(pass[p].items)
BY DEF Current, First

LEMMA CurrentIn ==
  ASSUME TypeOK, NEW p \in Passes, pass[p].items # {}
  PROVE  Current(p) \in pass[p].items /\ Current(p) \in Item
BY CurrentIsFirst, FirstIn DEF TypeOK, PassRecord

-----------------------------------------------------------------------------
(* Types. *)

RowsTyped == DOMAIN uploads \subseteq Ids /\ uploads \in [DOMAIN uploads -> Row]

(* What the statements do to the rows.                                     *)
LEMMA StatusWritten ==
  ASSUME RowsTyped, NEW u, NEW st \in Status, UpdateStatus(u, st)
  PROVE  /\ RowsTyped' /\ Rows' = Rows
         /\ \A v \in Rows : /\ uploads'[v].clip = uploads[v].clip
                            /\ v # u => uploads'[v] = uploads[v]
                            /\ v = u => uploads'[v].status = st
BY DEF RowsTyped, UpdateStatus, Rows, Row

LEMMA CompletedWritten ==
  ASSUME RowsTyped, NEW u, NEW k \in Clips, MarkCompleted(u, k)
  PROVE  /\ RowsTyped' /\ Rows' = Rows
         /\ \A v \in Rows : /\ uploads'[v].clip = uploads[v].clip
                            /\ v # u => uploads'[v] = uploads[v]
                            /\ v = u => uploads'[v].status = "uploaded"
BY DEF RowsTyped, MarkCompleted, Rows, Row, Status

LEMMA ScheduleWritten ==
  ASSUME RowsTyped, NEW u, NEW due \in Due, SetSchedule(u, due)
  PROVE  /\ RowsTyped' /\ Rows' = Rows
         /\ \A v \in Rows : /\ uploads'[v].clip = uploads[v].clip
                            /\ uploads'[v].status = uploads[v].status
BY DEF RowsTyped, SetSchedule, Rows, Row

LEMMA RowCreated ==
  ASSUME RowsTyped, NEW c, CreateQueued(c), confirm[c].clip \in Clips
  PROVE  /\ RowsTyped' /\ Rows' = Rows \cup {NextId} /\ NextId \in Ids
         /\ \A v \in Rows : v # NextId => uploads'[v] = uploads[v]
         /\ uploads'[NextId].status = "queued"
         /\ uploads'[NextId].clip = confirm[c].clip
<1>. DEFINE new == [clip |-> confirm[c].clip, order |-> confirm[c].clip,
                    status |-> "queued", due |-> "never", video |-> 0]
<1>1. new \in Row
  BY DEF Row, Status, Due
<1>2. /\ NextId \in Ids
      /\ uploads' = [u \in Rows \cup {NextId} |-> IF u = NextId THEN new ELSE uploads[u]]
  BY DEF CreateQueued
<1>3. new.status = "queued" /\ new.clip = confirm[c].clip
  OBVIOUS
<1>. HIDE DEF new
<1>. QED
  BY <1>1, <1>2, <1>3 DEF RowsTyped, Rows

LEMMA RowDeleted ==
  ASSUME RowsTyped, NEW u, DeleteQueue(u)
  PROVE  /\ RowsTyped' /\ Rows' = Rows \ {u}
         /\ \A v \in Rows' : uploads'[v] = uploads[v]
BY DEF RowsTyped, DeleteQueue, Rows

PassTyped ==
  /\ pass \in [Passes -> PassRecord]
  /\ \A p \in Passes : pass[p].pc \in {"mark", "upload", "record", "fail"}
                         <=> pass[p].items # {}

LEMMA TypeParts ==
  TypeOK <=> /\ runState \in {"WAITING_UPLOAD_CONFIRM", "DONE", "CANCELLED"}
             /\ RowsTyped
             /\ videos \in [Passes -> [Clips -> Nat]]
             /\ confirm \in [Confirmers -> ConfirmRecord]
             /\ bulk \in [Schedulers -> BulkRecord]
             /\ PassTyped
             /\ asked \in [Clips -> 0 .. MaxAsked]
             /\ stranded \subseteq Rows
             /\ restarts \in 0 .. MaxRestarts
BY DEF TypeOK, RowsTyped, PassTyped, Rows

LEMMA InitTyped == Init => TypeOK
<1>1. 1 \in Clips /\ 0 \in 0 .. MaxAsked /\ 0 \in 0 .. MaxRestarts
  BY ConstantsOK DEF ConstantsOK, Clips
<1>2. NoConfirm \in ConfirmRecord /\ NoBulk \in BulkRecord /\ Resting \in PassRecord
  BY <1>1 DEF NoConfirm, ConfirmRecord, NoBulk, BulkRecord, Resting, PassRecord
<1>. QED
  BY <1>1, <1>2 DEF Init, TypeOK, Resting

LEMMA NextClipTyped ==
  ASSUME TypeOK, NEW c \in Confirmers
  PROVE  /\ confirm[c].clip \in Clips /\ NextClip(c) \in ConfirmRecord
         /\ confirm[c].clip # NumClips => confirm[c].clip + 1 \in Clips
<1>1. confirm[c] \in ConfirmRecord
  BY DEF TypeOK
<1>2. confirm[c].clip # NumClips => confirm[c].clip + 1 \in Clips
  BY <1>1, ConstantsOK DEF ConfirmRecord, Clips, ConstantsOK
<1>. QED
  BY <1>1, <1>2 DEF NextClip, ConfirmRecord

LEMMA ConfirmTyped ==
  ASSUME TypeOK, NEW c \in Confirmers, ConfirmUpload(c) \/ Confirming(c) \/ ConfirmAborted(c)
  PROVE  TypeOK'
<1>1. /\ RowsTyped /\ stranded \subseteq Rows /\ PassTyped /\ confirm[c] \in ConfirmRecord
      /\ confirm[c].clip \in Clips /\ NextClip(c) \in ConfirmRecord
  BY NextClipTyped, TypeParts DEF TypeOK
<1>2. NoConfirm \in ConfirmRecord /\ 1 \in Clips
  BY ConstantsOK DEF NoConfirm, ConfirmRecord, Clips, ConstantsOK
<1>3. CASE ConfirmUpload(c)
  <2>1. \A d \in BOOLEAN : [pc |-> "create", clip |-> 1, row |-> 0, direct |-> d] \in ConfirmRecord
    BY <1>2 DEF ConfirmRecord
  <2>. QED
    BY <1>3, <2>1 DEF ConfirmUpload, TypeOK
<1>4. CASE CreateQueued(c)
  <2>1. RowsTyped' /\ Rows' = Rows \cup {NextId} /\ NextId \in Ids
    BY <1>1, <1>4, RowCreated
  <2>2. asked' \in [Clips -> 0 .. MaxAsked]
    <3>1. asked[confirm[c].clip] + 1 \in 0 .. MaxAsked
      BY <1>1, <1>4, ConstantsOK DEF CreateQueued, TypeOK, ConstantsOK
    <3>. QED
      BY <1>1, <1>4, <3>1 DEF CreateQueued, TypeOK
  <2>3. confirm' \in [Confirmers -> ConfirmRecord]
    <3>1. [confirm[c] EXCEPT !.pc = "schedule", !.row = NextId] \in ConfirmRecord
      BY <1>1, <2>1 DEF ConfirmRecord
    <3>. QED
      BY <1>1, <1>4, <3>1 DEF CreateQueued, TypeOK
  <2>4. stranded' \subseteq Rows'
    BY <1>1, <1>4, <2>1 DEF CreateQueued
  <2>. QED
    BY <1>4, <2>1, <2>2, <2>3, <2>4
    DEF CreateQueued, TypeOK, RowsTyped, Rows
<1>5. CASE ScheduleDirect(c)
  <2>1. RowsTyped' /\ Rows' = Rows
    BY <1>1, <1>5, ScheduleWritten DEF ScheduleDirect, Due
  <2>2. confirm' \in [Confirmers -> ConfirmRecord]
    BY <1>1, <1>5 DEF ScheduleDirect, TypeOK
  <2>. QED
    BY <1>1, <1>5, <2>1, <2>2 DEF ScheduleDirect, TypeOK, RowsTyped, Rows
<1>6. CASE FinishConfirm(c) \/ CreateFails(c) \/ ConfirmAborted(c)
  BY <1>2, <1>6 DEF FinishConfirm, CreateFails, ConfirmAborted, TypeOK
<1>. QED
  BY <1>3, <1>4, <1>5, <1>6 DEF Confirming

LEMMA EndpointsTyped ==
  ASSUME TypeOK, NEW u \in Ids,
         PostSchedule(u) \/ PostRetry(u) \/ DeleteQueue(u) \/ TimePasses(u)
  PROVE  TypeOK'
<1>1. RowsTyped /\ stranded \subseteq Rows
  BY TypeParts
<1>2. CASE PostSchedule(u) \/ TimePasses(u)
  <2>1. RowsTyped' /\ Rows' = Rows
    BY <1>1, <1>2, ScheduleWritten DEF PostSchedule, TimePasses, Due
  <2>. QED
    BY <1>1, <1>2, <2>1 DEF PostSchedule, TimePasses, requests, TypeOK, RowsTyped, Rows
<1>3. CASE PostRetry(u)
  <2>1. RowsTyped' /\ Rows' = Rows
    BY <1>1, <1>3, StatusWritten DEF PostRetry, Status
  <2>2. asked' \in [Clips -> 0 .. MaxAsked]
    <3>1. uploads[u].clip \in Clips
      BY <1>1, <1>3 DEF PostRetry, RowsTyped, Row, Rows
    <3>2. asked[uploads[u].clip] + 1 \in 0 .. MaxAsked
      BY <1>3, <3>1, ConstantsOK DEF PostRetry, TypeOK, ConstantsOK
    <3>. QED
      BY <1>3, <3>1, <3>2 DEF PostRetry, TypeOK
  <2>3. stranded' \subseteq Rows'
    BY <1>1, <1>3, <2>1 DEF PostRetry, UpdateStatus
  <2>. QED
    BY <1>3, <2>1, <2>2, <2>3 DEF PostRetry, requests, TypeOK, RowsTyped, Rows
<1>4. CASE DeleteQueue(u)
  <2>1. RowsTyped' /\ Rows' = Rows \ {u}
    BY <1>1, <1>4, RowDeleted
  <2>2. stranded' \subseteq Rows'
    BY <1>1, <1>4, <2>1 DEF DeleteQueue
  <2>. QED
    BY <1>4, <2>1, <2>2 DEF DeleteQueue, requests, TypeOK, RowsTyped, Rows
<1>. QED
  BY <1>2, <1>3, <1>4

LEMMA SchedulingTyped ==
  ASSUME TypeOK, NEW b \in Schedulers, Scheduling(b) PROVE TypeOK'
<1>1. RowsTyped /\ stranded \subseteq Rows /\ bulk[b] \in BulkRecord /\ PassTyped
  BY TypeParts
<1>2. CASE PostBulkSchedule(b) \/ PostUploadNow(b)
  <2>1. Queued \subseteq Ids
    BY <1>1 DEF Queued, RowsTyped, Rows
  <2>2. \A S \in SUBSET Queued : \A t \in BOOLEAN :
          [left |-> S, trigger |-> t, busy |-> TRUE] \in BulkRecord
    BY <2>1 DEF BulkRecord
  <2>3. {u \in Queued : uploads[u].due # "now"} \in SUBSET Queued /\ Queued \in SUBSET Queued
    OBVIOUS
  <2>4. bulk' \in [Schedulers -> BulkRecord]
    BY <1>2, <2>2, <2>3 DEF PostBulkSchedule, PostUploadNow, TypeOK
  <2>. QED
    BY <1>2, <2>4 DEF PostBulkSchedule, PostUploadNow, TypeOK
<1>3. CASE ScheduleNext(b)
  <2>1. PICK u \in bulk[b].left :
          /\ \E due \in (IF bulk[b].trigger THEN {"now"} ELSE {"later", "now"}) :
               SetSchedule(u, due)
          /\ bulk' = [bulk EXCEPT ![b].left = @ \ {u}]
    BY <1>3 DEF ScheduleNext
  <2>2. RowsTyped' /\ Rows' = Rows
    BY <1>1, <2>1, ScheduleWritten DEF Due
  <2>3. bulk' \in [Schedulers -> BulkRecord]
    BY <1>1, <2>1 DEF TypeOK, BulkRecord
  <2>. QED
    BY <1>1, <1>3, <2>2, <2>3 DEF ScheduleNext, TypeOK, RowsTyped, Rows
<1>4. CASE BulkAborted(b)
  <2>1. bulk' \in [Schedulers -> BulkRecord]
    BY <1>1, <1>4 DEF BulkAborted, TypeOK, BulkRecord
  <2>. QED
    BY <1>4, <2>1 DEF BulkAborted, TypeOK
<1>5. CASE BulkDone(b)
  <2>1. bulk' \in [Schedulers -> BulkRecord]
    BY <1>5 DEF BulkDone, TypeOK, BulkRecord, NoBulk
  <2>2. PassTyped'
    <3>1. CASE UNCHANGED pass
      BY <1>1, <3>1 DEF PassTyped
    <3>2. ASSUME NEW p \in Triggers, pass[p].pc = "rest", pass' = [pass EXCEPT ![p].pc = "list"]
          PROVE  PassTyped'
      <4>1. p \in Passes
        BY DEF Passes
      <4>. QED
        BY <1>1, <3>2, <4>1 DEF PassTyped, PassRecord
    <3>. QED
      BY <1>5, <3>1, <3>2 DEF BulkDone
  <2>. QED
    BY <1>5, <2>1, <2>2 DEF BulkDone, TypeOK, PassTyped
<1>. QED
  BY <1>2, <1>3, <1>4, <1>5 DEF Scheduling

(* What a pass that goes on to its next item leaves.                       *)
LEMMA Advanced ==
  ASSUME PassTyped, NEW p \in Passes, Advance(p)
  PROVE  /\ PassTyped'
         /\ pass'[p].items = pass[p].items \ {Current(p)}
         /\ pass'[p].pc \in {"rest", "mark"}
         /\ \A q \in Passes : q # p => pass'[q] = pass[q]
<1>. DEFINE rest == pass[p].items \ {Current(p)}
            next == [pc |-> IF rest = {} THEN "rest" ELSE "mark", items |-> rest]
<1>1. rest \subseteq Item
  BY DEF PassTyped, PassRecord
<1>. HIDE DEF rest
<1>2. next \in PassRecord /\ next.items = rest /\ next.pc \in {"rest", "mark"}
      /\ (next.pc \in {"mark", "upload", "record", "fail"} <=> next.items # {})
  BY <1>1 DEF PassRecord
<1>3. pass' = [pass EXCEPT ![p] = next]
  BY DEF Advance, rest
<1>. HIDE DEF next
<1>. QED
  BY <1>2, <1>3 DEF PassTyped, rest

LEMMA ListedItems ==
  ASSUME RowsTyped
  PROVE  /\ DueItems \subseteq Item
         /\ \A i \in DueItems : /\ i.id \in Rows /\ i.clip = uploads[i.id].clip
                                /\ uploads[i.id].status = "queued"
         /\ \A i, j \in DueItems : i.id = j.id => i = j
BY DEF RowsTyped, Rows, Row, DueItems, Listed, Item

LEMMA WorkTyped == ASSUME TypeOK, NEW p \in Passes, Work(p) PROVE TypeOK'
<1>1. RowsTyped /\ stranded \subseteq Rows /\ PassTyped /\ pass[p] \in PassRecord
  BY TypeParts DEF PassTyped
<1>2. CASE ListDueForUpload(p)
  <2>. DEFINE next == [pc |-> IF DueItems = {} THEN "rest" ELSE "mark", items |-> DueItems]
  <2>1. next \in PassRecord
        /\ (next.pc \in {"mark", "upload", "record", "fail"} <=> next.items # {})
    BY <1>1, ListedItems DEF PassRecord
  <2>2. pass' = [pass EXCEPT ![p] = next]
    BY <1>2 DEF ListDueForUpload
  <2>. HIDE DEF next
  <2>3. PassTyped'
    BY <1>1, <2>1, <2>2 DEF PassTyped
  <2>. QED
    BY <1>2, <2>3 DEF ListDueForUpload, requests, TypeOK, PassTyped
<1>3. CASE MarkRunning(p)
  <2>1. RowsTyped' /\ Rows' = Rows
    BY <1>1, <1>3, StatusWritten DEF MarkRunning, Status
  <2>2. PassTyped'
    BY <1>1, <1>3 DEF MarkRunning, PassTyped, PassRecord
  <2>3. stranded' \subseteq Rows'
    BY <1>1, <1>3, <2>1 DEF MarkRunning, UpdateStatus
  <2>. QED
    BY <1>3, <2>1, <2>2, <2>3 DEF MarkRunning, requests, TypeOK, RowsTyped, PassTyped, Rows
<1>4. CASE Upload(p)
  <2>1. PassTyped'
    BY <1>1, <1>4 DEF Upload, PassTyped, PassRecord
  <2>2. Current(p).clip \in Clips
    BY <1>1, <1>4, CurrentIn DEF Upload, PassTyped, Item
  <2>3. videos' \in [Passes -> [Clips -> Nat]]
    <3>1. PICK k \in Clips : k = Current(p).clip
      BY <2>2
    <3>2. videos' = [videos EXCEPT ![p][k] = @ + 1] \/ videos' = videos
      BY <1>4, <3>1 DEF Upload
    <3>3. videos[p] \in [Clips -> Nat] /\ [videos[p] EXCEPT ![k] = @ + 1] \in [Clips -> Nat]
      BY DEF TypeOK
    <3>4. [videos EXCEPT ![p][k] = @ + 1]
            = [videos EXCEPT ![p] = [videos[p] EXCEPT ![k] = @ + 1]]
      BY DEF TypeOK
    <3>. QED
      BY <3>2, <3>3, <3>4 DEF TypeOK
  <2>. QED
    BY <1>4, <2>1, <2>3 DEF Upload, requests, TypeOK, PassTyped
<1>5. CASE Record(p)
  <2>1. Current(p).clip \in Clips
    BY <1>1, <1>5, CurrentIn DEF Record, PassTyped, Item
  <2>2. RowsTyped' /\ Rows' = Rows
    BY <1>1, <1>5, <2>1, CompletedWritten DEF Record
  <2>3. PassTyped'
    BY <1>1, <1>5, Advanced DEF Record
  <2>4. stranded' \subseteq Rows'
    BY <1>1, <1>5, <2>2 DEF Record, MarkCompleted
  <2>. QED
    BY <1>5, <2>2, <2>3, <2>4 DEF Record, requests, TypeOK, RowsTyped, PassTyped, Rows
<1>6. CASE MarkError(p)
  <2>1. RowsTyped' /\ Rows' = Rows
    BY <1>1, <1>6, StatusWritten DEF MarkError, Status
  <2>2. PassTyped'
    BY <1>1, <1>6, Advanced DEF MarkError
  <2>3. stranded' \subseteq Rows'
    BY <1>1, <1>6, <2>1 DEF MarkError, UpdateStatus
  <2>. QED
    BY <1>6, <2>1, <2>2, <2>3 DEF MarkError, requests, TypeOK, RowsTyped, PassTyped, Rows
<1>. QED
  BY <1>2, <1>3, <1>4, <1>5, <1>6 DEF Work

LEMMA OthersTyped == ASSUME TypeOK, CancelRun \/ Tick \/ Restart PROVE TypeOK'
<1>1. PassTyped /\ Loop \in Passes /\ 1 \in Clips
  BY TypeParts, ConstantsOK DEF Passes, Clips, ConstantsOK
<1>2. CASE CancelRun
  BY <1>2 DEF CancelRun, requests, TypeOK
<1>3. CASE Tick
  <2>1. PassTyped'
    BY <1>1, <1>3 DEF Tick, PassTyped, PassRecord
  <2>. QED
    BY <1>3, <2>1 DEF Tick, requests, TypeOK, PassTyped
<1>4. CASE Restart
  <2>1. NoConfirm \in ConfirmRecord /\ NoBulk \in BulkRecord /\ Resting \in PassRecord
    BY <1>1 DEF NoConfirm, ConfirmRecord, NoBulk, BulkRecord, Resting, PassRecord
  <2>2. restarts' \in 0 .. MaxRestarts
    BY <1>4, ConstantsOK DEF Restart, TypeOK, ConstantsOK
  <2>3. PassTyped'
    BY <1>4, <2>1 DEF Restart, PassTyped, Resting
  <2>4. stranded' \subseteq Rows'
    BY <1>4 DEF Restart, Rows
  <2>. QED
    BY <1>4, <2>1, <2>2, <2>3, <2>4 DEF Restart, TypeOK, PassTyped, Rows
<1>. QED
  BY <1>2, <1>3, <1>4

LEMMA TypedStep == TypeOK /\ [Next]_vars => TypeOK'
<1>1. TypeOK /\ UNCHANGED vars => TypeOK'
  BY DEF vars, TypeOK
<1>. QED
  BY <1>1, ConfirmTyped, EndpointsTyped, SchedulingTyped, WorkTyped, OthersTyped DEF Next

(* Every variable of the queue keeps its type; a pass has items exactly    *)
(* while it works on one.                                                  *)
THEOREM QueueTypeCorrect == Spec => []TypeOK
BY InitTyped, TypedStep, PTL DEF Spec

-----------------------------------------------------------------------------
(* What shows running is worked on. *)

Working == {"upload", "record", "fail"}

QueueInv == TypeOK /\ RunningIsWorked

LEMMA WorkedStays ==
  ASSUME NEW u, NEW p \in Passes, pass[p].pc \in Working, Current(p).id = u,
         pass'[p].pc \in Working, pass'[p].items = pass[p].items
  PROVE  Worked(u)'
<1>1. Current(p)' = First(pass'[p].items)
  BY DEF Current, First
<1>2. Current(p)' = Current(p)
  BY <1>1, CurrentIsFirst
<1>. QED
  BY <1>2 DEF Worked, Working

(* Most steps make no row running, strand none and stop no work.           *)
LEMMA QuietStep ==
  ASSUME RunningIsWorked,
         \A u \in Rows' : uploads'[u].status = "running" =>
           /\ u \in Rows /\ uploads[u].status = "running"
           /\ u \in stranded => u \in stranded',
         \A p \in Passes : pass[p].pc \in Working =>
           pass'[p].pc \in Working /\ pass'[p].items = pass[p].items
  PROVE  RunningIsWorked'
<1>. SUFFICES ASSUME NEW u \in Rows', uploads'[u].status = "running"
              PROVE  Worked(u)' \/ u \in stranded'
  BY DEF RunningIsWorked
<1>1. Worked(u) \/ u \in stranded'
  BY DEF RunningIsWorked
<1>2. ASSUME Worked(u) PROVE Worked(u)'
  BY <1>2, WorkedStays DEF Worked, Working
<1>. QED
  BY <1>1, <1>2

(* A pass goes on to its next item when the row of this one is written.    *)
LEMMA AdvanceStep ==
  ASSUME QueueInv, NEW p \in Passes, pass[p].pc \in {"record", "fail"}, Advance(p),
         NEW id, id = Current(p).id, Rows' = Rows, stranded' = stranded \ {id},
         \A v \in Rows : /\ v # id => uploads'[v] = uploads[v]
                         /\ v = id => uploads'[v].status # "running"
  PROVE  RunningIsWorked'
<1>. SUFFICES ASSUME NEW u \in Rows', uploads'[u].status = "running"
              PROVE  Worked(u)' \/ u \in stranded'
  BY DEF RunningIsWorked
<1>1. u # id /\ u \in Rows /\ uploads[u].status = "running"
  OBVIOUS
<1>2. CASE u \in stranded
  BY <1>1, <1>2
<1>3. CASE Worked(u)
  <2>1. PICK q \in Passes : pass[q].pc \in Working /\ Current(q).id = u
    BY <1>3 DEF Worked, Working
  <2>2. q # p /\ pass'[q] = pass[q]
    BY <1>1, <2>1, TypeParts, Advanced DEF QueueInv
  <2>. QED
    BY <2>1, <2>2, WorkedStays
<1>. QED
  BY <1>1, <1>2, <1>3 DEF QueueInv, RunningIsWorked

LEMMA WorkKeepsWorked ==
  ASSUME QueueInv, NEW p \in Passes, Work(p) PROVE RunningIsWorked'
<1>1. RowsTyped /\ PassTyped /\ TypeOK
  BY TypeParts DEF QueueInv
<1>2. CASE ListDueForUpload(p)
  <2>1. /\ UNCHANGED <<uploads, stranded>> /\ pass[p].pc \notin Working
        /\ \A q \in Passes : q # p => pass'[q] = pass[q]
    BY <1>1, <1>2 DEF ListDueForUpload, PassTyped, Working
  <2>. QED
    BY <2>1, QuietStep DEF QueueInv, Rows
<1>3. CASE MarkRunning(p)
  <2>. PICK id : id = Current(p).id
    OBVIOUS
  <2>1. /\ Rows' = Rows /\ stranded' = stranded \ {id}
        /\ \A v \in Rows : v # id => uploads'[v] = uploads[v]
    BY <1>1, <1>3, StatusWritten DEF MarkRunning, Status, UpdateStatus
  <2>2. /\ pass[p].pc = "mark" /\ pass'[p].pc = "upload" /\ pass'[p].items = pass[p].items
        /\ \A q \in Passes : q # p => pass'[q] = pass[q]
    BY <1>1, <1>3 DEF MarkRunning, PassTyped, PassRecord
  <2>3. Worked(id)'
    <3>1. Current(p)' = First(pass'[p].items)
      BY DEF Current, First
    <3>2. Current(p)' = Current(p)
      BY <2>2, <3>1, CurrentIsFirst
    <3>. QED
      BY <2>2, <3>2 DEF Worked
  <2>. SUFFICES ASSUME NEW u \in Rows', uploads'[u].status = "running"
                PROVE  Worked(u)' \/ u \in stranded'
    BY DEF RunningIsWorked
  <2>4. CASE u # id
    <3>1. Worked(u) \/ u \in stranded'
      BY <2>1, <2>4 DEF QueueInv, RunningIsWorked
    <3>2. ASSUME Worked(u) PROVE Worked(u)'
      <4>1. PICK q \in Passes : pass[q].pc \in Working /\ Current(q).id = u
        BY <3>2 DEF Worked, Working
      <4>2. q # p /\ pass'[q] = pass[q]
        BY <2>2, <4>1 DEF Working
      <4>. QED
        BY <4>1, <4>2, WorkedStays
    <3>. QED
      BY <3>1, <3>2
  <2>. QED
    BY <2>3, <2>4
<1>4. CASE Upload(p)
  <2>1. UNCHANGED <<uploads, stranded>>
    BY <1>4 DEF Upload
  <2>2. \A q \in Passes : pass[q].pc \in Working =>
          pass'[q].pc \in Working /\ pass'[q].items = pass[q].items
    BY <1>1, <1>4 DEF Upload, PassTyped, PassRecord, Working
  <2>. QED
    BY <2>1, <2>2, QuietStep DEF QueueInv, Rows
<1>5. CASE Record(p)
  <2>1. Current(p).clip \in Clips
    BY <1>1, <1>5, CurrentIn DEF Record, PassTyped, Item
  <2>2. PICK id : id = Current(p).id
    OBVIOUS
  <2>3. MarkCompleted(id, Current(p).clip)
    BY <1>5, <2>2 DEF Record
  <2>4. stranded' = stranded \ {id}
    BY <2>3 DEF MarkCompleted
  <2>5. /\ Rows' = Rows
        /\ \A v \in Rows : /\ v # id => uploads'[v] = uploads[v]
                           /\ v = id => uploads'[v].status # "running"
    BY <1>1, <2>1, <2>3, CompletedWritten
  <2>. QED
    BY <1>5, <2>2, <2>4, <2>5, AdvanceStep DEF Record
<1>6. CASE MarkError(p)
  <2>1. PICK id : id = Current(p).id
    OBVIOUS
  <2>2. UpdateStatus(id, "error")
    BY <1>6, <2>1 DEF MarkError
  <2>3. stranded' = stranded \ {id}
    BY <2>2 DEF UpdateStatus
  <2>4. /\ Rows' = Rows
        /\ \A v \in Rows : /\ v # id => uploads'[v] = uploads[v]
                           /\ v = id => uploads'[v].status # "running"
    BY <1>1, <2>2, StatusWritten DEF Status
  <2>. QED
    BY <1>6, <2>1, <2>3, <2>4, AdvanceStep DEF MarkError
<1>. QED
  BY <1>2, <1>3, <1>4, <1>5, <1>6 DEF Work

LEMMA RequestsKeepWorked ==
  ASSUME QueueInv,
         \/ \E c \in Confirmers : ConfirmUpload(c) \/ Confirming(c) \/ ConfirmAborted(c)
         \/ \E b \in Schedulers : Scheduling(b)
         \/ \E u \in Ids : PostSchedule(u) \/ PostRetry(u) \/ DeleteQueue(u) \/ TimePasses(u)
         \/ CancelRun \/ Tick
  PROVE  RunningIsWorked'
<1>1. RowsTyped /\ PassTyped /\ Loop \in Passes /\ Triggers \subseteq Passes
  BY TypeParts DEF QueueInv, Passes
<1>2. \A p \in Passes : pass[p].pc \in Working =>
        pass'[p].pc \in Working /\ pass'[p].items = pass[p].items
  <2>1. CASE UNCHANGED pass
    BY <2>1
  <2>2. CASE \E p \in Passes : pass[p].pc = "rest" /\ pass' = [pass EXCEPT ![p].pc = "list"]
    BY <1>1, <2>2 DEF PassTyped, Working
  <2>3. ASSUME NEW b \in Schedulers, Scheduling(b)
        PROVE  \/ UNCHANGED pass
               \/ \E p \in Passes : pass[p].pc = "rest" /\ pass' = [pass EXCEPT ![p].pc = "list"]
    BY <1>1, <2>3 DEF Scheduling, PostBulkSchedule, PostUploadNow, ScheduleNext, BulkAborted, BulkDone
  <2>4. ASSUME NEW c \in Confirmers, ConfirmUpload(c) \/ Confirming(c) \/ ConfirmAborted(c)
        PROVE  UNCHANGED pass
    BY <2>4 DEF ConfirmUpload, Confirming, ConfirmAborted, CreateQueued, CreateFails,
                ScheduleDirect, FinishConfirm
  <2>5. ASSUME NEW u \in Ids, PostSchedule(u) \/ PostRetry(u) \/ DeleteQueue(u) \/ TimePasses(u)
        PROVE  UNCHANGED pass
    BY <2>5 DEF PostSchedule, PostRetry, DeleteQueue, TimePasses
  <2>. QED
    BY <1>1, <2>1, <2>2, <2>3, <2>4, <2>5 DEF CancelRun, Tick
<1>. DEFINE Quiet == \A u \in Rows' : uploads'[u].status = "running" =>
                       /\ u \in Rows /\ uploads[u].status = "running"
                       /\ u \in stranded => u \in stranded'
<1>3. ASSUME NEW c \in Confirmers, ConfirmUpload(c) \/ Confirming(c) \/ ConfirmAborted(c)
      PROVE  Quiet
  <2>1. CASE CreateQueued(c)
    <3>1. /\ Rows' = Rows \cup {NextId} /\ uploads'[NextId].status = "queued"
          /\ \A v \in Rows : v # NextId => uploads'[v] = uploads[v]
      BY <1>1, <2>1, NextClipTyped, RowCreated DEF QueueInv
    <3>. QED
      BY <2>1, <3>1 DEF CreateQueued
  <2>2. CASE ScheduleDirect(c)
    <3>1. Rows' = Rows /\ \A v \in Rows : uploads'[v].status = uploads[v].status
      BY <1>1, <2>2, ScheduleWritten DEF ScheduleDirect, Due
    <3>. QED
      BY <2>2, <3>1 DEF ScheduleDirect
  <2>3. CASE UNCHANGED <<uploads, stranded>>
    BY <2>3 DEF Rows
  <2>. QED
    BY <1>3, <2>1, <2>2, <2>3
    DEF Confirming, ConfirmUpload, ConfirmAborted, CreateFails, FinishConfirm
<1>4. ASSUME NEW b \in Schedulers, Scheduling(b) PROVE Quiet
  <2>1. CASE ScheduleNext(b)
    <3>1. PICK u : \E due \in Due : SetSchedule(u, due)
      BY <2>1 DEF ScheduleNext, Due
    <3>2. Rows' = Rows /\ \A v \in Rows : uploads'[v].status = uploads[v].status
      BY <1>1, <3>1, ScheduleWritten
    <3>. QED
      BY <2>1, <3>2 DEF ScheduleNext
  <2>2. CASE UNCHANGED <<uploads, stranded>>
    BY <2>2 DEF Rows
  <2>. QED
    BY <1>4, <2>1, <2>2 DEF Scheduling, PostBulkSchedule, PostUploadNow, BulkAborted, BulkDone
<1>5. ASSUME NEW u \in Ids, PostSchedule(u) \/ PostRetry(u) \/ DeleteQueue(u) \/ TimePasses(u)
      PROVE  Quiet
  <2>1. CASE PostSchedule(u) \/ TimePasses(u)
    <3>1. Rows' = Rows /\ \A v \in Rows : uploads'[v].status = uploads[v].status
      BY <1>1, <2>1, ScheduleWritten DEF PostSchedule, TimePasses, Due
    <3>. QED
      BY <2>1, <3>1 DEF PostSchedule, TimePasses
  <2>2. CASE PostRetry(u)
    <3>1. /\ Rows' = Rows /\ stranded' = stranded \ {u}
          /\ \A v \in Rows : /\ v # u => uploads'[v] = uploads[v]
                             /\ v = u => uploads'[v].status = "queued"
      BY <1>1, <2>2, StatusWritten DEF PostRetry, UpdateStatus, Status
    <3>. QED
      BY <3>1
  <2>3. CASE DeleteQueue(u)
    <3>1. Rows' = Rows \ {u} /\ \A v \in Rows' : uploads'[v] = uploads[v]
      BY <1>1, <2>3, RowDeleted
    <3>. QED
      BY <2>3, <3>1 DEF DeleteQueue
  <2>. QED
    BY <1>5, <2>1, <2>2, <2>3
<1>6. ASSUME CancelRun \/ Tick PROVE Quiet
  BY <1>6 DEF CancelRun, Tick, Rows
<1>7. Quiet
  BY <1>3, <1>4, <1>5, <1>6
<1>. QED
  BY <1>2, <1>7, QuietStep DEF QueueInv

LEMMA RestartKeepsWorked == ASSUME Restart PROVE RunningIsWorked'
BY DEF Restart, RunningIsWorked, Rows

LEMMA QueueInvStep == QueueInv /\ [Next]_vars => QueueInv'
<1>1. ASSUME QueueInv, UNCHANGED vars PROVE RunningIsWorked'
  <2>1. UNCHANGED <<uploads, stranded, pass>>
    BY <1>1 DEF vars
  <2>. QED
    BY <1>1, <2>1, QuietStep DEF QueueInv, Rows
<1>2. ASSUME QueueInv, Next PROVE RunningIsWorked'
  BY <1>2, RequestsKeepWorked, WorkKeepsWorked, RestartKeepsWorked DEF Next
<1>. QED
  BY <1>1, <1>2, TypedStep DEF QueueInv

(* A row that shows running is being uploaded by some pass, or it is one   *)
(* that a restart left behind, for any number of overlapping passes,       *)
(* retries, deletions and ids used again.                                  *)
THEOREM RunningHasAPass == Spec => []RunningIsWorked
<1>1. Init => QueueInv
  BY InitTyped DEF QueueInv, Init, RunningIsWorked, Rows
<1>2. QueueInv => RunningIsWorked
  BY DEF QueueInv
<1>. QED
  BY <1>1, <1>2, QueueInvStep, PTL DEF Spec

-----------------------------------------------------------------------------
(* What a step does to the rows, to the items of the passes and to the     *)
(* counters of the ledger is one of seven moves, the last five of a pass.  *)

InPass(p) == pass[p].items

(* a row keeps its clip and is not queued again *)
Kept(v) ==
  /\ uploads'[v].clip = uploads[v].clip
  /\ uploads'[v].status = "queued" => uploads[v].status = "queued"

RowsKept == Rows' \subseteq Rows /\ \A v \in Rows' : Kept(v)

Untouched(p) ==
  \/ pass'[p] = pass[p]
  \/ pass'[p].items = {} /\ pass'[p].pc \in {"rest", "list"}

RunStep ==
  \/ UNCHANGED runState
  \/ runState = "WAITING_UPLOAD_CONFIRM" /\ runState' = "CANCELLED"
  \/ /\ runState = "WAITING_UPLOAD_CONFIRM" /\ runState' = "DONE"
     /\ \E c \in Confirmers : confirm[c].pc = "finish"

(* rows go or keep what they show, and every pass keeps its items or has   *)
(* none                                                                    *)
Still ==
  RowsKept /\ RunStep /\ UNCHANGED <<asked, videos>> /\ \A p \in Passes : Untouched(p)

AskFor(u, k) ==
  /\ Rows' = Rows \cup {u} /\ uploads'[u].status = "queued" /\ uploads'[u].clip = k
  /\ \A v \in Rows : v # u => Kept(v)
  /\ asked[k] < MaxAsked
  /\ asked' = [asked EXCEPT ![k] = @ + 1]
  /\ UNCHANGED <<runState, videos, pass>>

Only(p) ==
  /\ \A q \in Passes : q # p => pass'[q] = pass[q]
  /\ RowsKept /\ UNCHANGED <<runState, asked>>

TakeList(p) ==
  /\ Only(p) /\ UNCHANGED <<uploads, videos>>
  /\ InPass(p)' = DueItems /\ pass'[p].pc \in {"rest", "mark"}

Begin(p) ==
  /\ Only(p) /\ UNCHANGED videos
  /\ pass[p].pc = "mark" /\ pass'[p].pc = "upload" /\ UNCHANGED InPass(p)
  /\ Current(p) \in InPass(p)
  /\ \A v \in Rows' : v = Current(p).id => uploads'[v].status # "queued"

Publish(p) ==
  /\ Only(p)
  /\ pass[p].pc = "upload" /\ pass'[p].pc = "record" /\ UNCHANGED InPass(p)
  /\ Current(p) \in InPass(p)
  /\ videos' = [videos EXCEPT ![p][Current(p).clip] = @ + 1]

UploadRefused(p) ==
  /\ Only(p) /\ UNCHANGED videos
  /\ pass[p].pc = "upload" /\ pass'[p].pc = "fail" /\ UNCHANGED InPass(p)

GoOn(p) ==
  /\ Only(p) /\ UNCHANGED videos
  /\ pass[p].pc \in {"record", "fail"} /\ pass'[p].pc \in {"rest", "mark"}
  /\ InPass(p)' = InPass(p) \ {Current(p)}

PassMoves(p) == TakeList(p) \/ Begin(p) \/ Publish(p) \/ UploadRefused(p) \/ GoOn(p)

Move ==
  \/ Still
  \/ \E u \in Ids, k \in Clips : AskFor(u, k)
  \/ \E p \in Passes : PassMoves(p)

LEMMA ConfirmMoves ==
  ASSUME TypeOK, NEW c \in Confirmers, ConfirmUpload(c) \/ Confirming(c) \/ ConfirmAborted(c)
  PROVE  Move
<1>1. RowsTyped /\ confirm[c].clip \in Clips
  BY TypeParts, NextClipTyped
<1>2. CASE CreateQueued(c)
  <2>1. AskFor(NextId, confirm[c].clip)
    BY <1>1, <1>2, RowCreated DEF CreateQueued, AskFor, Kept
  <2>. QED
    BY <1>1, <1>2, <2>1, RowCreated DEF Move
<1>3. CASE ScheduleDirect(c)
  <2>1. RowsKept
    BY <1>1, <1>3, ScheduleWritten DEF ScheduleDirect, Due, RowsKept, Kept
  <2>. QED
    BY <1>3, <2>1 DEF ScheduleDirect, Move, Still, Untouched, RunStep
<1>4. CASE ConfirmUpload(c) \/ FinishConfirm(c) \/ CreateFails(c) \/ ConfirmAborted(c)
  <2>1. UNCHANGED <<uploads, videos, pass, asked>> /\ RunStep
    BY <1>4 DEF ConfirmUpload, FinishConfirm, CreateFails, ConfirmAborted, RunStep
  <2>. QED
    BY <2>1 DEF Move, Still, RowsKept, Kept, Untouched, Rows
<1>. QED
  BY <1>2, <1>3, <1>4 DEF Confirming

LEMMA EndpointMoves ==
  ASSUME TypeOK, NEW u \in Ids,
         PostSchedule(u) \/ PostRetry(u) \/ DeleteQueue(u) \/ TimePasses(u)
  PROVE  Move
<1>1. RowsTyped
  BY TypeParts
<1>2. CASE PostSchedule(u) \/ TimePasses(u)
  <2>1. RowsKept
    BY <1>1, <1>2, ScheduleWritten DEF PostSchedule, TimePasses, Due, RowsKept, Kept
  <2>. QED
    BY <1>2, <2>1 DEF PostSchedule, TimePasses, Move, Still, Untouched, RunStep
<1>3. CASE PostRetry(u)
  <2>1. uploads[u].clip \in Clips /\ u \in Rows
    BY <1>1, <1>3 DEF PostRetry, RowsTyped, Row, Rows
  <2>2. UpdateStatus(u, "queued")
    BY <1>3 DEF PostRetry
  <2>3. /\ Rows' = Rows \cup {u} /\ uploads'[u].status = "queued"
        /\ uploads'[u].clip = uploads[u].clip
        /\ \A v \in Rows : v # u => Kept(v)
    BY <1>1, <2>1, <2>2, StatusWritten DEF Status, Kept
  <2>4. AskFor(u, uploads[u].clip)
    BY <1>3, <2>3 DEF PostRetry, AskFor
  <2>. QED
    BY <2>1, <2>4 DEF Move
<1>4. CASE DeleteQueue(u)
  <2>1. RowsKept
    BY <1>1, <1>4, RowDeleted DEF RowsKept, Kept
  <2>. QED
    BY <1>4, <2>1 DEF DeleteQueue, Move, Still, Untouched, RunStep
<1>. QED
  BY <1>2, <1>3, <1>4

LEMMA SchedulingMoves ==
  ASSUME TypeOK, NEW b \in Schedulers, Scheduling(b) PROVE Move
<1>1. CASE ScheduleNext(b)
  <2>1. PICK u : \E due \in Due : SetSchedule(u, due)
    BY <1>1 DEF ScheduleNext, Due
  <2>2. RowsKept
    BY <2>1, TypeParts, ScheduleWritten DEF RowsKept, Kept
  <2>. QED
    BY <1>1, <2>2 DEF ScheduleNext, Move, Still, Untouched, RunStep
<1>2. CASE PostBulkSchedule(b) \/ PostUploadNow(b) \/ BulkAborted(b)
  <2>1. UNCHANGED <<runState, uploads, videos, pass, asked>>
    BY <1>2 DEF PostBulkSchedule, PostUploadNow, BulkAborted
  <2>. QED
    BY <2>1 DEF Move, Still, RowsKept, Kept, Untouched, Rows, RunStep
<1>3. CASE BulkDone(b)
  <2>1. ASSUME NEW p \in Passes PROVE Untouched(p)
    BY <1>3, TypeParts DEF BulkDone, PassTyped, PassRecord, Untouched
  <2>. QED
    BY <1>3, <2>1 DEF BulkDone, Move, Still, RowsKept, Kept, Rows, RunStep
<1>. QED
  BY <1>1, <1>2, <1>3 DEF Scheduling

LEMMA WorkMoves == ASSUME TypeOK, NEW p \in Passes, Work(p) PROVE PassMoves(p)
<1>1. RowsTyped /\ PassTyped
  BY TypeParts
<1>2. InPass(p) # {} => Current(p) \in InPass(p) /\ Current(p).clip \in Clips
  BY CurrentIn DEF InPass, Item
<1>3. CASE ListDueForUpload(p)
  <2>1. Only(p) /\ UNCHANGED <<uploads, videos>>
    BY <1>1, <1>3 DEF ListDueForUpload, PassTyped, Only, RowsKept, Kept, Rows
  <2>2. InPass(p)' = DueItems /\ pass'[p].pc \in {"rest", "mark"}
    BY <1>1, <1>3 DEF ListDueForUpload, PassTyped, InPass
  <2>. QED
    BY <2>1, <2>2 DEF PassMoves, TakeList
<1>4. CASE MarkRunning(p)
  <2>1. Current(p) \in InPass(p)
    BY <1>1, <1>2, <1>4 DEF MarkRunning, PassTyped, InPass
  <2>2. PICK id : id = Current(p).id
    OBVIOUS
  <2>3. UpdateStatus(id, "running")
    BY <1>4, <2>2 DEF MarkRunning
  <2>4. RowsKept /\ \A v \in Rows' : v = id => uploads'[v].status # "queued"
    BY <1>1, <2>3, StatusWritten DEF Status, RowsKept, Kept
  <2>5. /\ pass'[p].pc = "upload" /\ UNCHANGED InPass(p)
        /\ \A q \in Passes : q # p => pass'[q] = pass[q]
    BY <1>1, <1>4 DEF MarkRunning, PassTyped, PassRecord, InPass
  <2>6. pass[p].pc = "mark" /\ UNCHANGED <<runState, asked, videos>>
    BY <1>4 DEF MarkRunning
  <2>. QED
    BY <2>1, <2>2, <2>4, <2>5, <2>6 DEF PassMoves, Begin, Only
<1>5. CASE Upload(p)
  <2>1. Current(p) \in InPass(p) /\ pass[p].pc = "upload"
    BY <1>1, <1>2, <1>5 DEF Upload, PassTyped, InPass
  <2>2. RowsKept /\ UNCHANGED <<runState, asked>>
    BY <1>5 DEF Upload, RowsKept, Kept, Rows
  <2>3. CASE /\ videos' = [videos EXCEPT ![p][Current(p).clip] = @ + 1]
             /\ pass' = [pass EXCEPT ![p].pc = "record"]
    <3>1. /\ pass'[p].pc = "record" /\ UNCHANGED InPass(p)
          /\ \A q \in Passes : q # p => pass'[q] = pass[q]
      BY <1>1, <2>3 DEF PassTyped, PassRecord, InPass
    <3>. QED
      BY <2>1, <2>2, <2>3, <3>1 DEF PassMoves, Publish, Only
  <2>4. CASE pass' = [pass EXCEPT ![p].pc = "fail"] /\ UNCHANGED videos
    <3>1. /\ pass'[p].pc = "fail" /\ UNCHANGED InPass(p)
          /\ \A q \in Passes : q # p => pass'[q] = pass[q]
      BY <1>1, <2>4 DEF PassTyped, PassRecord, InPass
    <3>. QED
      BY <2>1, <2>2, <2>4, <3>1 DEF PassMoves, UploadRefused, Only
  <2>. QED
    BY <1>5, <2>3, <2>4 DEF Upload
<1>6. CASE Record(p) \/ MarkError(p)
  <2>1. Current(p).clip \in Clips /\ pass[p].pc \in {"record", "fail"} /\ Advance(p)
    BY <1>1, <1>2, <1>6 DEF Record, MarkError, PassTyped, InPass
  <2>2. PICK id : id = Current(p).id
    OBVIOUS
  <2>3. MarkCompleted(id, Current(p).clip) \/ UpdateStatus(id, "error")
    BY <1>6, <2>2 DEF Record, MarkError
  <2>4. RowsKept
    <3>1. CASE MarkCompleted(id, Current(p).clip)
      BY <1>1, <2>1, <3>1, CompletedWritten DEF RowsKept, Kept
    <3>2. CASE UpdateStatus(id, "error")
      BY <1>1, <3>2, StatusWritten DEF Status, RowsKept, Kept
    <3>. QED
      BY <2>3, <3>1, <3>2
  <2>5. /\ InPass(p)' = InPass(p) \ {Current(p)} /\ pass'[p].pc \in {"rest", "mark"}
        /\ \A q \in Passes : q # p => pass'[q] = pass[q]
    BY <1>1, <2>1, Advanced DEF InPass
  <2>6. UNCHANGED <<runState, asked, videos>>
    BY <1>6 DEF Record, MarkError
  <2>. QED
    BY <2>1, <2>4, <2>5, <2>6 DEF PassMoves, GoOn, Only
<1>. QED
  BY <1>3, <1>4, <1>5, <1>6 DEF Work

LEMMA OtherMoves == ASSUME TypeOK, CancelRun \/ Tick \/ Restart PROVE Move
<1>1. CASE CancelRun
  BY <1>1 DEF CancelRun, Move, Still, RowsKept, Kept, Untouched, Rows, RunStep
<1>2. CASE Tick
  <2>1. ASSUME NEW p \in Passes PROVE Untouched(p)
    BY <1>2, TypeParts DEF Tick, PassTyped, PassRecord, Untouched
  <2>. QED
    BY <1>2, <2>1 DEF Tick, Move, Still, RowsKept, Kept, Rows, RunStep
<1>3. CASE Restart
  BY <1>3 DEF Restart, Resting, Move, Still, RowsKept, Kept, Untouched, Rows, RunStep
<1>. QED
  BY <1>1, <1>2, <1>3

LEMMA Moves == ASSUME TypeOK, [Next]_vars PROVE Move
<1>1. CASE UNCHANGED vars
  BY <1>1 DEF vars, Move, Still, RowsKept, Kept, Untouched, Rows, RunStep
<1>2. ASSUME NEW p \in Passes, Work(p) PROVE Move
  BY <1>2, WorkMoves DEF Move
<1>. QED
  BY <1>1, <1>2, ConfirmMoves, EndpointMoves, SchedulingMoves, OtherMoves DEF Next

(* A move of another pass is to this one as if nothing had happened.       *)
Quiet(p) == RowsKept /\ Untouched(p) /\ asked' = asked /\ videos'[p] = videos[p]

LEMMA QuietOthers ==
  ASSUME TypeOK, NEW p \in Passes, NEW q \in Passes, q # p, PassMoves(q) PROVE Quiet(p)
<1>1. Only(q)
  BY DEF PassMoves, TakeList, Begin, Publish, UploadRefused, GoOn
<1>2. videos'[p] = videos[p]
  BY DEF PassMoves, TakeList, Begin, Publish, UploadRefused, GoOn, TypeOK
<1>. QED
  BY <1>1, <1>2 DEF Only, Quiet, Untouched

LEMMA MovesOf ==
  ASSUME TypeOK, Move, NEW p \in Passes
  PROVE  Quiet(p) \/ (\E u \in Ids, k \in Clips : AskFor(u, k)) \/ PassMoves(p)
BY QuietOthers DEF Move, Still, Quiet

(* The items of a pass are different rows.                                 *)
ItemsDiffer == \A p \in Passes : \A i, j \in InPass(p) : i.id = j.id => i = j

LEMMA CurStays ==
  ASSUME NEW p, UNCHANGED InPass(p) PROVE Current(p)' = Current(p)
<1>1. Current(p)' = First(InPass(p)') /\ Current(p) = First(InPass(p))
  BY DEF Current, First, InPass
<1>. QED
  BY <1>1

LEMMA ItemsDifferStep == ASSUME TypeOK, ItemsDiffer, Move PROVE ItemsDiffer'
<1>1. ASSUME NEW p \in Passes PROVE \A i, j \in InPass(p)' : i.id = j.id => i = j
  <2>1. InPass(p)' \subseteq InPass(p) \/ InPass(p)' = DueItems
    BY MovesOf
    DEF Quiet, Untouched, AskFor, PassMoves, TakeList, Begin, Publish, UploadRefused, GoOn,
        InPass
  <2>. QED
    BY <2>1, TypeParts, ListedItems DEF ItemsDiffer
<1>. QED
  BY <1>1 DEF ItemsDiffer

-----------------------------------------------------------------------------
(* The ledger.  What pass p may still publish of clip k is counted by ids: *)
(* the rows that are queued and the items p has yet to mark; a row that is *)
(* both counts once.  The item that p is uploading counts on its own,      *)
(* since its row may be queued again meanwhile.                            *)

Unmarked(p) == IF pass[p].pc = "mark" THEN InPass(p) ELSE InPass(p) \ {Current(p)}

Open(p, k) ==
  {u \in Ids : \/ u \in Rows /\ uploads[u].status = "queued" /\ uploads[u].clip = k
               \/ \E i \in Unmarked(p) : i.id = u /\ i.clip = k}

InFlight(p, k) == IF pass[p].pc = "upload" /\ Current(p).clip = k THEN 1 ELSE 0

Covered(p) ==
  \A k \in Clips : videos[p][k] + Cardinality(Open(p, k)) + InFlight(p, k) <= asked[k]

(* A confirmation has asked for the clips it has passed.                   *)
EverAsked(k) == asked[k] > 0

AskedBefore ==
  \A c \in Confirmers :
    /\ confirm[c].pc \in {"create", "schedule"}
         => \A k \in Clips : k < confirm[c].clip => EverAsked(k)
    /\ confirm[c].pc = "schedule" => EverAsked(confirm[c].clip)
    /\ confirm[c].pc = "finish" => \A k \in Clips : EverAsked(k)

LEMMA IdsFinite ==
  ASSUME NEW T, NEW S, S \subseteq Ids, T \subseteq S
  PROVE  /\ IsFiniteSet(S) /\ Cardinality(S) \in Nat /\ Cardinality(T) \in Nat
         /\ Cardinality(T) <= Cardinality(S)
<1>1. IsFiniteSet(Ids)
  BY FS_Interval, ConstantsOK DEF Ids, ConstantsOK
<1>2. IsFiniteSet(S)
  BY <1>1, FS_Subset
<1>3. IsFiniteSet(T) /\ Cardinality(T) <= Cardinality(S)
  BY <1>2, FS_Subset
<1>. QED
  BY <1>2, <1>3, FS_CardinalityType

LEMMA OpenWithin == \A p, k : Open(p, k) \subseteq Ids
BY DEF Open

LEMMA OpenSmaller ==
  ASSUME NEW p, NEW k, Open(p, k)' \subseteq Open(p, k)
  PROVE  /\ Cardinality(Open(p, k)) \in Nat /\ Cardinality(Open(p, k)') \in Nat
         /\ Cardinality(Open(p, k)') <= Cardinality(Open(p, k))
BY OpenWithin, IdsFinite

LEMMA OpenLarger ==
  ASSUME NEW p, NEW k, NEW u \in Ids, Open(p, k)' \subseteq Open(p, k) \cup {u}
  PROVE  /\ Cardinality(Open(p, k)) \in Nat /\ Cardinality(Open(p, k)') \in Nat
         /\ Cardinality(Open(p, k)') <= Cardinality(Open(p, k)) + 1
<1>1. IsFiniteSet(Open(p, k)) /\ Cardinality(Open(p, k)) \in Nat
  BY OpenWithin, IdsFinite
<1>2. Cardinality(Open(p, k) \cup {u}) <= Cardinality(Open(p, k)) + 1
  BY <1>1, FS_AddElement
<1>3. /\ Cardinality(Open(p, k) \cup {u}) \in Nat /\ Cardinality(Open(p, k)') \in Nat
      /\ Cardinality(Open(p, k)') <= Cardinality(Open(p, k) \cup {u})
  BY OpenWithin, IdsFinite
<1>. QED
  BY <1>1, <1>2, <1>3

LEMMA OpenOneLess ==
  ASSUME NEW p, NEW k, NEW u \in Open(p, k), Open(p, k)' \subseteq Open(p, k) \ {u}
  PROVE  /\ Cardinality(Open(p, k)) \in Nat /\ Cardinality(Open(p, k)') \in Nat
         /\ Cardinality(Open(p, k)') + 1 <= Cardinality(Open(p, k))
<1>1. IsFiniteSet(Open(p, k)) /\ Cardinality(Open(p, k)) \in Nat
  BY OpenWithin, IdsFinite
<1>2. Cardinality(Open(p, k) \ {u}) = Cardinality(Open(p, k)) - 1
  BY <1>1, FS_RemoveElement
<1>3. /\ Cardinality(Open(p, k) \ {u}) \in Nat /\ Cardinality(Open(p, k)') \in Nat
      /\ Cardinality(Open(p, k)') <= Cardinality(Open(p, k) \ {u})
  BY OpenWithin, IdsFinite
<1>. QED
  BY <1>1, <1>2, <1>3

LEMMA Numbers ==
  ASSUME TypeOK, NEW p \in Passes, NEW k \in Clips
  PROVE  asked[k] \in Nat /\ videos[p][k] \in Nat /\ Cardinality(Open(p, k)) \in Nat
         /\ InFlight(p, k) \in {0, 1}
<1>1. asked[k] \in 0 .. MaxAsked /\ MaxAsked \in Nat /\ videos[p][k] \in Nat
  BY ConstantsOK DEF TypeOK, ConstantsOK
<1>. QED
  BY <1>1, OpenWithin, IdsFinite DEF InFlight

(* Nothing more may be published after a step that opens no id, publishes  *)
(* nothing and begins no upload.                                           *)
LEMMA NothingOpened ==
  ASSUME TypeOK, NEW p \in Passes, Covered(p), asked' = asked, videos'[p] = videos[p],
         \A k \in Clips : Open(p, k)' \subseteq Open(p, k) /\ InFlight(p, k)' <= InFlight(p, k),
         \A k \in Clips : InFlight(p, k)' \in {0, 1}
  PROVE  Covered(p)'
<1>. SUFFICES ASSUME NEW k \in Clips
              PROVE  videos'[p][k] + Cardinality(Open(p, k)') + InFlight(p, k)' <= asked'[k]
  BY DEF Covered
<1>1. videos[p][k] + Cardinality(Open(p, k)) + InFlight(p, k) <= asked[k]
  BY DEF Covered
<1>2. Cardinality(Open(p, k)') <= Cardinality(Open(p, k)) /\ Cardinality(Open(p, k)') \in Nat
  BY OpenSmaller
<1>3. videos'[p][k] = videos[p][k] /\ asked'[k] = asked[k]
  OBVIOUS
<1>. HIDE DEF Open, InFlight
<1>. QED
  BY <1>1, <1>2, <1>3, Numbers

LEMMA InFlightNumber == \A p, k : InFlight(p, k) \in {0, 1} /\ InFlight(p, k)' \in {0, 1}
BY DEF InFlight

LEMMA OpenShrinks ==
  ASSUME NEW p, RowsKept, Unmarked(p)' \subseteq Unmarked(p), NEW k
  PROVE  Open(p, k)' \subseteq Open(p, k)
BY DEF RowsKept, Kept, Open

LEMMA QuietCovers == ASSUME TypeOK, NEW p \in Passes, Covered(p), Quiet(p) PROVE Covered(p)'
<1>1. CASE pass'[p] = pass[p]
  <2>1. UNCHANGED InPass(p)
    BY <1>1 DEF InPass
  <2>2. Current(p)' = Current(p)
    BY <2>1, CurStays
  <2>3. Unmarked(p)' = Unmarked(p)
    BY <1>1, <2>1, <2>2 DEF Unmarked
  <2>4. \A k \in Clips : Open(p, k)' \subseteq Open(p, k)
    BY <2>3, OpenShrinks DEF Quiet
  <2>5. \A k \in Clips : InFlight(p, k)' = InFlight(p, k)
    BY <1>1, <2>2 DEF InFlight
  <2>. QED
    BY <2>4, <2>5, InFlightNumber, NothingOpened DEF Quiet
<1>2. CASE pass'[p].items = {} /\ pass'[p].pc \in {"rest", "list"}
  <2>1. Unmarked(p)' = {}
    BY <1>2 DEF Unmarked, InPass
  <2>2. \A k \in Clips : Open(p, k)' \subseteq Open(p, k)
    BY <2>1, OpenShrinks DEF Quiet
  <2>3. \A k \in Clips : InFlight(p, k)' = 0
    BY <1>2 DEF InFlight
  <2>4. \A k \in Clips : InFlight(p, k)' <= InFlight(p, k)
    BY <2>3, InFlightNumber
  <2>. QED
    BY <2>2, <2>4, InFlightNumber, NothingOpened DEF Quiet
<1>. QED
  BY <1>1, <1>2 DEF Quiet, Untouched

LEMMA AskCovers ==
  ASSUME TypeOK, NEW p \in Passes, Covered(p), NEW u \in Ids, NEW k \in Clips, AskFor(u, k)
  PROVE  Covered(p)'
<1>1. UNCHANGED <<InPass(p), Current(p), Unmarked(p), pass, videos>>
  BY DEF AskFor, InPass, Current, Unmarked
<1>2. \A m \in Clips : /\ Open(p, m)' \subseteq Open(p, m) \cup {u}
                       /\ m # k => Open(p, m)' \subseteq Open(p, m)
  BY <1>1 DEF AskFor, Kept, Open
<1>3. \A m \in Clips : InFlight(p, m)' = InFlight(p, m)
  BY <1>1 DEF InFlight
<1>4. asked'[k] = asked[k] + 1 /\ \A m \in Clips : m # k => asked'[m] = asked[m]
  BY DEF AskFor, TypeOK
<1>. SUFFICES ASSUME NEW m \in Clips
              PROVE  videos'[p][m] + Cardinality(Open(p, m)') + InFlight(p, m)' <= asked'[m]
  BY DEF Covered
<1>5. videos[p][m] + Cardinality(Open(p, m)) + InFlight(p, m) <= asked[m]
  BY DEF Covered
<1>6. CASE m = k
  <2>1. Cardinality(Open(p, m)') <= Cardinality(Open(p, m)) + 1 /\ Cardinality(Open(p, m)') \in Nat
    BY <1>2, OpenLarger
  <2>2. videos'[p][m] = videos[p][m] /\ InFlight(p, m)' = InFlight(p, m) /\ asked'[m] = asked[m] + 1
    BY <1>1, <1>3, <1>4, <1>6
  <2>. HIDE DEF Open, InFlight
  <2>. QED
    BY <1>5, <2>1, <2>2, Numbers
<1>7. CASE m # k
  <2>1. Cardinality(Open(p, m)') <= Cardinality(Open(p, m)) /\ Cardinality(Open(p, m)') \in Nat
    BY <1>2, <1>7, OpenSmaller
  <2>2. videos'[p][m] = videos[p][m] /\ InFlight(p, m)' = InFlight(p, m) /\ asked'[m] = asked[m]
    BY <1>1, <1>3, <1>4, <1>7
  <2>. QED
    BY <1>5, <2>1, <2>2, Numbers
<1>. QED
  BY <1>6, <1>7

(* The list takes rows that are queued: nothing that was not open before.  *)
LEMMA ListCovers == ASSUME TypeOK, NEW p \in Passes, Covered(p), TakeList(p) PROVE Covered(p)'
<1>1. Unmarked(p)' \subseteq DueItems /\ Rows' = Rows /\ UNCHANGED uploads
  BY DEF TakeList, Unmarked, InPass, Rows
<1>2. \A k \in Clips : Open(p, k)' \subseteq Open(p, k)
  BY <1>1, TypeParts, ListedItems DEF Open
<1>3. \A k \in Clips : InFlight(p, k)' = 0
  BY DEF TakeList, InFlight
<1>4. \A k \in Clips : InFlight(p, k)' <= InFlight(p, k)
  BY <1>3, InFlightNumber
<1>. QED
  BY <1>2, <1>4, InFlightNumber, NothingOpened DEF TakeList, Only

(* The id of the item that is marked is no longer open for its clip: the   *)
(* row shows running and no other item is on it.                           *)
LEMMA BeginCovers ==
  ASSUME TypeOK, NEW p \in Passes, Covered(p), ItemsDiffer, Begin(p) PROVE Covered(p)'
<1>1. /\ Current(p)' = Current(p) /\ Current(p) \in InPass(p)
      /\ UNCHANGED <<InPass(p), asked, videos>>
      /\ Unmarked(p) = InPass(p) /\ Unmarked(p)' = InPass(p) \ {Current(p)}
  BY CurStays DEF Begin, Only, Unmarked
<1>2. Current(p).id \in Ids /\ Current(p).clip \in Clips
  BY <1>1, TypeParts DEF PassTyped, PassRecord, InPass, Item, Passes
<1>3. Current(p).id \in Open(p, Current(p).clip)
  BY <1>1, <1>2 DEF Open
<1>4. \A i \in Unmarked(p)' : i \in Unmarked(p) /\ i.id # Current(p).id
  BY <1>1 DEF ItemsDiffer
<1>5. \A k \in Clips : Open(p, k)' \subseteq Open(p, k) \ {Current(p).id}
  BY <1>4 DEF Begin, Only, RowsKept, Kept, Open
<1>6. \A k \in Clips : InFlight(p, k) = 0 /\ InFlight(p, k)' = IF k = Current(p).clip THEN 1 ELSE 0
  BY <1>1 DEF Begin, InFlight
<1>. SUFFICES ASSUME NEW k \in Clips
              PROVE  videos'[p][k] + Cardinality(Open(p, k)') + InFlight(p, k)' <= asked'[k]
  BY DEF Covered
<1>7. /\ videos[p][k] + Cardinality(Open(p, k)) + InFlight(p, k) <= asked[k]
      /\ videos'[p][k] = videos[p][k] /\ asked'[k] = asked[k]
  BY <1>1 DEF Covered
<1>8. CASE k = Current(p).clip
  <2>1. Cardinality(Open(p, k)') + 1 <= Cardinality(Open(p, k)) /\ Cardinality(Open(p, k)') \in Nat
    BY <1>3, <1>5, <1>8, OpenOneLess
  <2>2. InFlight(p, k) = 0 /\ InFlight(p, k)' = 1
    BY <1>6, <1>8
  <2>. QED
    BY <1>7, <2>1, <2>2, Numbers
<1>9. CASE k # Current(p).clip
  <2>1. Cardinality(Open(p, k)') <= Cardinality(Open(p, k)) /\ Cardinality(Open(p, k)') \in Nat
    BY <1>5, OpenSmaller
  <2>2. InFlight(p, k) = 0 /\ InFlight(p, k)' = 0
    BY <1>6, <1>9
  <2>. QED
    BY <1>7, <2>1, <2>2, Numbers
<1>. QED
  BY <1>8, <1>9

LEMMA PublishCovers ==
  ASSUME TypeOK, NEW p \in Passes, Covered(p), Publish(p)
  PROVE  Covered(p)' /\ videos[p][Current(p).clip] < asked[Current(p).clip]
<1>1. /\ Current(p)' = Current(p) /\ Current(p) \in InPass(p)
      /\ UNCHANGED <<InPass(p), asked>> /\ Unmarked(p)' = Unmarked(p) /\ RowsKept
  BY CurStays DEF Publish, Only, Unmarked
<1>2. Current(p).clip \in Clips
  BY <1>1, TypeParts DEF PassTyped, PassRecord, InPass, Item, Passes
<1>3. \A k \in Clips : Open(p, k)' \subseteq Open(p, k)
  BY <1>1, OpenShrinks
<1>4. \A k \in Clips : InFlight(p, k)' = 0 /\ InFlight(p, k) = IF k = Current(p).clip THEN 1 ELSE 0
  BY <1>1 DEF Publish, InFlight
<1>5. \A k \in Clips : videos'[p][k] = IF k = Current(p).clip THEN videos[p][k] + 1 ELSE videos[p][k]
  BY <1>2 DEF Publish, TypeOK
<1>6. ASSUME NEW k \in Clips
      PROVE  /\ videos'[p][k] + Cardinality(Open(p, k)') + InFlight(p, k)' <= asked'[k]
             /\ k = Current(p).clip => videos[p][k] < asked[k]
  <2>1. /\ videos[p][k] + Cardinality(Open(p, k)) + InFlight(p, k) <= asked[k]
        /\ asked'[k] = asked[k]
    BY <1>1 DEF Covered
  <2>2. Cardinality(Open(p, k)') <= Cardinality(Open(p, k)) /\ Cardinality(Open(p, k)') \in Nat
    BY <1>3, OpenSmaller
  <2>3. CASE k = Current(p).clip
    <3>1. InFlight(p, k) = 1 /\ InFlight(p, k)' = 0 /\ videos'[p][k] = videos[p][k] + 1
      BY <1>4, <1>5, <2>3
    <3>. QED
      BY <2>1, <2>2, <3>1, Numbers
  <2>4. CASE k # Current(p).clip
    <3>1. InFlight(p, k) = 0 /\ InFlight(p, k)' = 0 /\ videos'[p][k] = videos[p][k]
      BY <1>4, <1>5, <2>4
    <3>. QED
      BY <2>1, <2>2, <2>4, <3>1, Numbers
  <2>. QED
    BY <2>3, <2>4
<1>. QED
  BY <1>2, <1>6 DEF Covered

LEMMA RefusedCovers == ASSUME TypeOK, NEW p \in Passes, Covered(p), UploadRefused(p) PROVE Covered(p)'
<1>1. Current(p)' = Current(p) /\ RowsKept /\ Unmarked(p)' = Unmarked(p)
  BY CurStays DEF UploadRefused, Only, Unmarked
<1>2. \A k \in Clips : Open(p, k)' \subseteq Open(p, k)
  BY <1>1, OpenShrinks
<1>3. \A k \in Clips : InFlight(p, k)' = 0
  BY DEF UploadRefused, InFlight
<1>4. \A k \in Clips : InFlight(p, k)' <= InFlight(p, k)
  BY <1>3, InFlightNumber
<1>. QED
  BY <1>2, <1>4, InFlightNumber, NothingOpened DEF UploadRefused, Only

LEMMA GoOnCovers ==
  ASSUME TypeOK, NEW p \in Passes, Covered(p), GoOn(p) PROVE Covered(p)'
<1>1. Unmarked(p)' \subseteq Unmarked(p)
  BY DEF GoOn, Unmarked
<1>2. \A k \in Clips : Open(p, k)' \subseteq Open(p, k)
  BY <1>1, OpenShrinks DEF GoOn, Only
<1>3. \A k \in Clips : InFlight(p, k)' = 0
  BY DEF GoOn, InFlight
<1>4. \A k \in Clips : InFlight(p, k)' <= InFlight(p, k)
  BY <1>3, InFlightNumber
<1>. QED
  BY <1>2, <1>4, InFlightNumber, NothingOpened DEF GoOn, Only

LEMMA CoveredStep ==
  ASSUME TypeOK, NEW p \in Passes, Covered(p), ItemsDiffer, Move PROVE Covered(p)'
BY MovesOf, QuietCovers, AskCovers, ListCovers, BeginCovers, PublishCovers, RefusedCovers,
   GoOnCovers
DEF PassMoves

(* What was asked for stays asked for.                                     *)
LEMMA AskedStays == ASSUME TypeOK, Move, NEW k \in Clips, EverAsked(k) PROVE EverAsked(k)'
<1>1. UNCHANGED asked => EverAsked(k)'
  BY DEF EverAsked
<1>2. ASSUME NEW u \in Ids, NEW m \in Clips, AskFor(u, m) PROVE EverAsked(k)'
  <2>1. asked[k] \in Nat /\ (asked'[k] = asked[k] \/ asked'[k] = asked[k] + 1)
    BY <1>2, ConstantsOK DEF AskFor, TypeOK, ConstantsOK
  <2>. QED
    BY <2>1 DEF EverAsked
<1>. QED
  BY <1>1, <1>2
  DEF Move, Still, PassMoves, TakeList, Begin, Publish, UploadRefused, GoOn, Only

LEMMA NextClipAsked ==
  ASSUME TypeOK, NEW c \in Confirmers,
         \A k \in Clips : k < confirm[c].clip => asked'[k] > 0, asked'[confirm[c].clip] > 0
  PROVE  /\ NextClip(c).pc \in {"create", "finish"}
         /\ NextClip(c).pc = "create" => \A k \in Clips : k < NextClip(c).clip => asked'[k] > 0
         /\ NextClip(c).pc = "finish" => \A k \in Clips : asked'[k] > 0
<1>1. /\ confirm[c] \in ConfirmRecord /\ confirm[c].clip \in Clips /\ NumClips \in Nat
      /\ \A k \in Clips : k \in Nat /\ k <= NumClips
  BY ConstantsOK DEF TypeOK, ConfirmRecord, ConstantsOK, Clips
<1>2. CASE confirm[c].clip = NumClips
  <2>1. NextClip(c).pc = "finish"
    BY <1>1, <1>2 DEF NextClip, ConfirmRecord
  <2>2. \A k \in Clips : k < confirm[c].clip \/ k = confirm[c].clip
    BY <1>1, <1>2
  <2>. QED
    BY <2>1, <2>2
<1>3. CASE confirm[c].clip # NumClips
  <2>1. NextClip(c).pc = "create" /\ NextClip(c).clip = confirm[c].clip + 1
    BY <1>1, <1>3 DEF NextClip, ConfirmRecord
  <2>2. \A k \in Clips : k < confirm[c].clip + 1 => k < confirm[c].clip \/ k = confirm[c].clip
    BY <1>1
  <2>. QED
    BY <2>1, <2>2
<1>. QED
  BY <1>2, <1>3

LEMMA AskedBeforeStep ==
  ASSUME TypeOK, AskedBefore, Move, Next PROVE AskedBefore'
<1>. DEFINE Before(d) ==
       /\ confirm[d].pc \in {"create", "schedule"}
            => \A k \in Clips : k < confirm[d].clip => EverAsked(k)
       /\ confirm[d].pc = "schedule" => EverAsked(confirm[d].clip)
       /\ confirm[d].pc = "finish" => \A k \in Clips : EverAsked(k)
<1>1. \A d \in Confirmers : confirm[d] \in ConfirmRecord /\ confirm[d].clip \in Clips
  BY DEF TypeOK, ConfirmRecord
<1>2. ASSUME NEW d \in Confirmers, confirm'[d] = confirm[d] PROVE Before(d)'
  BY <1>1, <1>2, AskedStays DEF AskedBefore
<1>3. ASSUME NEW d \in Confirmers, confirm'[d] = NoConfirm PROVE Before(d)'
  BY <1>3 DEF NoConfirm
<1>4. ASSUME NEW c \in Confirmers, ConfirmUpload(c) \/ Confirming(c) \/ ConfirmAborted(c),
             NEW d \in Confirmers
      PROVE  Before(d)'
  <2>1. CASE d # c
    <3>1. confirm'[d] = confirm[d]
      BY <1>4, <2>1 DEF TypeOK, Confirming, ConfirmUpload, ConfirmAborted, CreateQueued,
                        CreateFails, ScheduleDirect, FinishConfirm
    <3>. QED
      BY <1>2, <3>1
  <2>2. CASE d = c /\ ConfirmUpload(c)
    <3>1. confirm'[c].pc = "create" /\ confirm'[c].clip = 1
      BY <2>2 DEF ConfirmUpload, TypeOK
    <3>2. \A k \in Clips : ~ (k < 1)
      BY DEF Clips
    <3>. QED
      BY <2>2, <3>1, <3>2
  <2>3. CASE d = c /\ (FinishConfirm(c) \/ CreateFails(c) \/ ConfirmAborted(c))
    <3>1. confirm'[c] = NoConfirm
      BY <2>3 DEF FinishConfirm, CreateFails, ConfirmAborted, TypeOK
    <3>. QED
      BY <1>3, <2>3, <3>1
  <2>4. CASE d = c /\ CreateQueued(c)
    <3>1. \A k \in Clips : k < confirm[c].clip => asked'[k] > 0
      BY <2>4, AskedStays DEF CreateQueued, AskedBefore, EverAsked
    <3>2. asked'[confirm[c].clip] > 0
      <4>1. asked[confirm[c].clip] \in Nat
            /\ asked'[confirm[c].clip] = asked[confirm[c].clip] + 1
        BY <1>1, <2>4, ConstantsOK DEF CreateQueued, TypeOK, ConstantsOK
      <4>. QED
        BY <4>1
    <3>3. CASE confirm'[c] = NextClip(c)
      BY <2>4, <3>1, <3>2, <3>3, NextClipAsked DEF EverAsked
    <3>4. CASE confirm'[c] = [confirm[c] EXCEPT !.pc = "schedule", !.row = NextId]
      <4>1. confirm'[c].pc = "schedule" /\ confirm'[c].clip = confirm[c].clip
        BY <1>1, <3>4 DEF ConfirmRecord
      <4>. QED
        BY <2>4, <3>1, <3>2, <4>1 DEF EverAsked
    <3>. QED
      BY <2>4, <3>3, <3>4 DEF CreateQueued, TypeOK
  <2>5. CASE d = c /\ ScheduleDirect(c)
    <3>1. /\ \A k \in Clips : k < confirm[c].clip => asked'[k] > 0
          /\ asked'[confirm[c].clip] > 0
      BY <2>5 DEF ScheduleDirect, AskedBefore, EverAsked
    <3>2. confirm'[c] = NextClip(c)
      BY <2>5 DEF ScheduleDirect, TypeOK
    <3>. QED
      BY <2>5, <3>1, <3>2, NextClipAsked DEF EverAsked
  <2>. QED
    BY <1>4, <2>1, <2>2, <2>3, <2>4, <2>5 DEF Confirming
<1>5. ASSUME NEW d \in Confirmers, UNCHANGED confirm \/ confirm' = [c \in Confirmers |-> NoConfirm]
      PROVE  Before(d)'
  BY <1>2, <1>3, <1>5
<1>6. ASSUME NEW b \in Schedulers, Scheduling(b) PROVE UNCHANGED confirm
  BY <1>6 DEF Scheduling, PostBulkSchedule, PostUploadNow, ScheduleNext, BulkAborted, BulkDone
<1>7. ASSUME NEW u \in Ids, PostSchedule(u) \/ PostRetry(u) \/ DeleteQueue(u) \/ TimePasses(u)
      PROVE  UNCHANGED confirm
  BY <1>7 DEF PostSchedule, PostRetry, DeleteQueue, TimePasses, requests
<1>8. ASSUME NEW p \in Passes, Work(p) PROVE UNCHANGED confirm
  BY <1>8 DEF Work, ListDueForUpload, MarkRunning, Upload, Record, MarkError, requests
<1>9. ASSUME CancelRun \/ Tick \/ Restart
      PROVE  UNCHANGED confirm \/ confirm' = [c \in Confirmers |-> NoConfirm]
  BY <1>9 DEF CancelRun, Tick, Restart, requests
<1>10. \A d \in Confirmers : Before(d)'
  BY <1>4, <1>5, <1>6, <1>7, <1>8, <1>9 DEF Next
<1>. QED
  BY <1>10 DEF AskedBefore

-----------------------------------------------------------------------------
(* The refinement. *)

LedgerInv ==
  TypeOK /\ ItemsDiffer /\ (\A p \in Passes : Covered(p)) /\ AskedBefore

LEMMA LedgerInvInit == Init => LedgerInv
<1>. SUFFICES ASSUME Init PROVE LedgerInv
  OBVIOUS
<1>1. Rows = {} /\ \A p \in Passes : InPass(p) = {} /\ pass[p].pc = "rest"
  BY DEF Init, InPass, Resting, Rows
<1>2. \A p \in Passes, k \in Clips : Open(p, k) = {} /\ InFlight(p, k) = 0
  BY <1>1 DEF Open, Unmarked, InFlight
<1>3. \A p \in Passes : Covered(p)
  <2>1. \A p \in Passes, k \in Clips : videos[p][k] = 0 /\ asked[k] = 0
    BY DEF Init
  <2>. QED
    BY <1>2, <2>1, FS_EmptySet DEF Covered
<1>4. AskedBefore
  BY DEF Init, NoConfirm, AskedBefore
<1>5. ItemsDiffer
  BY <1>1 DEF ItemsDiffer
<1>. QED
  BY <1>3, <1>4, <1>5, InitTyped DEF LedgerInv

LEMMA LedgerInvStep == LedgerInv /\ [Next]_vars => LedgerInv'
<1>. SUFFICES ASSUME LedgerInv, [Next]_vars PROVE LedgerInv'
  OBVIOUS
<1>1. TypeOK /\ TypeOK' /\ ItemsDiffer /\ AskedBefore /\ Move
  BY TypedStep, Moves DEF LedgerInv
<1>2. ItemsDiffer'
  BY <1>1, ItemsDifferStep
<1>3. \A p \in Passes : Covered(p)'
  BY <1>1, CoveredStep DEF LedgerInv
<1>4. UNCHANGED vars => AskedBefore'
  BY <1>1 DEF vars, AskedBefore, EverAsked
<1>. QED
  BY <1>1, <1>2, <1>3, <1>4, AskedBeforeStep DEF LedgerInv

(* A move asks, publishes, ends the run, or does nothing to the ledger.    *)
LEMMA LedgerStep == ASSUME LedgerInv, Move PROVE [Ledger!Next]_Ledger!vars
<1>1. TypeOK /\ AskedBefore
  BY DEF LedgerInv
<1>2. CASE Still
  <2>1. CASE UNCHANGED runState
    BY <1>2, <2>1 DEF Still, Ledger!vars
  <2>2. CASE runState = "WAITING_UPLOAD_CONFIRM" /\ runState' = "CANCELLED"
    BY <1>2, <2>2 DEF Still, Ledger!Next, Ledger!End
  <2>3. CASE /\ runState = "WAITING_UPLOAD_CONFIRM" /\ runState' = "DONE"
             /\ \E c \in Confirmers : confirm[c].pc = "finish"
    <3>1. \A k \in Clips : asked[k] > 0
      BY <1>1, <2>3 DEF AskedBefore, EverAsked
    <3>. QED
      BY <1>2, <2>3, <3>1 DEF Still, Ledger!Next, Ledger!Complete
  <2>. QED
    BY <1>2, <2>1, <2>2, <2>3 DEF Still, RunStep
<1>3. ASSUME NEW u \in Ids, NEW k \in Clips, AskFor(u, k) PROVE Ledger!Next
  BY <1>3 DEF AskFor, Ledger!Next, Ledger!Ask
<1>4. ASSUME NEW p \in Passes, Publish(p) PROVE Ledger!Next
  <2>1. Current(p).clip \in Clips
    BY <1>1, <1>4, TypeParts DEF Publish, PassTyped, PassRecord, InPass, Item
  <2>2. videos[p][Current(p).clip] < asked[Current(p).clip]
    BY <1>1, <1>4, PublishCovers DEF LedgerInv
  <2>. QED
    BY <1>4, <2>1, <2>2 DEF Publish, Only, Ledger!Next, Ledger!Publish
<1>5. ASSUME NEW p \in Passes, TakeList(p) \/ Begin(p) \/ UploadRefused(p) \/ GoOn(p)
      PROVE  UNCHANGED Ledger!vars
  BY <1>5 DEF TakeList, Begin, UploadRefused, GoOn, Only, Ledger!vars
<1>. QED
  BY <1>2, <1>3, <1>4, <1>5 DEF Move, PassMoves

(* The queue keeps the ledger: no pass publishes a clip more often than it *)
(* was queued or retried, and a run that is done has queued all of its     *)
(* clips, for any number of passes and of confirmations that overlap and   *)
(* are cut off, of deletions, ids used again and restarts.                 *)
THEOREM QueueKeepsLedger == Spec => ImplementsLedger
<1>1. Init => Ledger!Init
  BY DEF Init, Ledger!Init
<1>2. LedgerInv /\ [Next]_vars => [Ledger!Next]_Ledger!vars
  BY Moves, LedgerStep DEF LedgerInv
<1>. QED
  BY <1>1, <1>2, LedgerInvInit, LedgerInvStep, PTL DEF Spec, Ledger!Spec, ImplementsLedger


(***************************************************************************)
(* The queue page: every spinner ends, a page at rest shows what the       *)
(* server has, and a bulk is scheduled as it was reviewed.                 *)
(***************************************************************************)
(* What a request is about follows from its kind.                          *)
Fits(r) ==
  /\ r.kind \in OfCard <=> r.item # 0
  /\ r.kind \in OfCard \cup {"now"} => r.next = "none"
  /\ r.kind = "bulk" => r.next \in {"close", "upload"}
  /\ r.kind = "fetch" => r.reply # Done
  /\ r.kind # "fetch" => r.reply \in {Null, Refused, Done}

(* The times a review shows are those of some rows, in their order.        *)
Ahead(S, i) == {j \in S : j < i}
InOrderOf(S, start, days) == [i \in S |-> <<start, Start + Cardinality(Ahead(S, i)) * days>>]
Reviewed(r) ==
  r.kind = "bulk" /\ r.next = "close" =>
    /\ DOMAIN r.shown \in SUBSET Items
    /\ r.shown = InOrderOf(DOMAIN r.shown, r.at, r.interval)

RequestsFit == \A r \in Range(pending) : Fits(r) /\ Reviewed(r)

(* What each spinner waits for.                                            *)
Waits(Q, kinds, i, next) ==
  \E r \in Q : r.kind \in kinds /\ r.item = i /\ r.mine /\ r.next = next
WaitsInModal(Q, kinds, i, next) ==
  \E r \in Q : r.kind \in kinds /\ r.item = i /\ r.mine /\ r.modal /\ r.next = next

Fetching(Q) == \E r \in Q : r.kind = "fetch"
CardWaits(Q, i, c) == /\ c.busy # Null => Waits(Q, {c.busy}, i, "none")
                      /\ c.loading => WaitsInModal(Q, {"schedule"}, i, "none")
PageWaits(Q, p) == /\ p.loading => WaitsInModal(Q, {"bulk", "fetch"}, 0, "close")
                   /\ p.uploading => \/ Waits(Q, {"now"}, 0, "none")
                                     \/ Waits(Q, {"fetch"}, 0, "uploaded")

SpinnersWait ==
  /\ loading => Fetching(Range(pending))
  /\ \A i \in Items : CardWaits(Range(pending), i, card[i])
  /\ PageWaits(Range(pending), page)

(* Why the page does not show what is stored: an answer is on its way.     *)
Granted(Q, kind, i) ==
  \E r \in Q : r.kind = kind /\ r.item = i /\ r.reply \notin {Null, Refused}
Refetch(Q) == Fetching(Q) \/ Granted(Q, "bulk", 0) \/ Granted(Q, "now", 0)

Explained(Q, list, stored) ==
  /\ DOMAIN stored \subseteq DOMAIN list
  /\ \A i \in DOMAIN list \ DOMAIN stored : Granted(Q, "delete", i)
  /\ \A i \in DOMAIN stored :
       /\ list[i].at = stored[i].at \/ Granted(Q, "schedule", i)
       /\ stored[i].status \in Becomes(list[i].status) \/ Granted(Q, "retry", i)

DeletedIsGone == \A i \in DOMAIN rows : ~Granted(Range(pending), "delete", i)
DifferenceExplained ==
  calm => Refetch(Range(pending)) \/ Explained(Range(pending), items, rows)

IInv == PageTypeOK /\ RequestsFit /\ SpinnersWait /\ DeletedIsGone /\ DifferenceExplained

-----------------------------------------------------------------------------
(* Values and their types.                                                 *)

LEMMA ConstantFacts ==
  /\ NumItems \in Nat \ {0} /\ MaxActs \in Nat /\ 0 \notin Items /\ Items \subseteq Nat
  /\ 0 \in 0 .. MaxActs /\ Never \in Times /\ FreshCard \in Card /\ FreshPage \in Page
BY QueueConstants
   DEF QueueConstants, Items, Never, Times, Start, FreshCard, Card, FreshPage, Page

LEMMA TableIs == ASSUME NEW f
                 PROVE  f \in Tables <=> \E S \in SUBSET Items : f \in [S -> QueueRow]
BY DEF Tables

LEMMA AnswerFacts ==
  /\ Null # Refused /\ Done \notin {Null, Refused} /\ Null \notin OfCard
  /\ \A v \in {Null, Refused, Done} : v \notin Tables
BY AnswersDiffer, TableIs

LEMMA TableFacts ==
  ASSUME NEW f \in Tables
  PROVE  /\ DOMAIN f \subseteq Items /\ f \in [DOMAIN f -> QueueRow]
         /\ \A i \in DOMAIN f : f[i].status \in Statuses /\ f[i].at \in Times
BY TableIs DEF QueueRow

LEMMA TableOf ==
  ASSUME NEW S \in SUBSET Items, NEW f, f = [i \in S |-> f[i]], \A i \in S : f[i] \in QueueRow
  PROVE  f \in Tables
<1>1. f \in [S -> QueueRow]
  OBVIOUS
<1>. QED
  BY <1>1, TableIs

LEMMA RequestFacts ==
  ASSUME NEW kind \in OfCard \cup {"bulk", "now", "fetch"}, NEW item \in {0} \cup Items,
         NEW next \in {"none", "close", "upload", "uploaded"}
  PROVE  Request(kind, item, next) \in Requests
BY ConstantFacts DEF Request, Requests

(* What a request is about, once it is under way.                          *)
Same(r, q) ==
  /\ q.kind = r.kind /\ q.item = r.item /\ q.at = r.at /\ q.interval = r.interval
  /\ q.shown = r.shown
  /\ q.next = r.next /\ q.reply = r.reply

(* A request whose card or modal is gone.                                  *)
Left(r, who) ==
  IF r.item \in {0} \cup who THEN r ELSE [r EXCEPT !.mine = FALSE, !.modal = FALSE]
Shut(r, owner) == [r EXCEPT !.modal = @ /\ r.item # owner]
Gone(r) == [r EXCEPT !.mine = FALSE, !.modal = FALSE]

LEMMA LeftFacts ==
  ASSUME NEW r \in Requests, NEW who
  PROVE  /\ Left(r, who) \in Requests /\ Same(r, Left(r, who))
         /\ r.item \in {0} \cup who => Left(r, who) = r
BY DEF Left, Requests, Same

LEMMA ShutFacts ==
  ASSUME NEW r \in Requests, NEW owner
  PROVE  /\ Shut(r, owner) \in Requests /\ Same(r, Shut(r, owner))
         /\ Shut(r, owner).mine = r.mine
         /\ Shut(r, owner).modal = (r.modal /\ r.item # owner)
BY DEF Shut, Requests, Same

LEMMA GoneFacts ==
  ASSUME NEW r \in Requests
  PROVE  Gone(r) \in Requests /\ Same(r, Gone(r))
BY DEF Gone, Requests, Same

LEMMA ClosedFacts ==
  ASSUME NEW reqs \in Seq(Requests), NEW owner
  PROVE  /\ Closed(reqs, owner) \in Seq(Requests)
         /\ Range(Closed(reqs, owner)) = {Shut(r, owner) : r \in Range(reqs)}
<1>. DEFINE t == Closed(reqs, owner)
<1>1. /\ t = [j \in DOMAIN reqs |-> t[j]]
      /\ \A j \in DOMAIN reqs : t[j] = Shut(reqs[j], owner)
  BY DEF Closed, Shut
<1>2. \A j \in DOMAIN reqs : t[j] \in Requests
  BY <1>1, ShutFacts
<1>. HIDE DEF t
<1>3. t \in Seq(Requests) /\ Range(t) = {t[j] : j \in DOMAIN reqs}
  BY <1>1, <1>2, SequenceOf
<1>4. Range(t) = {Shut(r, owner) : r \in Range(reqs)}
  BY <1>1, <1>3 DEF Range
<1>. QED
  BY <1>3, <1>4 DEF t

LEMMA RedrawFacts ==
  ASSUME NEW list \in Tables, NEW p \in Page, NEW cards \in [Items -> Card],
         NEW reqs \in Seq(Requests), Redraw(list, p, cards, reqs)
  PROVE  /\ items' = list /\ page' = p /\ card' \in [Items -> Card]
         /\ \A i \in Items : card'[i] = IF i \in Shown(list, p) THEN cards[i] ELSE FreshCard
         /\ pending' \in Seq(Requests)
         /\ Range(pending') = {Left(r, Shown(list, p)) : r \in Range(reqs)}
<1>. DEFINE t == [k \in DOMAIN reqs |-> Left(reqs[k], Shown(list, p))]
<1>1. pending' = t /\ items' = list /\ page' = p
  BY DEF Redraw, Left
<1>2. /\ t = [j \in DOMAIN reqs |-> t[j]]
      /\ \A j \in DOMAIN reqs : t[j] = Left(reqs[j], Shown(list, p))
  OBVIOUS
<1>3. \A j \in DOMAIN reqs : t[j] \in Requests
  BY <1>2, LeftFacts
<1>. HIDE DEF t
<1>4. t \in Seq(Requests) /\ Range(t) = {t[j] : j \in DOMAIN reqs}
  BY <1>2, <1>3, SequenceOf
<1>5. Range(t) = {Left(r, Shown(list, p)) : r \in Range(reqs)}
  BY <1>2, <1>4 DEF Range
<1>6. /\ card' \in [Items -> Card]
      /\ \A i \in Items : card'[i] = IF i \in Shown(list, p) THEN cards[i] ELSE FreshCard
  BY ConstantFacts DEF Redraw
<1>. QED
  BY <1>1, <1>4, <1>5, <1>6

-----------------------------------------------------------------------------
(* What the invariants say of the requests depends on what these are about *)
(* and, for the spinners, on who still waits for them.                     *)

Alike(Q, R) == /\ \A r \in Q : \E q \in R : Same(r, q)
               /\ \A q \in R : \E r \in Q : Same(r, q)

LEMMA FitsSame ==
  ASSUME NEW r, NEW q, Same(r, q), Fits(r), Reviewed(r)
  PROVE  Fits(q) /\ Reviewed(q)
BY DEF Same, Fits, Reviewed

LEMMA FitsAlike ==
  ASSUME NEW Q, NEW R, Alike(Q, R), \A r \in Q : Fits(r) /\ Reviewed(r)
  PROVE  \A q \in R : Fits(q) /\ Reviewed(q)
BY FitsSame DEF Alike

LEMMA GrantedAlike ==
  ASSUME NEW Q, NEW R, Alike(Q, R)
  PROVE  /\ Fetching(Q) <=> Fetching(R)
         /\ \A kind, i : Granted(Q, kind, i) <=> Granted(R, kind, i)
         /\ Refetch(Q) <=> Refetch(R)
<1>1. Fetching(Q) <=> Fetching(R)
  BY DEF Alike, Same, Fetching
<1>2. ASSUME NEW kind, NEW i PROVE Granted(Q, kind, i) <=> Granted(R, kind, i)
  BY DEF Alike, Same, Granted
<1>. QED
  BY <1>1, <1>2 DEF Refetch

LEMMA ExplainedAlike ==
  ASSUME NEW Q, NEW R, Alike(Q, R), NEW list, NEW stored, Explained(Q, list, stored)
  PROVE  Explained(R, list, stored)
BY GrantedAlike DEF Explained

LEMMA AlikeLeft ==
  ASSUME NEW Q \in SUBSET Requests, NEW who
  PROVE  Alike(Q, {Left(r, who) : r \in Q}) /\ {Left(r, who) : r \in Q} \subseteq Requests
BY LeftFacts DEF Alike

LEMMA AlikeShut ==
  ASSUME NEW Q \in SUBSET Requests, NEW owner
  PROVE  Alike(Q, {Shut(r, owner) : r \in Q}) /\ {Shut(r, owner) : r \in Q} \subseteq Requests
BY ShutFacts DEF Alike

LEMMA AlikeGone ==
  ASSUME NEW Q \in SUBSET Requests
  PROVE  Alike(Q, {Gone(r) : r \in Q}) /\ {Gone(r) : r \in Q} \subseteq Requests
BY GoneFacts DEF Alike

(* The spinners. *)

LEMMA WaitsLeft ==
  ASSUME NEW Q \in SUBSET Requests, NEW who
  PROVE  /\ \A i \in who : \A c : CardWaits(Q, i, c) => CardWaits({Left(r, who) : r \in Q}, i, c)
         /\ \A p : PageWaits(Q, p) => PageWaits({Left(r, who) : r \in Q}, p)
<1>. DEFINE R == {Left(r, who) : r \in Q}
<1>1. \A r \in Q : r.item \in {0} \cup who => r \in R
  <2>. SUFFICES ASSUME NEW r \in Q, r.item \in {0} \cup who PROVE r \in R
    OBVIOUS
  <2>1. Left(r, who) = r
    BY LeftFacts
  <2>. QED
    BY <2>1
<1>. HIDE DEF R
<1>2. \A i \in {0} \cup who : \A kinds, next :
        /\ Waits(Q, kinds, i, next) => Waits(R, kinds, i, next)
        /\ WaitsInModal(Q, kinds, i, next) => WaitsInModal(R, kinds, i, next)
  BY <1>1 DEF Waits, WaitsInModal
<1>3. \A i \in who : \A c : CardWaits(Q, i, c) => CardWaits(R, i, c)
  BY <1>2 DEF CardWaits
<1>4. \A p : PageWaits(Q, p) => PageWaits(R, p)
  BY <1>2 DEF PageWaits
<1>. QED
  BY <1>3, <1>4 DEF R

LEMMA WaitsShut ==
  ASSUME NEW Q \in SUBSET Requests, NEW owner
  PROVE  LET R == {Shut(r, owner) : r \in Q} IN
         /\ \A kinds, i, next : Waits(Q, kinds, i, next) => Waits(R, kinds, i, next)
         /\ \A kinds, i, next : i # owner /\ WaitsInModal(Q, kinds, i, next) =>
                                  WaitsInModal(R, kinds, i, next)
<1>. DEFINE R == {Shut(r, owner) : r \in Q}
<1>1. \A r \in Q : /\ Shut(r, owner) \in R /\ Same(r, Shut(r, owner))
                   /\ Shut(r, owner).mine = r.mine
                   /\ Shut(r, owner).modal = (r.modal /\ r.item # owner)
  BY ShutFacts
<1>. HIDE DEF R
<1>2. ASSUME NEW kinds, NEW i, NEW next, Waits(Q, kinds, i, next)
      PROVE  Waits(R, kinds, i, next)
  BY <1>1, <1>2 DEF Waits, Same
<1>3. ASSUME NEW kinds, NEW i, NEW next, i # owner, WaitsInModal(Q, kinds, i, next)
      PROVE  WaitsInModal(R, kinds, i, next)
  <2>1. PICK r \in Q : r.kind \in kinds /\ r.item = i /\ r.mine /\ r.modal /\ r.next = next
    BY <1>3 DEF WaitsInModal
  <2>2. Shut(r, owner).modal = (r.modal /\ r.item # owner)
    BY <1>1
  <2>3. /\ Shut(r, owner) \in R /\ Same(r, Shut(r, owner)) /\ Shut(r, owner).mine = r.mine
    BY <1>1
  <2>. QED
    BY <1>3, <2>1, <2>2, <2>3 DEF WaitsInModal, Same
<1>. QED
  BY <1>2, <1>3 DEF R

LEMMA WaitsGrow ==
  ASSUME NEW Q, NEW R, Q \subseteq R
  PROVE  /\ Fetching(Q) => Fetching(R)
         /\ \A i, c : CardWaits(Q, i, c) => CardWaits(R, i, c)
         /\ \A p : PageWaits(Q, p) => PageWaits(R, p)
         /\ \A kind, i : Granted(Q, kind, i) => Granted(R, kind, i)
         /\ Refetch(Q) => Refetch(R)
BY DEF Fetching, CardWaits, PageWaits, Waits, WaitsInModal, Granted, Refetch

LEMMA FreshWaits == \A Q, i : CardWaits(Q, i, FreshCard)
BY DEF CardWaits, FreshCard

-----------------------------------------------------------------------------
(* What the server does to the rows.                                       *)

LEMMA AheadFacts ==
  ASSUME NEW S \in SUBSET Items, NEW i
  PROVE  IsFiniteSet(Ahead(S, i)) /\ Cardinality(Ahead(S, i)) \in Nat
<1>1. IsFiniteSet(Items)
  BY ConstantFacts, FS_Interval DEF Items
<1>2. Ahead(S, i) \in SUBSET Items
  BY DEF Ahead
<1>3. IsFiniteSet(Ahead(S, i))
  BY <1>1, <1>2, FS_Subset
<1>. QED
  BY <1>3, FS_CardinalityType

LEMMA Product ==
  ASSUME NEW a \in Nat, NEW days \in Nat
  PROVE  Start + a * days \in Nat
BY DEF Start

LEMMA ProductGrows ==
  ASSUME NEW a \in Nat, NEW b \in Nat, NEW days \in Nat, a <= b
  PROVE  Start + a * days <= Start + b * days
BY DEF Start

LEMMA PlaceFacts ==
  ASSUME NEW S \in SUBSET Items, NEW start \in 0 .. MaxActs, NEW days \in Nat
  PROVE  InOrderOf(S, start, days) \in [S -> Times]
<1>. SUFFICES ASSUME NEW i \in S
              PROVE  Start + Cardinality(Ahead(S, i)) * days \in Nat
  BY DEF InOrderOf, Times
<1>. QED
  BY AheadFacts, Product

(* Fewer clips ahead, and a clip is due no later. *)
LEMMA PlaceShrinks ==
  ASSUME NEW S \in SUBSET Items, NEW R \in SUBSET Items, NEW i, NEW days \in Nat,
         Ahead(S, i) \subseteq Ahead(R, i)
  PROVE  Start + Cardinality(Ahead(S, i)) * days <= Start + Cardinality(Ahead(R, i)) * days
<1>1. Cardinality(Ahead(S, i)) <= Cardinality(Ahead(R, i))
  BY AheadFacts, FS_Subset
<1>. QED
  BY <1>1, AheadFacts, ProductGrows

LEMMA QueuedOfFacts ==
  ASSUME NEW list \in Tables
  PROVE  /\ QueuedOf(list) \in SUBSET Items
         /\ \A i : QueuedBefore(list, i) = Ahead(QueuedOf(list), i)
BY TableFacts DEF QueuedOf, QueuedBefore, Ahead

(* What the review shows, and what the server stores. *)
LEMMA PreviewFacts ==
  ASSUME NEW list \in Tables, NEW start \in 0 .. MaxActs, NEW days \in Nat
  PROVE  /\ Preview(list, start, days) = InOrderOf(QueuedOf(list), start, days)
         /\ Preview(list, start, days) \in [QueuedOf(list) -> Times]
<1>1. Preview(list, start, days) = InOrderOf(QueuedOf(list), start, days)
  BY DEF Preview, InOrderOf, QueuedBefore, Ahead
<1>2. QueuedOf(list) \in SUBSET Items
  BY QueuedOfFacts
<1>3. InOrderOf(QueuedOf(list), start, days) \in [QueuedOf(list) -> Times]
  BY <1>2, PlaceFacts
<1>. QED
  BY <1>1, <1>3

LEMMA SpreadFacts ==
  ASSUME NEW list \in Tables, NEW r \in Requests
  PROVE  /\ Spread(list, r) = InOrderOf(QueuedOf(list), r.at, Step(r))
         /\ Spread(list, r) \in [QueuedOf(list) -> Times]
<1>1. Spread(list, r) = InOrderOf(QueuedOf(list), r.at, Step(r))
  BY DEF Spread, InOrderOf, QueuedBefore, Ahead
<1>2. r.at \in 0 .. MaxActs /\ Step(r) \in Nat
  BY DEF Requests, Step
<1>3. QueuedOf(list) \in SUBSET Items
  BY QueuedOfFacts
<1>4. InOrderOf(QueuedOf(list), r.at, Step(r)) \in [QueuedOf(list) -> Times]
  BY <1>2, <1>3, PlaceFacts
<1>. QED
  BY <1>1, <1>4

LEMMA SetAtFacts ==
  ASSUME NEW list \in Tables, NEW S, NEW at \in [S -> Times]
  PROVE  /\ SetAt(list, at) \in Tables /\ DOMAIN SetAt(list, at) = DOMAIN list
         /\ \A i \in DOMAIN list :
              /\ SetAt(list, at)[i].status = list[i].status
              /\ SetAt(list, at)[i].at = IF i \in S THEN at[i] ELSE list[i].at
<1>. DEFINE t == SetAt(list, at)
<1>1. list \in [DOMAIN list -> QueueRow] /\ DOMAIN list \in SUBSET Items
  BY TableFacts
<1>2. t = [i \in DOMAIN list |-> t[i]] /\ DOMAIN t = DOMAIN list
  BY DEF SetAt
<1>3. ASSUME NEW i \in DOMAIN list
      PROVE  /\ t[i] \in QueueRow /\ t[i].status = list[i].status
             /\ t[i].at = IF i \in S THEN at[i] ELSE list[i].at
  <2>1. list[i] \in QueueRow
    BY <1>1
  <2>2. t[i] = IF i \in S THEN [list[i] EXCEPT !.at = at[i]] ELSE list[i]
    BY DEF SetAt
  <2>. HIDE DEF t
  <2>. QED
    BY <2>1, <2>2 DEF QueueRow
<1>. HIDE DEF t
<1>4. t \in Tables
  BY <1>1, <1>2, <1>3, TableOf
<1>. QED
  BY <1>2, <1>3, <1>4 DEF t

LEMMA TimedFacts ==
  ASSUME NEW list \in Tables, NEW r \in Requests
  PROVE  /\ Timed(list, r) \in Tables /\ DOMAIN Timed(list, r) = DOMAIN list
         /\ \A i \in DOMAIN list :
              /\ Timed(list, r)[i].status = list[i].status
              /\ Timed(list, r)[i].at = IF i = r.item THEN <<r.at, Start>> ELSE list[i].at
<1>1. [i \in {r.item} |-> <<r.at, Start>>] \in [{r.item} -> Times]
  BY ConstantFacts DEF Requests, Times, Start
<1>2. \A i \in {r.item} : [j \in {r.item} |-> <<r.at, Start>>][i] = <<r.at, Start>>
  OBVIOUS
<1>. QED
  BY <1>1, <1>2, SetAtFacts DEF Timed

LEMMA QueuedFacts ==
  ASSUME NEW list \in Tables, NEW item
  PROVE  /\ Requeued(list, item) \in Tables /\ DOMAIN Requeued(list, item) = DOMAIN list
         /\ \A i \in DOMAIN list :
              /\ Requeued(list, item)[i].at = list[i].at
              /\ Requeued(list, item)[i].status =
                   IF i = item THEN "queued" ELSE list[i].status
<1>. DEFINE t == Requeued(list, item)
<1>1. list \in [DOMAIN list -> QueueRow] /\ DOMAIN list \in SUBSET Items
  BY TableFacts
<1>2. t = [i \in DOMAIN list |-> t[i]] /\ DOMAIN t = DOMAIN list
  BY DEF Requeued
<1>3. ASSUME NEW i \in DOMAIN list
      PROVE  /\ t[i] \in QueueRow /\ t[i].at = list[i].at
             /\ t[i].status = IF i = item THEN "queued" ELSE list[i].status
  <2>1. list[i] \in QueueRow
    BY <1>1
  <2>2. t[i] = IF i = item THEN [list[i] EXCEPT !.status = "queued"] ELSE list[i]
    BY DEF Requeued
  <2>. HIDE DEF t
  <2>. QED
    BY <2>1, <2>2 DEF QueueRow, Statuses
<1>. HIDE DEF t
<1>4. t \in Tables
  BY <1>1, <1>2, <1>3, TableOf
<1>. QED
  BY <1>2, <1>3, <1>4 DEF t

LEMMA WithoutFacts ==
  ASSUME NEW list \in Tables, NEW item
  PROVE  /\ Without(list, item) \in Tables
         /\ DOMAIN Without(list, item) = DOMAIN list \ {item}
         /\ \A i \in DOMAIN list \ {item} : Without(list, item)[i] = list[i]
<1>. DEFINE t == Without(list, item)
<1>1. list \in [DOMAIN list -> QueueRow] /\ DOMAIN list \ {item} \in SUBSET Items
  BY TableFacts
<1>2. /\ t = [i \in DOMAIN list \ {item} |-> t[i]] /\ DOMAIN t = DOMAIN list \ {item}
      /\ \A i \in DOMAIN list \ {item} : t[i] = list[i]
  BY DEF Without
<1>. HIDE DEF t
<1>3. t \in Tables
  BY <1>1, <1>2, TableOf
<1>. QED
  BY <1>2, <1>3 DEF t

LEMMA UploadNowFacts ==
  ASSUME NEW r \in Requests, NEW list \in UploadsNow(r), rows \in Tables
  PROVE  list \in Tables /\ DOMAIN list = DOMAIN rows
<1>1. PICK who \in SUBSET QueuedOf(rows) : list = SetAt(rows, [i \in who |-> <<r.at, Now>>])
  BY DEF UploadsNow
<1>2. [i \in who |-> <<r.at, Now>>] \in [who -> Times]
  BY ConstantFacts DEF Requests, Times, Now
<1>. QED
  BY <1>1, <1>2, SetAtFacts

-----------------------------------------------------------------------------
(* The shapes of the steps. *)

Rest(k) == {pending[j] : j \in DOMAIN pending \ {k}}

LEMMA PendingFacts ==
  ASSUME IInv
  PROVE  /\ pending \in Seq(Requests) /\ Range(pending) \in SUBSET Requests
         /\ \A r \in Range(pending) : Fits(r) /\ Reviewed(r)
         /\ loading => Fetching(Range(pending))
         /\ \A i \in Items : CardWaits(Range(pending), i, card[i])
         /\ PageWaits(Range(pending), page)
         /\ \A i \in DOMAIN rows : ~Granted(Range(pending), "delete", i)
         /\ calm => Refetch(Range(pending)) \/ Explained(Range(pending), items, rows)
<1>1. pending \in Seq(Requests)
  BY DEF IInv, PageTypeOK
<1>2. Range(pending) \subseteq Requests
  BY <1>1, RangeIn
<1>. QED
  BY <1>1, <1>2 DEF IInv, RequestsFit, SpinnersWait, DeletedIsGone, DifferenceExplained

LEMMA ActFacts == ASSUME IInv, Act PROVE acts' \in 0 .. MaxActs
BY ConstantFacts DEF IInv, PageTypeOK, Act, May

LEMMA OneFacts ==
  ASSUME IInv, NEW k \in DOMAIN pending
  PROVE  /\ pending[k] \in Requests /\ Fits(pending[k]) /\ Reviewed(pending[k])
         /\ Rest(k) \in SUBSET Requests
         /\ Range(pending) = Rest(k) \cup {pending[k]}
         /\ Others(k) \in Seq(Requests) /\ Range(Others(k)) = Rest(k)
         /\ \A r \in Rest(k) : Fits(r) /\ Reviewed(r)
         /\ \A i \in DOMAIN rows : ~Granted(Rest(k), "delete", i)
<1>1. /\ pending \in Seq(Requests) /\ Range(pending) \subseteq Requests
      /\ \A r \in Range(pending) : Fits(r) /\ Reviewed(r)
      /\ \A i \in DOMAIN rows : ~Granted(Range(pending), "delete", i)
  BY PendingFacts
<1>2. Range(pending) = Rest(k) \cup {pending[k]}
  BY <1>1, RangeSplit DEF Rest
<1>3. Others(k) \in Seq(Requests) /\ Range(Others(k)) = Rest(k)
  BY <1>1, RangeWithout DEF Others, RemoveAt, Rest
<1>4. \A i \in DOMAIN rows : ~Granted(Rest(k), "delete", i)
  BY <1>1, <1>2 DEF Granted
<1>. QED
  BY <1>1, <1>2, <1>3, <1>4

(* A step that asks, moves something on the page, or closes a modal: what  *)
(* is under way stays, and no answer is applied.                           *)
LEMMA PageStepInv ==
  ASSUME IInv, UNCHANGED <<rows, items, calm>>,
         loading' \in BOOLEAN, card' \in [Items -> Card], page' \in Page,
         acts' \in 0 .. MaxActs, pending' \in Seq(Requests),
         NEW Q \in SUBSET Requests, Alike(Range(pending), Q), Q \subseteq Range(pending'),
         \A r \in Range(pending') : r \in Q \/ (Fits(r) /\ Reviewed(r) /\ r.reply = Null),
         loading' => Fetching(Range(pending')),
         \A i \in Items : CardWaits(Range(pending'), i, card'[i]),
         PageWaits(Range(pending'), page')
  PROVE  IInv'
<1>1. PageTypeOK'
  BY DEF IInv, PageTypeOK
<1>2. RequestsFit'
  <2>1. \A r \in Q : Fits(r) /\ Reviewed(r)
    BY FitsAlike, PendingFacts
  <2>. QED
    BY <2>1 DEF RequestsFit, Fits, Reviewed
<1>3. SpinnersWait'
  <2>1. /\ Fetching(Range(pending))' = Fetching(Range(pending'))
        /\ PageWaits(Range(pending), page)' = PageWaits(Range(pending'), page')
    BY DEF Fetching, PageWaits, Waits, WaitsInModal
  <2>. QED
    BY <2>1 DEF SpinnersWait, CardWaits, Waits, WaitsInModal
<1>4. \A kind, i : Granted(Range(pending'), kind, i) <=> Granted(Range(pending), kind, i)
  <2>1. \A kind, i : Granted(Range(pending'), kind, i) <=> Granted(Q, kind, i)
    BY DEF Granted
  <2>. QED
    BY <2>1, GrantedAlike
<1>5. DeletedIsGone'
  BY <1>4, PendingFacts DEF DeletedIsGone, Granted
<1>6. DifferenceExplained'
  <2>1. Refetch(Range(pending)) => Refetch(Range(pending'))
    BY GrantedAlike, WaitsGrow
  <2>2. Explained(Range(pending), items, rows) => Explained(Range(pending'), items', rows')
    BY <1>4 DEF Explained
  <2>. QED
    BY <2>1, <2>2, PendingFacts
       DEF DifferenceExplained, Refetch, Fetching, Explained, Granted
<1>. QED
  BY <1>1, <1>2, <1>3, <1>5, <1>6 DEF IInv

LEMMA AskFacts ==
  ASSUME IInv, NEW r \in Requests, Ask(r)
  PROVE  /\ pending' \in Seq(Requests) /\ Range(pending') = Range(pending) \cup {r}
         /\ Alike(Range(pending), Range(pending))
         /\ \A i, c : CardWaits(Range(pending), i, c) => CardWaits(Range(pending'), i, c)
         /\ \A p : PageWaits(Range(pending), p) => PageWaits(Range(pending'), p)
         /\ Fetching(Range(pending)) => Fetching(Range(pending'))
<1>1. pending' \in Seq(Requests) /\ Range(pending') = Range(pending) \cup {r}
  BY PendingFacts, RangeAppend DEF Ask
<1>2. Alike(Range(pending), Range(pending))
  BY DEF Alike, Same
<1>. QED
  BY <1>1, <1>2, WaitsGrow

(* A request just made. *)
Asking(r, kind, item, next) ==
  r.kind = kind /\ r.item = item /\ r.next = next /\ r.reply = Null

(* A card asks: one of its buttons is disabled, and its modal may be.      *)
LEMMA CardAsksInv ==
  ASSUME IInv, NEW i \in Items, NEW kind \in OfCard, Act,
         NEW r \in Requests, Asking(r, kind, i, "none"), r.mine, r.modal, Ask(r),
         NEW inModal \in BOOLEAN, inModal => kind = "schedule",
         card' = [card EXCEPT ![i].busy = kind, ![i].loading = @ \/ inModal],
         UNCHANGED <<rows, items, loading, page, calm>>
  PROVE  IInv'
<1>1. /\ Fits(r) /\ Reviewed(r) /\ r.reply = Null
      /\ r.kind = kind /\ r.item = i /\ r.mine /\ r.modal /\ r.next = "none"
  BY ConstantFacts DEF Asking, Fits, Reviewed, OfCard
<1>3. /\ pending' \in Seq(Requests) /\ Range(pending') = Range(pending) \cup {r}
      /\ Alike(Range(pending), Range(pending))
      /\ \A j, c : CardWaits(Range(pending), j, c) => CardWaits(Range(pending'), j, c)
      /\ \A p : PageWaits(Range(pending), p) => PageWaits(Range(pending'), p)
      /\ Fetching(Range(pending)) => Fetching(Range(pending'))
  BY AskFacts
<1>4. /\ card \in [Items -> Card] /\ acts \in 0 .. MaxActs /\ loading \in BOOLEAN
      /\ page \in Page
  BY DEF IInv, PageTypeOK
<1>5. /\ card' \in [Items -> Card]
      /\ \A j \in Items \ {i} : card'[j] = card[j]
      /\ card'[i].busy = kind /\ card'[i].loading = (card[i].loading \/ inModal)
  BY <1>4 DEF Card
<1>6. CardWaits(Range(pending'), i, card'[i])
  <2>1. CardWaits(Range(pending'), i, card[i])
    BY <1>3, PendingFacts
  <2>. QED
    BY <1>1, <1>3, <1>5, <2>1 DEF CardWaits, Waits, WaitsInModal
<1>7. \A j \in Items : CardWaits(Range(pending'), j, card'[j])
  BY <1>3, <1>5, <1>6, PendingFacts
<1>8. acts' \in 0 .. MaxActs
  BY <1>4, ConstantFacts DEF Act, May
<1>9. \A q \in Range(pending') :
        q \in Range(pending) \/ (Fits(q) /\ Reviewed(q) /\ q.reply = Null)
  BY <1>1, <1>3
<1>10. Range(pending) \in SUBSET Requests /\ Range(pending) \subseteq Range(pending')
  BY <1>3, PendingFacts
<1>11. loading' => Fetching(Range(pending'))
  BY <1>3, PendingFacts
<1>12. PageWaits(Range(pending'), page')
  BY <1>3, PendingFacts
<1>. QED
  BY <1>3, <1>4, <1>5, <1>7, <1>8, <1>9, <1>10, <1>11, <1>12, PageStepInv

LEMMA RetryInv == ASSUME IInv, NEW i \in Items, Retry(i) PROVE IInv'
<1>. DEFINE r == Request("retry", i, "none")
<1>1. r \in Requests /\ Asking(r, "retry", i, "none") /\ r.mine /\ r.modal
  BY RequestFacts DEF Request, Asking, OfCard
<1>2. card' = [card EXCEPT ![i].busy = "retry", ![i].loading = @ \/ FALSE]
  BY DEF Retry, IInv, PageTypeOK, Card
<1>. QED
  BY <1>1, <1>2, CardAsksInv DEF Retry, OfCard

LEMMA DeleteInv == ASSUME IInv, NEW i \in Items, Delete(i) PROVE IInv'
<1>. DEFINE r == Request("delete", i, "none")
<1>1. r \in Requests /\ Asking(r, "delete", i, "none") /\ r.mine /\ r.modal
  BY RequestFacts DEF Request, Asking, OfCard
<1>2. card' = [card EXCEPT ![i].busy = "delete", ![i].loading = @ \/ FALSE]
  BY DEF Delete, IInv, PageTypeOK, Card
<1>. QED
  BY <1>1, <1>2, CardAsksInv DEF Delete, OfCard

LEMMA ConfirmScheduleInv == ASSUME IInv, NEW i \in Items, ConfirmSchedule(i) PROVE IInv'
<1>. DEFINE q == Request("schedule", i, "none")
            r == [q EXCEPT !.at = acts + 1]
<1>1. acts + 1 \in 0 .. MaxActs
  BY ConstantFacts DEF IInv, PageTypeOK, ConfirmSchedule, Act, May
<1>2. q \in Requests /\ Asking(q, "schedule", i, "none") /\ q.mine /\ q.modal
  BY RequestFacts DEF Request, Asking, OfCard
<1>3. r \in Requests /\ Asking(r, "schedule", i, "none") /\ r.mine /\ r.modal
  <2>. HIDE DEF q
  <2>. QED
    BY <1>1, <1>2 DEF Requests, Asking
<1>4. card' = [card EXCEPT ![i].busy = "schedule", ![i].loading = @ \/ TRUE]
  BY DEF ConfirmSchedule, IInv, PageTypeOK, Card
<1>5. Ask(r) /\ Act
  BY DEF ConfirmSchedule
<1>. HIDE DEF r
<1>. QED
  BY <1>3, <1>4, <1>5, CardAsksInv DEF ConfirmSchedule, OfCard

(* What moves nothing but the page: no spinner begins.                     *)
LEMMA StillInv ==
  ASSUME IInv, UNCHANGED <<rows, items, loading, pending, calm>>, acts' = acts \/ Act,
         card' \in [Items -> Card], page' \in Page,
         \A i \in Items : card'[i].busy = card[i].busy /\ card'[i].loading = card[i].loading,
         page'.loading = page.loading, page'.uploading = page.uploading
  PROVE  IInv'
<1>1. Alike(Range(pending), Range(pending))
  BY DEF Alike, Same
<1>2. /\ pending' \in Seq(Requests) /\ acts' \in 0 .. MaxActs /\ loading' \in BOOLEAN
      /\ Range(pending') = Range(pending)
  BY QueueConstants DEF IInv, PageTypeOK, Act, May, QueueConstants
<1>3. \A i \in Items : CardWaits(Range(pending'), i, card'[i])
  BY <1>2, PendingFacts DEF CardWaits
<1>4. PageWaits(Range(pending'), page')
  BY <1>2, PendingFacts DEF PageWaits
<1>. QED
  BY <1>1, <1>2, <1>3, <1>4, PendingFacts, PageStepInv

LEMMA OpenReviewInv == ASSUME IInv, NEW i \in Items, OpenReview(i) PROVE IInv'
<1>1. /\ card' \in [Items -> Card]
      /\ \A j \in Items : card'[j].busy = card[j].busy /\ card'[j].loading = card[j].loading
  BY DEF OpenReview, IInv, PageTypeOK, Card
<1>2. page' \in Page
  BY DEF OpenReview, IInv, PageTypeOK
<1>. QED
  BY <1>1, <1>2, StillInv DEF OpenReview

LEMMA ToggleFormInv == ASSUME IInv, ToggleForm PROVE IInv'
<1>1. /\ page' \in Page /\ card' \in [Items -> Card]
      /\ page'.loading = page.loading /\ page'.uploading = page.uploading
  BY DEF ToggleForm, IInv, PageTypeOK, Page
<1>. QED
  BY <1>1, StillInv DEF ToggleForm

LEMMA TypeStartInv == ASSUME IInv, TypeStart PROVE IInv'
<1>1. /\ page' \in Page /\ card' \in [Items -> Card]
      /\ page'.loading = page.loading /\ page'.uploading = page.uploading
  BY DEF TypeStart, IInv, PageTypeOK, Page
<1>. QED
  BY <1>1, StillInv DEF TypeStart

LEMMA TypeIntervalInv == ASSUME IInv, TypeInterval PROVE IInv'
<1>1. /\ page' \in Page /\ page'.loading = page.loading /\ page'.uploading = page.uploading
      /\ UNCHANGED <<rows, items, loading, card, pending, calm>>
      /\ Act
  <2>1. PICK days \in Intervals : page' = [page EXCEPT !.interval = days]
    BY DEF TypeInterval
  <2>2. days \in Nat
    BY QueueConstants DEF QueueConstants
  <2>. QED
    BY <2>1, <2>2 DEF TypeInterval, IInv, PageTypeOK, Page
<1>. QED
  BY <1>1, StillInv DEF IInv, PageTypeOK

LEMMA OpenBulkReviewInv == ASSUME IInv, OpenBulkReview PROVE IInv'
<1>1. /\ page' \in Page /\ card' \in [Items -> Card]
      /\ page'.loading = page.loading /\ page'.uploading = page.uploading
  BY DEF OpenBulkReview, IInv, PageTypeOK, Page
<1>. QED
  BY <1>1, StillInv DEF OpenBulkReview

(* The page asks for a bulk. *)
LEMMA PageAsksInv ==
  ASSUME IInv, Act, NEW next \in {"close", "upload"},
         NEW r \in Requests, Asking(r, "bulk", 0, next), Reviewed(r), Ask(r),
         page' \in Page, page'.uploading = page.uploading,
         page'.loading => page.loading \/ (next = "close" /\ r.mine /\ r.modal),
         UNCHANGED <<rows, items, loading, card, calm>>
  PROVE  IInv'
<1>1. /\ Fits(r) /\ r.reply = Null /\ r.kind = "bulk" /\ r.item = 0 /\ r.next = next
  BY ConstantFacts DEF Asking, Fits, OfCard
<1>2. /\ pending' \in Seq(Requests) /\ Range(pending') = Range(pending) \cup {r}
      /\ Alike(Range(pending), Range(pending))
      /\ \A j, c : CardWaits(Range(pending), j, c) => CardWaits(Range(pending'), j, c)
      /\ \A p : PageWaits(Range(pending), p) => PageWaits(Range(pending'), p)
      /\ Fetching(Range(pending)) => Fetching(Range(pending'))
  BY AskFacts
<1>3. /\ card' \in [Items -> Card] /\ acts' \in 0 .. MaxActs /\ loading' \in BOOLEAN
  BY ConstantFacts DEF IInv, PageTypeOK, Act, May
<1>4. \A q \in Range(pending') :
        q \in Range(pending) \/ (Fits(q) /\ Reviewed(q) /\ q.reply = Null)
  BY <1>1, <1>2
<1>5. Range(pending) \in SUBSET Requests /\ Range(pending) \subseteq Range(pending')
  BY <1>2, PendingFacts
<1>6. loading' => Fetching(Range(pending'))
  BY <1>2, PendingFacts
<1>7. \A i \in Items : CardWaits(Range(pending'), i, card'[i])
  BY <1>2, PendingFacts
<1>8. PageWaits(Range(pending'), page')
  <2>1. PageWaits(Range(pending'), page)
    BY <1>2, PendingFacts
  <2>2. next = "close" /\ r.mine /\ r.modal =>
          WaitsInModal(Range(pending'), {"bulk", "fetch"}, 0, "close")
    BY <1>1, <1>2 DEF WaitsInModal
  <2>. QED
    BY <2>1, <2>2 DEF PageWaits
<1>. QED
  BY <1>2, <1>3, <1>4, <1>5, <1>6, <1>7, <1>8, PageStepInv

LEMMA ConfirmBulkInv == ASSUME IInv, ConfirmBulk PROVE IInv'
<1>. DEFINE q == Request("bulk", 0, "close")
            days == page.interval
            times == Preview(items, acts + 1, days)
            r == [q EXCEPT !.at = acts + 1, !.interval = days, !.shown = times]
<1>1. acts + 1 \in 0 .. MaxActs /\ items \in Tables /\ days \in Nat
  BY ConstantFacts DEF IInv, PageTypeOK, ConfirmBulk, Act, May, Page
<1>2. q \in Requests /\ Asking(q, "bulk", 0, "close") /\ q.mine /\ q.modal
  BY RequestFacts DEF Request, Asking
<1>3. /\ times \in UNION {[S -> Times] : S \in SUBSET Items}
      /\ DOMAIN times = QueuedOf(items) /\ QueuedOf(items) \in SUBSET Items
      /\ times = InOrderOf(QueuedOf(items), acts + 1, days)
  <2>. HIDE DEF days
  <2>. QED
    BY <1>1, PreviewFacts, QueuedOfFacts
<1>4. /\ r \in Requests /\ Asking(r, "bulk", 0, "close") /\ r.mine /\ r.modal
      /\ r.at = acts + 1 /\ r.interval = days /\ r.shown = times
  <2>. HIDE DEF q, days, times
  <2>. QED
    BY <1>1, <1>2, <1>3 DEF Requests, Asking
<1>5. Ask(r) /\ Act
  BY DEF ConfirmBulk
<1>. HIDE DEF r, times, days
<1>6. Reviewed(r)
  BY <1>3, <1>4 DEF Reviewed
<1>7. page' \in Page /\ page'.uploading = page.uploading
  BY DEF ConfirmBulk, IInv, PageTypeOK, Page
<1>. QED
  BY <1>4, <1>5, <1>6, <1>7, PageAsksInv DEF ConfirmBulk

LEMMA ScheduleAndUploadNowInv == ASSUME IInv, ScheduleAndUploadNow PROVE IInv'
<1>. DEFINE q == Request("bulk", 0, "upload")
            days == page.interval
            r == [q EXCEPT !.at = acts + 1, !.interval = days, !.modal = FALSE]
<1>1. acts + 1 \in 0 .. MaxActs /\ days \in Nat
  BY ConstantFacts DEF IInv, PageTypeOK, ScheduleAndUploadNow, Act, May, Page
<1>2. q \in Requests /\ Asking(q, "bulk", 0, "upload")
  BY RequestFacts DEF Request, Asking
<1>3. r \in Requests /\ Asking(r, "bulk", 0, "upload")
  <2>. HIDE DEF q, days
  <2>. QED
    BY <1>1, <1>2 DEF Requests, Asking
<1>4. Ask(r) /\ Act
  BY DEF ScheduleAndUploadNow
<1>. HIDE DEF r
<1>5. Reviewed(r)
  BY <1>3 DEF Reviewed, Asking
<1>6. page' \in Page /\ page' = page
  BY DEF ScheduleAndUploadNow, IInv, PageTypeOK
<1>. QED
  BY <1>3, <1>4, <1>5, <1>6, PageAsksInv DEF ScheduleAndUploadNow

(* A modal closes: its spinner goes, and what it asked for has nobody in   *)
(* the modal who waits.                                                    *)
LEMMA CloseReviewInv == ASSUME IInv, NEW i \in Items, CloseReview(i) PROVE IInv'
<1>. DEFINE Q == Range(pending)
            R == {Shut(r, i) : r \in Range(pending)}
<1>1. /\ pending' \in Seq(Requests) /\ Range(pending') = R
  BY PendingFacts, ClosedFacts DEF CloseReview
<1>2. Alike(Q, R) /\ R \in SUBSET Requests
  BY PendingFacts, AlikeShut
<1>3. /\ \A kinds, j, next : Waits(Q, kinds, j, next) => Waits(R, kinds, j, next)
      /\ \A kinds, j, next : j # i /\ WaitsInModal(Q, kinds, j, next) =>
                               WaitsInModal(R, kinds, j, next)
  BY PendingFacts, WaitsShut
<1>4. Fetching(Q) <=> Fetching(R)
  BY <1>2, GrantedAlike
<1>. HIDE DEF Q, R
<1>5. /\ card' \in [Items -> Card] /\ page' \in Page /\ loading' \in BOOLEAN
      /\ acts' \in 0 .. MaxActs /\ page' = page /\ loading' = loading
      /\ \A j \in Items \ {i} : card'[j] = card[j]
      /\ card'[i].busy = card[i].busy /\ card'[i].loading = FALSE
  BY DEF CloseReview, IInv, PageTypeOK, Card
<1>6. /\ \A j \in Items : CardWaits(Q, j, card[j])
      /\ PageWaits(Q, page)
      /\ loading => Fetching(Q)
  BY PendingFacts DEF Q
<1>7. \A j \in Items : CardWaits(R, j, card'[j])
  BY <1>3, <1>5, <1>6 DEF CardWaits
<1>8. PageWaits(R, page')
  BY <1>3, <1>5, <1>6, ConstantFacts DEF PageWaits
<1>9. Q = Range(pending)
  BY DEF Q
<1>. QED
  BY <1>1, <1>2, <1>4, <1>5, <1>6, <1>7, <1>8, <1>9, PageStepInv DEF CloseReview

LEMMA CloseBulkReviewInv == ASSUME IInv, CloseBulkReview PROVE IInv'
<1>. DEFINE Q == Range(pending)
            R == {Shut(r, 0) : r \in Range(pending)}
<1>1. /\ pending' \in Seq(Requests) /\ Range(pending') = R
  BY PendingFacts, ClosedFacts DEF CloseBulkReview
<1>2. Alike(Q, R) /\ R \in SUBSET Requests
  BY PendingFacts, AlikeShut
<1>3. /\ \A kinds, j, next : Waits(Q, kinds, j, next) => Waits(R, kinds, j, next)
      /\ \A kinds, j, next : j # 0 /\ WaitsInModal(Q, kinds, j, next) =>
                               WaitsInModal(R, kinds, j, next)
  BY PendingFacts, WaitsShut
<1>4. Fetching(Q) <=> Fetching(R)
  BY <1>2, GrantedAlike
<1>. HIDE DEF Q, R
<1>5. /\ card' \in [Items -> Card] /\ page' \in Page /\ loading' \in BOOLEAN
      /\ acts' \in 0 .. MaxActs /\ card' = card /\ loading' = loading
      /\ ~ page'.loading /\ (page'.uploading => page.uploading)
  BY DEF CloseBulkReview, IInv, PageTypeOK, Page
<1>6. /\ \A j \in Items : CardWaits(Q, j, card[j])
      /\ PageWaits(Q, page)
      /\ loading => Fetching(Q)
  BY PendingFacts DEF Q
<1>7. \A j \in Items : CardWaits(R, j, card'[j])
  BY <1>3, <1>5, <1>6, ConstantFacts DEF CardWaits
<1>8. PageWaits(R, page')
  BY <1>3, <1>5, <1>6 DEF PageWaits
<1>9. Q = Range(pending)
  BY DEF Q
<1>. QED
  BY <1>1, <1>2, <1>4, <1>5, <1>6, <1>7, <1>8, <1>9, PageStepInv DEF CloseBulkReview

(* The page is left: nobody waits for what it asked.                       *)
LEMMA RemountInv == ASSUME IInv, Remount PROVE IInv'
<1>. DEFINE left == [k \in DOMAIN pending |->
                       [pending[k] EXCEPT !.mine = FALSE, !.modal = FALSE]]
            R == {Gone(r) : r \in Range(pending)}
            f == Fetch("none")
<1>1. left \in Seq(Requests) /\ Range(left) = R
  <2>1. /\ left = [j \in DOMAIN pending |-> left[j]]
        /\ \A j \in DOMAIN pending : left[j] = Gone(pending[j])
    BY DEF Gone
  <2>2. \A j \in DOMAIN pending : pending[j] \in Requests
    BY PendingFacts
  <2>3. \A j \in DOMAIN pending : left[j] \in Requests
    BY <2>1, <2>2, GoneFacts
  <2>. HIDE DEF left
  <2>4. left \in Seq(Requests) /\ Range(left) = {left[j] : j \in DOMAIN pending}
    BY <2>1, <2>3, PendingFacts, SequenceOf
  <2>. QED
    BY <2>1, <2>4 DEF Range
<1>2. Alike(Range(pending), R) /\ R \in SUBSET Requests
  BY PendingFacts, AlikeGone
<1>3. f \in Requests /\ Asking(f, "fetch", 0, "none")
  BY RequestFacts DEF Fetch, Request, Asking
<1>4. pending' = Append(left, f)
  BY DEF Remount
<1>. HIDE DEF left, R, f
<1>5. pending' \in Seq(Requests) /\ Range(pending') = R \cup {f}
  BY <1>1, <1>3, <1>4, RangeAppend
<1>6. Fits(f) /\ Reviewed(f) /\ f.reply = Null /\ f.kind = "fetch"
  BY <1>3, AnswerFacts DEF Asking, Fits, Reviewed, OfCard
<1>7. Fetching(Range(pending'))
  BY <1>5, <1>6 DEF Fetching
<1>8. /\ card' \in [Items -> Card] /\ page' \in Page /\ acts' \in 0 .. MaxActs
      /\ \A i \in Items : card'[i] = FreshCard
  <2>1. card' = [i \in Items |-> FreshCard] /\ page' = FreshPage
    BY DEF Remount
  <2>2. acts' \in 0 .. MaxActs
    BY ActFacts DEF Remount
  <2>. QED
    BY <2>1, <2>2, ConstantFacts
<1>9. PageWaits(Range(pending'), page')
  BY DEF Remount, PageWaits, FreshPage
<1>10. \A i \in Items : CardWaits(Range(pending'), i, card'[i])
  BY <1>8, FreshWaits
<1>. QED
  BY <1>2, <1>5, <1>6, <1>7, <1>8, <1>9, <1>10, PageStepInv DEF Remount

-----------------------------------------------------------------------------
(* A step that shows the rows anew: the cards that stay wait for requests  *)
(* that still have their card, and the others wait for nothing.            *)
LEMMA RedrawInv ==
  ASSUME IInv, UNCHANGED rows, loading' \in BOOLEAN, calm' \in BOOLEAN,
         acts' \in 0 .. MaxActs,
         NEW list \in Tables, NEW p \in Page, NEW cards \in [Items -> Card],
         NEW reqs \in Seq(Requests), Redraw(list, p, cards, reqs),
         NEW Q, Q = Range(reqs), \A r \in Q : Fits(r) /\ Reviewed(r),
         loading' => Fetching(Q),
         \A i \in Items : i \in Shown(list, p) => CardWaits(Q, i, cards[i]),
         PageWaits(Q, p),
         \A i \in DOMAIN rows : ~Granted(Q, "delete", i),
         calm' => Refetch(Q) \/ Explained(Q, list, rows)
  PROVE  IInv'
<1>. DEFINE who == Shown(list, p)
            R == {Left(r, who) : r \in Q}
<1>1. Q \in SUBSET Requests
  BY RangeIn
<1>2. /\ items' = list /\ page' = p /\ card' \in [Items -> Card]
      /\ \A i \in Items : card'[i] = IF i \in who THEN cards[i] ELSE FreshCard
      /\ pending' \in Seq(Requests) /\ Range(pending') = R
  BY RedrawFacts
<1>3. Alike(Q, R)
  BY <1>1, AlikeLeft
<1>4. /\ \A i \in who : \A c : CardWaits(Q, i, c) => CardWaits(R, i, c)
      /\ \A x : PageWaits(Q, x) => PageWaits(R, x)
  BY <1>1, WaitsLeft
<1>. HIDE DEF R, who
<1>5. PageTypeOK'
  BY <1>2 DEF IInv, PageTypeOK
<1>6. RequestsFit'
  BY <1>2, <1>3, FitsAlike DEF RequestsFit, Fits, Reviewed
<1>7. SpinnersWait'
  <2>1. \A i \in Items : CardWaits(R, i, card'[i])
    BY <1>2, <1>4, FreshWaits DEF who
  <2>2. PageWaits(R, page')
    BY <1>2, <1>4
  <2>3. loading' => Fetching(R)
    BY <1>3, GrantedAlike
  <2>. QED
    BY <1>2, <2>1, <2>2, <2>3
       DEF SpinnersWait, CardWaits, PageWaits, Waits, WaitsInModal, Fetching
<1>8. DeletedIsGone'
  <2>1. \A i \in DOMAIN rows : ~Granted(R, "delete", i)
    BY <1>3, GrantedAlike
  <2>. QED
    BY <1>2, <2>1 DEF DeletedIsGone, Granted
<1>9. DifferenceExplained'
  <2>1. calm' => Refetch(R) \/ Explained(R, list, rows)
    BY <1>3, GrantedAlike, ExplainedAlike
  <2>. QED
    BY <1>2, <2>1 DEF DifferenceExplained, Refetch, Fetching, Explained, Granted
<1>. QED
  BY <1>5, <1>6, <1>7, <1>8, <1>9 DEF IInv

(* Another view of the same rows. *)
LEMMA ViewInv ==
  ASSUME IInv, Act, NEW p \in Page, p.loading = page.loading, p.uploading = page.uploading,
         Redraw(items, p, card, pending), UNCHANGED <<rows, loading, calm>>
  PROVE  IInv'
<1>1. /\ items \in Tables /\ card \in [Items -> Card]
      /\ loading' \in BOOLEAN /\ calm' \in BOOLEAN
  BY DEF IInv, PageTypeOK
<1>2. acts' \in 0 .. MaxActs
  BY ActFacts
<1>3. PageWaits(Range(pending), p)
  BY PendingFacts DEF PageWaits
<1>. QED
  BY <1>1, <1>2, <1>3, PendingFacts, RedrawInv

LEMMA StatusFilterChangeInv == ASSUME IInv, StatusFilterChange PROVE IInv'
<1>1. PICK f \in {"queue", "history"} :
        Redraw(items, [page EXCEPT !.filter = f, !.channel = 0], card, pending)
  BY DEF StatusFilterChange
<1>2. page \in Page
  BY DEF IInv, PageTypeOK
<1>. DEFINE p == [page EXCEPT !.filter = f, !.channel = 0]
<1>3. p \in Page /\ p.loading = page.loading /\ p.uploading = page.uploading
  BY <1>2 DEF Page
<1>. HIDE DEF p
<1>4. Redraw(items, p, card, pending)
  BY <1>1 DEF p
<1>. QED
  BY <1>3, <1>4, ViewInv DEF StatusFilterChange

LEMMA SelectChannelInv == ASSUME IInv, SelectChannel PROVE IInv'
<1>1. PICK c \in Options(items, page) \cup {0} :
        Redraw(items, [page EXCEPT !.channel = c], card, pending)
  BY DEF SelectChannel
<1>2. page \in Page /\ items \in Tables
  BY DEF IInv, PageTypeOK
<1>3. c \in {0} \cup Channels
  <2>. SUFFICES ASSUME NEW i \in Items PROVE ChannelOf(i) \in Channels
    BY <1>1, <1>2, TableFacts DEF Options, InTab
  <2>1. i \in Nat /\ NumChannels \in Nat \ {0}
    BY ConstantFacts, QueueConstants DEF QueueConstants
  <2>2. i % NumChannels \in 0 .. NumChannels - 1
    BY <2>1
  <2>. QED
    BY <2>1, <2>2 DEF ChannelOf, Channels
<1>. DEFINE p == [page EXCEPT !.channel = c]
<1>4. p \in Page /\ p.loading = page.loading /\ p.uploading = page.uploading
  BY <1>2, <1>3 DEF Page
<1>. HIDE DEF p
<1>5. Redraw(items, p, card, pending)
  BY <1>1 DEF p
<1>. QED
  BY <1>4, <1>5, ViewInv DEF SelectChannel

-----------------------------------------------------------------------------
LEMMA InitInv == ASSUME PageInit PROVE IInv
<1>. DEFINE f == Fetch("none")
<1>1. f \in Requests /\ Asking(f, "fetch", 0, "none")
  BY RequestFacts DEF Fetch, Request, Asking
<1>2. pending = <<f>>
  BY DEF PageInit
<1>. HIDE DEF f
<1>3. pending \in Seq(Requests) /\ Range(pending) = {f}
  BY <1>1, <1>2 DEF Range
<1>4. Fits(f) /\ Reviewed(f) /\ f.reply = Null /\ f.kind = "fetch"
  BY <1>1, AnswerFacts DEF Asking, Fits, Reviewed, OfCard
<1>5. rows \in Tables /\ items \in Tables
  <2>1. \A i \in Items : Status0[i] \in Statuses
    BY QueueConstants DEF QueueConstants, Items, Statuses
  <2>2. rows \in [Items -> QueueRow]
    BY <2>1, ConstantFacts DEF PageInit, QueueRow
  <2>3. items \in [{} -> QueueRow]
    BY DEF PageInit
  <2>. QED
    BY <2>2, <2>3, TableIs
<1>6. /\ card \in [Items -> Card] /\ page \in Page /\ acts \in 0 .. MaxActs
      /\ loading \in BOOLEAN /\ calm \in BOOLEAN
      /\ \A i \in Items : card[i] = FreshCard
  BY ConstantFacts DEF PageInit
<1>7. PageTypeOK
  BY <1>3, <1>5, <1>6 DEF PageTypeOK
<1>8. SpinnersWait
  <2>1. Fetching(Range(pending))
    BY <1>3, <1>4 DEF Fetching
  <2>2. PageWaits(Range(pending), page)
    BY DEF PageInit, FreshPage, PageWaits
  <2>. QED
    BY <1>6, <2>1, <2>2, FreshWaits DEF SpinnersWait
<1>9. DeletedIsGone /\ DifferenceExplained
  BY <1>3, <1>4 DEF DeletedIsGone, DifferenceExplained, Granted, Refetch, Fetching
<1>. QED
  BY <1>3, <1>4, <1>7, <1>8, <1>9 DEF IInv, RequestsFit

(* The server answers, or the request fails. *)
LEMMA ReplyFacts ==
  ASSUME IInv, NEW k \in DOMAIN pending, pending[k].reply = Null,
         NEW v \in {Refused, Done} \cup Tables, Reply(k, v),
         v # Done => pending[k].kind = "fetch" \/ v = Refused,
         pending[k].kind = "fetch" => v # Done
  PROVE  /\ pending' \in Seq(Requests)
         /\ \A r \in Range(pending') : Fits(r) /\ Reviewed(r)
         /\ Fetching(Range(pending)) => Fetching(Range(pending'))
         /\ \A i, c : CardWaits(Range(pending), i, c) => CardWaits(Range(pending'), i, c)
         /\ \A p : PageWaits(Range(pending), p) => PageWaits(Range(pending'), p)
         /\ \A kind, i : Granted(Range(pending), kind, i) => Granted(Range(pending'), kind, i)
         /\ \A kind, i : Granted(Range(pending'), kind, i) =>
              \/ Granted(Range(pending), kind, i)
              \/ kind = pending[k].kind /\ i = pending[k].item /\ v # Refused
         /\ v # Refused => Granted(Range(pending'), pending[k].kind, pending[k].item)
<1>. DEFINE r == pending[k]
            q == [r EXCEPT !.reply = v]
            Q == Range(pending)
            R == Range(pending')
<1>1. /\ r \in Requests /\ Fits(r) /\ Reviewed(r) /\ Q = Rest(k) \cup {r}
      /\ \A x \in Rest(k) : Fits(x) /\ Reviewed(x)
  BY OneFacts
<1>2. /\ q \in Requests /\ q.kind = r.kind /\ q.item = r.item /\ q.mine = r.mine
      /\ q.modal = r.modal /\ q.next = r.next /\ q.reply = v
      /\ q.at = r.at /\ q.shown = r.shown
  <2>. HIDE DEF r
  <2>. QED
    BY <1>1 DEF Requests
<1>3. Fits(q) /\ Reviewed(q)
  BY <1>1, <1>2 DEF Fits, Reviewed
<1>4. pending' \in Seq(Requests) /\ R = Rest(k) \cup {q}
  <2>1. pending' = [pending EXCEPT ![k] = q]
    BY DEF Reply
  <2>2. pending \in Seq(Requests) /\ q \in Requests
    BY <1>2, PendingFacts
  <2>. HIDE DEF q
  <2>3. /\ [pending EXCEPT ![k] = q] \in Seq(Requests)
        /\ Range([pending EXCEPT ![k] = q]) = {pending[j] : j \in DOMAIN pending \ {k}} \cup {q}
    BY <2>2, RangeReplaced
  <2>. QED
    BY <2>1, <2>3 DEF Rest
<1>5. r.reply = Null /\ v # Null
  BY AnswerFacts
<1>. HIDE DEF r, q, Q, R
<1>6. Fetching(Q) => Fetching(R)
  BY <1>1, <1>2, <1>4 DEF Fetching
<1>7. ASSUME NEW kinds, NEW i, NEW next
      PROVE  /\ Waits(Q, kinds, i, next) => Waits(R, kinds, i, next)
             /\ WaitsInModal(Q, kinds, i, next) => WaitsInModal(R, kinds, i, next)
  BY <1>1, <1>2, <1>4 DEF Waits, WaitsInModal
<1>8. ASSUME NEW i, NEW c, CardWaits(Q, i, c) PROVE CardWaits(R, i, c)
  BY <1>7, <1>8 DEF CardWaits
<1>9. ASSUME NEW p, PageWaits(Q, p) PROVE PageWaits(R, p)
  BY <1>7, <1>9 DEF PageWaits
<1>10. ASSUME NEW kind, NEW i, Granted(Q, kind, i) PROVE Granted(R, kind, i)
  BY <1>1, <1>4, <1>5, <1>10 DEF Granted
<1>11. ASSUME NEW kind, NEW i, Granted(R, kind, i)
       PROVE  Granted(Q, kind, i) \/ (kind = r.kind /\ i = r.item /\ v # Refused)
  BY <1>1, <1>2, <1>4, <1>11 DEF Granted
<1>12. v # Refused => Granted(R, r.kind, r.item)
  BY <1>2, <1>4, <1>5 DEF Granted
<1>13. \A x \in R : Fits(x) /\ Reviewed(x)
  BY <1>1, <1>3, <1>4
<1>. QED
  BY <1>4, <1>6, <1>8, <1>9, <1>10, <1>11, <1>12, <1>13 DEF r, Q, R

LEMMA ServerStepInv ==
  ASSUME IInv, NEW k \in DOMAIN pending, pending[k].reply = Null,
         NEW v \in {Refused, Done} \cup Tables, Reply(k, v),
         v # Done => pending[k].kind = "fetch" \/ v = Refused,
         pending[k].kind = "fetch" => v # Done,
         UNCHANGED <<items, loading, card, page>>, acts' \in 0 .. MaxActs,
         calm' \in BOOLEAN, rows' \in Tables, DOMAIN rows' \subseteq DOMAIN rows,
         pending[k].kind = "delete" /\ v # Refused => pending[k].item \notin DOMAIN rows',
         calm' => calm /\ \/ Refetch(Range(pending'))
                          \/ Explained(Range(pending), items, rows) =>
                               Explained(Range(pending'), items, rows')
  PROVE  IInv'
<1>1. /\ pending' \in Seq(Requests)
      /\ \A r \in Range(pending') : Fits(r) /\ Reviewed(r)
      /\ Fetching(Range(pending)) => Fetching(Range(pending'))
      /\ \A i, c : CardWaits(Range(pending), i, c) => CardWaits(Range(pending'), i, c)
      /\ \A p : PageWaits(Range(pending), p) => PageWaits(Range(pending'), p)
      /\ \A kind, i : Granted(Range(pending), kind, i) => Granted(Range(pending'), kind, i)
      /\ \A kind, i : Granted(Range(pending'), kind, i) =>
           \/ Granted(Range(pending), kind, i)
           \/ kind = pending[k].kind /\ i = pending[k].item /\ v # Refused
  BY ReplyFacts
<1>2. PageTypeOK'
  BY <1>1 DEF IInv, PageTypeOK
<1>3. RequestsFit'
  BY <1>1 DEF RequestsFit, Fits, Reviewed
<1>4. SpinnersWait'
  <2>1. loading => Fetching(Range(pending'))
    BY <1>1, PendingFacts
  <2>2. \A i \in Items : CardWaits(Range(pending'), i, card[i])
    BY <1>1, PendingFacts
  <2>3. PageWaits(Range(pending'), page)
    BY <1>1, PendingFacts
  <2>. QED
    BY <2>1, <2>2, <2>3
       DEF SpinnersWait, CardWaits, PageWaits, Waits, WaitsInModal, Fetching
<1>5. DeletedIsGone'
  <2>1. \A i \in DOMAIN rows' : ~Granted(Range(pending'), "delete", i)
    BY <1>1, PendingFacts
  <2>. QED
    BY <2>1 DEF DeletedIsGone, Granted
<1>6. DifferenceExplained'
  <2>1. Refetch(Range(pending)) => Refetch(Range(pending'))
    BY <1>1 DEF Refetch
  <2>2. calm' => Refetch(Range(pending')) \/ Explained(Range(pending'), items, rows')
    BY <2>1, PendingFacts
  <2>. QED
    BY <2>2 DEF DifferenceExplained, Refetch, Fetching, Explained, Granted
<1>. QED
  BY <1>2, <1>3, <1>4, <1>5, <1>6 DEF IInv

LEMMA ServedFacts ==
  ASSUME IInv, NEW r \in Requests, NEW list \in Served(r)
  PROVE  /\ list \in Tables /\ DOMAIN list \subseteq DOMAIN rows
         /\ r.kind = "delete" => r.item \notin DOMAIN list
<1>1. rows \in Tables /\ r.at \in 0 .. MaxActs
  BY DEF IInv, PageTypeOK, Requests
<1>2. r.kind \in OfCard \cup {"bulk", "now", "fetch"}
  BY DEF Requests
<1>3. CASE r.kind = "schedule"
  BY <1>1, <1>3, TimedFacts DEF Served
<1>4. CASE r.kind = "retry"
  BY <1>1, <1>4, QueuedFacts DEF Served
<1>5. CASE r.kind = "delete"
  <2>1. list = Without(rows, r.item)
    BY <1>5 DEF Served
  <2>2. list \in Tables /\ DOMAIN list = DOMAIN rows \ {r.item}
    BY <1>1, <2>1, WithoutFacts
  <2>. QED
    BY <2>2
<1>6. CASE r.kind = "bulk"
  <2>1. Spread(rows, r) \in [QueuedOf(rows) -> Times]
    BY <1>1, SpreadFacts
  <2>2. list = SetAt(rows, Spread(rows, r))
    BY <1>6 DEF Served, BulkScheduled
  <2>. QED
    BY <1>1, <1>6, <2>1, <2>2, SetAtFacts
<1>7. CASE r.kind = "now"
  BY <1>1, <1>7, UploadNowFacts DEF Served
<1>8. CASE r.kind = "fetch"
  BY <1>1, <1>8 DEF Served
<1>. QED
  BY <1>2, <1>3, <1>4, <1>5, <1>6, <1>7, <1>8 DEF OfCard

(* What was granted explains what it has changed. *)
LEMMA ServedExplained ==
  ASSUME IInv, NEW r \in Requests, r.kind \in OfCard, NEW list \in Served(r),
         NEW Q, NEW R, \A kind, i : Granted(Q, kind, i) => Granted(R, kind, i),
         Result(r) # Refused => Granted(R, r.kind, r.item),
         Explained(Q, items, rows)
  PROVE  Explained(R, items, list)
<1>1. /\ rows \in Tables /\ DOMAIN rows \subseteq DOMAIN items
      /\ \A i \in DOMAIN items \ DOMAIN rows : Granted(R, "delete", i)
      /\ \A i \in DOMAIN rows :
           /\ items[i].at = rows[i].at \/ Granted(R, "schedule", i)
           /\ rows[i].status \in Becomes(items[i].status) \/ Granted(R, "retry", i)
  BY DEF IInv, PageTypeOK, Explained
<1>2. Refused # Done
  BY AnswerFacts
<1>3. CASE r.kind = "schedule"
  <2>1. list = Timed(rows, r)
    BY <1>3 DEF Served
  <2>2. r.item \in DOMAIN rows => Granted(R, "schedule", r.item)
    BY <1>2, <1>3 DEF Result
  <2>. QED
    <3>1. /\ DOMAIN list = DOMAIN rows
          /\ \A i \in DOMAIN rows :
               /\ list[i].status = rows[i].status
               /\ i # r.item => list[i].at = rows[i].at
      BY <1>1, <2>1, TimedFacts
    <3>. QED
      BY <1>1, <2>2, <3>1 DEF Explained
<1>4. CASE r.kind = "retry"
  <2>1. list = Requeued(rows, r.item) /\ Granted(R, "retry", r.item)
    BY <1>2, <1>4 DEF Served, Result
  <2>. QED
    BY <1>1, <2>1, QueuedFacts DEF Explained
<1>5. CASE r.kind = "delete"
  <2>1. list = Without(rows, r.item) /\ Granted(R, "delete", r.item)
    BY <1>2, <1>5 DEF Served, Result
  <2>. QED
    <3>1. /\ DOMAIN list = DOMAIN rows \ {r.item}
          /\ \A i \in DOMAIN list : list[i] = rows[i]
      BY <1>1, <2>1, WithoutFacts
    <3>2. \A i \in DOMAIN items \ DOMAIN list : Granted(R, "delete", i)
      BY <1>1, <2>1, <3>1
    <3>3. DOMAIN list \subseteq DOMAIN items
      BY <1>1, <3>1
    <3>. QED
      BY <1>1, <3>1, <3>2, <3>3 DEF Explained
<1>. QED
  BY <1>3, <1>4, <1>5 DEF OfCard

LEMMA ServeInv == ASSUME IInv, NEW k \in DOMAIN pending, Serve(k) PROVE IInv'
<1>. DEFINE r == pending[k]
<1>1. r \in Requests /\ Fits(r) /\ r.reply = Null
  BY OneFacts DEF Serve
<1>2. /\ rows' \in Tables /\ DOMAIN rows' \subseteq DOMAIN rows
      /\ r.kind = "delete" => r.item \notin DOMAIN rows'
  BY <1>1, ServedFacts DEF Serve
<1>3. rows \in Tables /\ acts \in 0 .. MaxActs /\ calm \in BOOLEAN
  BY DEF IInv, PageTypeOK
<1>4. UNCHANGED <<items, loading, card, page>>
  BY DEF Serve
<1>5. CASE Act /\ Reply(k, Refused) /\ calm' = FALSE
  <2>1. acts' \in 0 .. MaxActs
    BY <1>5, ActFacts
  <2>2. Refused # Done
    BY AnswerFacts
  <2>. QED
    BY <1>1, <1>2, <1>4, <1>5, <2>1, <2>2, ServerStepInv
<1>6. CASE Reply(k, Result(r)) /\ UNCHANGED <<acts, calm>>
  <2>. DEFINE v == Result(r)
  <2>1. /\ v \in {Refused, Done} \cup Tables
        /\ v # Done => r.kind = "fetch" \/ v = Refused
        /\ r.kind = "fetch" => v # Done
    <3>1. CASE r.kind = "fetch"
      <4>1. v = rows
        BY <3>1 DEF Result
      <4>2. Done \notin Tables
        BY AnswerFacts
      <4>. QED
        BY <1>3, <3>1, <4>1, <4>2
    <3>2. CASE r.kind # "fetch"
      <4>1. v \in {Refused, Done}
        BY <3>2 DEF Result
      <4>. QED
        BY <3>2, <4>1
    <3>. QED
      BY <3>1, <3>2
  <2>2. /\ \A kind, i : Granted(Range(pending), kind, i) => Granted(Range(pending'), kind, i)
        /\ v # Refused => Granted(Range(pending'), r.kind, r.item)
        /\ Fetching(Range(pending)) => Fetching(Range(pending'))
    BY <1>1, <1>6, <2>1, ReplyFacts
  <2>3. \/ Refetch(Range(pending'))
        \/ Explained(Range(pending), items, rows) => Explained(Range(pending'), items, rows')
    <3>1. CASE r.kind \in OfCard
      <4>1. rows' \in Served(r)
        BY DEF Serve
      <4>. QED
        BY <1>1, <2>2, <3>1, <4>1, ServedExplained
    <3>2. CASE r.kind = "fetch"
      <4>1. Fetching(Range(pending))
        BY <1>1, <3>2 DEF Fetching, Range
      <4>. QED
        BY <2>2, <4>1 DEF Refetch
    <3>3. CASE r.kind \in {"bulk", "now"}
      <4>1. v = Done /\ r.item = 0
        BY <1>1, <3>3 DEF Result, Fits, OfCard
      <4>. QED
        BY <2>2, <3>3, <4>1, AnswerFacts DEF Refetch
    <3>. QED
      BY <1>1, <3>1, <3>2, <3>3 DEF Requests
  <2>. HIDE DEF v
  <2>4. Reply(k, v)
    BY <1>6 DEF v
  <2>. QED
    BY <1>1, <1>2, <1>3, <1>4, <1>6, <2>1, <2>3, <2>4, ServerStepInv
<1>. QED
  BY <1>5, <1>6 DEF Serve

LEMMA RequestFailsInv == ASSUME IInv, NEW k \in DOMAIN pending, RequestFails(k) PROVE IInv'
<1>1. /\ pending[k].reply = Null /\ Reply(k, Refused)
      /\ UNCHANGED <<rows, items, loading, card, page>>
      /\ calm' = (calm /\ pending[k].kind # "fetch")
  BY DEF RequestFails
<1>2. acts' \in 0 .. MaxActs
  BY ActFacts DEF RequestFails
<1>3. rows \in Tables /\ calm \in BOOLEAN /\ Refused # Done
  BY AnswerFacts DEF IInv, PageTypeOK
<1>4. \A kind, i : Granted(Range(pending), kind, i) => Granted(Range(pending'), kind, i)
  BY <1>1, <1>3, ReplyFacts
<1>5. Explained(Range(pending), items, rows) => Explained(Range(pending'), items, rows')
  BY <1>1, <1>4 DEF Explained
<1>. QED
  BY <1>1, <1>2, <1>3, <1>5, ServerStepInv

LEMMA UploadInv == ASSUME IInv, NEW i \in Items, WorkerStep(i) PROVE IInv'
<1>1. /\ rows \in Tables /\ rows \in [DOMAIN rows -> QueueRow] /\ i \in DOMAIN rows
      /\ DOMAIN rows \in SUBSET Items
  BY TableFacts DEF WorkerStep, IInv, PageTypeOK
<1>2. PICK s \in Statuses :
        /\ rows' = [rows EXCEPT ![i].status = s]
        /\ \/ rows[i].status = "queued"
           \/ rows[i].status = "running" /\ s # "queued"
  BY DEF WorkerStep, Statuses
<1>3. /\ rows' \in [DOMAIN rows -> QueueRow] /\ DOMAIN rows' = DOMAIN rows
      /\ \A j \in DOMAIN rows \ {i} : rows'[j] = rows[j]
      /\ rows'[i].at = rows[i].at /\ rows'[i].status = s
  BY <1>1, <1>2 DEF QueueRow
<1>4. rows' \in Tables
  BY <1>1, <1>3, TableIs
<1>5. UNCHANGED <<items, loading, card, page, pending, acts, calm>>
  BY DEF WorkerStep
<1>6. PageTypeOK'
  BY <1>4, <1>5 DEF IInv, PageTypeOK
<1>7. RequestsFit'
  BY <1>5 DEF IInv, RequestsFit, Fits, Reviewed
<1>8. SpinnersWait'
  BY <1>5 DEF IInv, SpinnersWait, CardWaits, PageWaits, Waits, WaitsInModal, Fetching
<1>9. DeletedIsGone'
  BY <1>3, <1>5 DEF IInv, DeletedIsGone, Granted
<1>10. DifferenceExplained'
  <2>1. ASSUME Explained(Range(pending), items, rows)
        PROVE  Explained(Range(pending), items, rows')
    <3>1. ASSUME rows[i].status \in Becomes(items[i].status)
          PROVE  s \in Becomes(items[i].status)
      <4>1. items \in Tables
        BY DEF IInv, PageTypeOK
      <4>2. items[i].status \in Statuses
        BY <1>1, <2>1, <4>1, TableFacts DEF Explained
      <4>. QED
        BY <1>2, <3>1, <4>2 DEF Becomes, Statuses
    <3>. QED
      BY <1>1, <1>3, <2>1, <3>1 DEF Explained
  <2>2. calm' => Refetch(Range(pending)) \/ Explained(Range(pending), items, rows')
    BY <1>5, <2>1, PendingFacts
  <2>. QED
    BY <1>5, <2>2 DEF DifferenceExplained, Refetch, Fetching, Explained, Granted
<1>. QED
  BY <1>6, <1>7, <1>8, <1>9, <1>10 DEF IInv

-----------------------------------------------------------------------------
(* An answer is applied: what waited for something else still waits.       *)
LEMMA RestFacts ==
  ASSUME IInv, NEW k \in DOMAIN pending
  PROVE  LET r == pending[k] IN
         /\ \A kinds, i, next :
              Waits(Range(pending), kinds, i, next)
              /\ (r.kind \notin kinds \/ r.item # i \/ ~r.mine \/ r.next # next)
              => Waits(Rest(k), kinds, i, next)
         /\ \A kinds, i, next :
              WaitsInModal(Range(pending), kinds, i, next)
              /\ (r.kind \notin kinds \/ r.item # i \/ ~r.mine \/ ~r.modal \/ r.next # next)
              => WaitsInModal(Rest(k), kinds, i, next)
         /\ r.kind # "fetch" /\ Fetching(Range(pending)) => Fetching(Rest(k))
         /\ \A kind, i :
              Granted(Range(pending), kind, i)
              /\ (r.kind # kind \/ r.item # i \/ r.reply \in {Null, Refused})
              => Granted(Rest(k), kind, i)
<1>1. Range(pending) = Rest(k) \cup {pending[k]}
  BY OneFacts
<1>2. ASSUME NEW kinds, NEW i, NEW next,
             Waits(Range(pending), kinds, i, next),
             \/ pending[k].kind \notin kinds \/ pending[k].item # i
             \/ ~pending[k].mine \/ pending[k].next # next
      PROVE  Waits(Rest(k), kinds, i, next)
  BY <1>1, <1>2 DEF Waits
<1>3. ASSUME NEW kinds, NEW i, NEW next,
             WaitsInModal(Range(pending), kinds, i, next),
             \/ pending[k].kind \notin kinds \/ pending[k].item # i
             \/ ~pending[k].mine \/ ~pending[k].modal \/ pending[k].next # next
      PROVE  WaitsInModal(Rest(k), kinds, i, next)
  BY <1>1, <1>3 DEF WaitsInModal
<1>4. ASSUME pending[k].kind # "fetch", Fetching(Range(pending)) PROVE Fetching(Rest(k))
  BY <1>1, <1>4 DEF Fetching
<1>5. ASSUME NEW kind, NEW i, Granted(Range(pending), kind, i),
             \/ pending[k].kind # kind \/ pending[k].item # i
             \/ pending[k].reply \in {Null, Refused}
      PROVE  Granted(Rest(k), kind, i)
  BY <1>1, <1>5 DEF Granted
<1>. QED
  BY <1>2, <1>3, <1>4, <1>5

(* The answer to a request of a card: the other cards wait as before, and  *)
(* so does the page.                                                       *)
LEMMA CardAnswerFacts ==
  ASSUME IInv, NEW k \in DOMAIN pending, pending[k].kind \in OfCard
  PROVE  /\ pending[k].item \in Items /\ pending[k].next = "none"
         /\ pending[k].reply \in {Null, Refused, Done}
         /\ \A i \in Items : i # pending[k].item \/ ~pending[k].mine =>
              CardWaits(Rest(k), i, card[i])
         /\ PageWaits(Rest(k), page)
         /\ loading => Fetching(Rest(k))
         /\ Refetch(Range(pending)) => Refetch(Rest(k))
<1>. DEFINE r == pending[k]
<1>1. /\ r \in Requests /\ Fits(r) /\ r.kind \in OfCard
      /\ r.kind \notin {"bulk", "now", "fetch"}
  BY OneFacts DEF OfCard
<1>2. r.item \in Items /\ r.next = "none" /\ r.reply \in {Null, Refused, Done}
  BY <1>1 DEF Fits, Requests
<1>3. r.item # 0
  BY <1>2, ConstantFacts
<1>4. ASSUME NEW i \in Items, i # r.item \/ ~r.mine PROVE CardWaits(Rest(k), i, card[i])
  <2>1. CardWaits(Range(pending), i, card[i])
    BY PendingFacts
  <2>. QED
    BY <1>4, <2>1, RestFacts DEF CardWaits
<1>5. PageWaits(Rest(k), page)
  <2>1. PageWaits(Range(pending), page)
    BY PendingFacts
  <2>. QED
    BY <1>3, <2>1, RestFacts DEF PageWaits
<1>6. Fetching(Range(pending)) => Fetching(Rest(k))
  BY <1>1, RestFacts
<1>7. Refetch(Range(pending)) => Refetch(Rest(k))
  BY <1>1, <1>6, RestFacts DEF Refetch
<1>. QED
  BY <1>2, <1>4, <1>5, <1>6, <1>7, PendingFacts

(* A card whose request is answered waits for the others that it has made. *)
LEMMA IdleCardWaits ==
  ASSUME IInv, NEW k \in DOMAIN pending, pending[k].kind \in OfCard,
         NEW cards \in [Items -> Card],
         \A i \in Items : i # pending[k].item => cards[i] = card[i],
         ~pending[k].mine => cards = card,
         pending[k].mine =>
           /\ cards[pending[k].item].busy = Null
           /\ cards[pending[k].item].loading =>
                /\ card[pending[k].item].loading
                /\ pending[k].kind # "schedule" \/ ~pending[k].modal
  PROVE  \A i \in Items : CardWaits(Rest(k), i, cards[i])
<1>. DEFINE r == pending[k]
<1>1. \A i \in Items : i # r.item \/ ~r.mine => CardWaits(Rest(k), i, card[i])
  BY CardAnswerFacts
<1>2. ASSUME NEW i \in Items, i = r.item, r.mine PROVE CardWaits(Rest(k), i, cards[i])
  <2>1. CardWaits(Range(pending), i, card[i])
    BY PendingFacts
  <2>2. cards[i].loading => WaitsInModal(Rest(k), {"schedule"}, i, "none")
    BY <1>2, <2>1, RestFacts DEF CardWaits
  <2>. QED
    BY <1>2, <2>2 DEF CardWaits
<1>. QED
  BY <1>1, <1>2

(* What an answer to a request of a card leaves to be shown.               *)
LEMMA CardAnswerInv ==
  ASSUME IInv, NEW k \in DOMAIN pending, pending[k].kind \in OfCard,
         UNCHANGED <<rows, acts, loading>>, calm' \in BOOLEAN, calm' => calm,
         NEW list \in Tables, NEW cards \in [Items -> Card], NEW reqs \in Seq(Requests),
         Redraw(list, page, cards, reqs),
         NEW Q \in SUBSET Requests, Q = Range(reqs), Alike(Rest(k), Q),
         \A i \in Items : i \in Shown(list, page) => CardWaits(Q, i, cards[i]),
         PageWaits(Q, page),
         calm' /\ Explained(Range(pending), items, rows) => Explained(Rest(k), list, rows)
  PROVE  IInv'
<1>1. /\ \A x \in Rest(k) : Fits(x) /\ Reviewed(x)
      /\ \A i \in DOMAIN rows : ~Granted(Rest(k), "delete", i)
  BY OneFacts
<1>2. /\ loading => Fetching(Rest(k))
      /\ Refetch(Range(pending)) => Refetch(Rest(k))
  BY CardAnswerFacts
<1>3. \A x \in Q : Fits(x) /\ Reviewed(x)
  BY <1>1, FitsAlike
<1>4. /\ loading => Fetching(Q)
      /\ \A i \in DOMAIN rows : ~Granted(Q, "delete", i)
  BY <1>1, <1>2, GrantedAlike
<1>5. calm' => Refetch(Q) \/ Explained(Q, list, rows)
  BY <1>2, PendingFacts, GrantedAlike, ExplainedAlike
<1>6. loading' \in BOOLEAN /\ acts' \in 0 .. MaxActs /\ page \in Page /\ loading' = loading
  BY DEF IInv, PageTypeOK
<1>. QED
  BY <1>3, <1>4, <1>5, <1>6, RedrawInv

LEMMA RestAlike ==
  ASSUME IInv, NEW k \in DOMAIN pending
  PROVE  /\ Others(k) \in Seq(Requests) /\ Rest(k) = Range(Others(k))
         /\ Rest(k) \in SUBSET Requests /\ Alike(Rest(k), Rest(k))
BY OneFacts DEF Alike, Same

LEMMA RetryAnsweredInv ==
  ASSUME IInv, NEW k \in DOMAIN pending, RetryAnswered(k), UNCHANGED <<rows, acts>>
  PROVE  IInv'
<1>. DEFINE r == pending[k]
            done == IF r.mine THEN [card EXCEPT ![r.item] = Idle(@)] ELSE card
            list == IF r.reply = Refused THEN items ELSE Requeued(items, r.item)
<1>1. /\ r.kind = "retry" /\ r.kind \in OfCard /\ UNCHANGED <<loading, calm>>
      /\ Redraw(list, page, done, Others(k))
  BY DEF RetryAnswered, OfCard
<1>2. /\ card \in [Items -> Card] /\ items \in Tables /\ calm' \in BOOLEAN
  BY <1>1 DEF IInv, PageTypeOK
<1>3. r.item \in Items /\ PageWaits(Rest(k), page)
  BY <1>1, CardAnswerFacts
<1>4. /\ done \in [Items -> Card]
      /\ \A i \in Items : i # r.item => done[i] = card[i]
      /\ ~r.mine => done = card
      /\ r.mine => done[r.item].busy = Null /\ (done[r.item].loading => card[r.item].loading)
  <2>1. Idle(card[r.item]) \in Card /\ Idle(card[r.item]).busy = Null
        /\ (Idle(card[r.item]).loading => card[r.item].loading)
    BY <1>2, <1>3 DEF Idle, Card
  <2>. QED
    BY <1>2, <1>3, <2>1
<1>5. list \in Tables
  BY <1>2, QueuedFacts
<1>. HIDE DEF done
<1>6. \A i \in Items : CardWaits(Rest(k), i, done[i])
  BY <1>1, <1>4, IdleCardWaits
<1>7. ASSUME Explained(Range(pending), items, rows) PROVE Explained(Rest(k), list, rows)
  <2>1. \A kind, i : Granted(Range(pending), kind, i)
                     /\ (r.kind # kind \/ r.item # i \/ r.reply \in {Null, Refused})
                     => Granted(Rest(k), kind, i)
    BY RestFacts
  <2>2. rows \in Tables
    BY DEF IInv, PageTypeOK
  <2>3. CASE r.reply = Refused
    BY <1>7, <2>1, <2>3 DEF Explained
  <2>4. CASE r.reply # Refused
    <3>1. /\ DOMAIN list = DOMAIN items
          /\ \A i \in DOMAIN items : /\ list[i].at = items[i].at
                                     /\ i # r.item => list[i].status = items[i].status
                                     /\ i = r.item => list[i].status = "queued"
      BY <1>2, <2>4, QueuedFacts
    <3>2. \A i \in DOMAIN rows : rows[i].status \in Becomes("queued")
      BY <2>2, TableFacts DEF Becomes
    <3>. HIDE DEF list
    <3>. QED
      BY <1>1, <1>7, <2>1, <3>1, <3>2 DEF Explained
  <2>. QED
    BY <2>3, <2>4
<1>. HIDE DEF list
<1>. QED
  BY <1>1, <1>2, <1>3, <1>4, <1>5, <1>6, <1>7, RestAlike, CardAnswerInv

LEMMA DeleteRefusedInv ==
  ASSUME IInv, NEW k \in DOMAIN pending, DeleteAnswered(k), pending[k].reply = Refused,
         UNCHANGED <<rows, acts>>
  PROVE  IInv'
<1>. DEFINE r == pending[k]
            done == IF r.mine THEN [card EXCEPT ![r.item] = Idle(@)] ELSE card
<1>1. /\ r.kind = "delete" /\ r.kind \in OfCard /\ UNCHANGED <<loading, calm>>
      /\ Redraw(items, page, done, Others(k))
  BY DEF DeleteAnswered, OfCard
<1>2. /\ card \in [Items -> Card] /\ items \in Tables /\ calm' \in BOOLEAN
  BY <1>1 DEF IInv, PageTypeOK
<1>3. r.item \in Items /\ PageWaits(Rest(k), page)
  BY <1>1, CardAnswerFacts
<1>4. /\ done \in [Items -> Card]
      /\ \A i \in Items : i # r.item => done[i] = card[i]
      /\ ~r.mine => done = card
      /\ r.mine => done[r.item].busy = Null /\ (done[r.item].loading => card[r.item].loading)
  <2>1. Idle(card[r.item]) \in Card /\ Idle(card[r.item]).busy = Null
        /\ (Idle(card[r.item]).loading => card[r.item].loading)
    BY <1>2, <1>3 DEF Idle, Card
  <2>. QED
    BY <1>2, <1>3, <2>1
<1>. HIDE DEF done
<1>5. \A i \in Items : CardWaits(Rest(k), i, done[i])
  BY <1>1, <1>4, IdleCardWaits
<1>6. ASSUME Explained(Range(pending), items, rows) PROVE Explained(Rest(k), items, rows)
  BY <1>6, RestFacts DEF Explained
<1>. QED
  BY <1>1, <1>2, <1>3, <1>4, <1>5, <1>6, RestAlike, CardAnswerInv

(* The card is gone, whoever waits on it.                                  *)
LEMMA DeletedInv ==
  ASSUME IInv, NEW k \in DOMAIN pending, DeleteAnswered(k),
         pending[k].reply \notin {Null, Refused}, UNCHANGED <<rows, acts>>
  PROVE  IInv'
<1>. DEFINE r == pending[k]
            list == Without(items, r.item)
<1>1. /\ r.kind = "delete" /\ r.kind \in OfCard /\ UNCHANGED <<loading, calm>>
      /\ Redraw(list, page, card, Others(k))
  BY DEF DeleteAnswered, OfCard
<1>2. /\ card \in [Items -> Card] /\ items \in Tables /\ calm' \in BOOLEAN
  BY <1>1 DEF IInv, PageTypeOK
<1>3. /\ list \in Tables /\ DOMAIN list = DOMAIN items \ {r.item}
      /\ \A i \in DOMAIN list : list[i] = items[i]
  BY <1>2, WithoutFacts
<1>4. /\ PageWaits(Rest(k), page)
      /\ \A i \in Items : i # r.item => CardWaits(Rest(k), i, card[i])
  BY <1>1, CardAnswerFacts
<1>5. \A i \in Items : i \in Shown(list, page) => CardWaits(Rest(k), i, card[i])
  BY <1>3, <1>4 DEF Shown, InTab
<1>6. r.item \notin DOMAIN rows
  <2>1. Granted(Range(pending), "delete", r.item)
    BY <1>1 DEF Granted, Range
  <2>. QED
    BY <2>1, PendingFacts
<1>. HIDE DEF list
<1>7. ASSUME Explained(Range(pending), items, rows) PROVE Explained(Rest(k), list, rows)
  <2>1. \A kind, i : Granted(Range(pending), kind, i) /\ (r.kind # kind \/ r.item # i)
                     => Granted(Rest(k), kind, i)
    BY RestFacts
  <2>. QED
    BY <1>1, <1>3, <1>6, <1>7, <2>1 DEF Explained
<1>. QED
  BY <1>1, <1>2, <1>3, <1>4, <1>5, <1>7, RestAlike, CardAnswerInv

LEMMA ScheduleAnsweredInv ==
  ASSUME IInv, NEW k \in DOMAIN pending, ScheduleAnswered(k), pending[k].reply # Null,
         UNCHANGED <<rows, acts>>
  PROVE  IInv'
<1>. DEFINE r == pending[k]
            mounted == [busy |-> Null,
                        open |-> card[r.item].open /\ r.reply = Refused,
                        loading |-> card[r.item].loading /\ r.reply = Refused /\ ~r.modal]
            done == IF r.mine THEN [card EXCEPT ![r.item] = mounted] ELSE card
<1>1. /\ r.kind = "schedule" /\ r.kind \in OfCard /\ UNCHANGED loading
      /\ IF r.reply = Refused
         THEN Redraw(items, page, done, Others(k)) /\ calm' = calm
         ELSE /\ Redraw(Timed(items, r), page, done,
                        IF r.mine THEN Closed(Others(k), r.item) ELSE Others(k))
              /\ calm' = (calm /\ (r.item \in DOMAIN rows => rows[r.item].at = <<r.at, Start>>))
  BY DEF ScheduleAnswered, OfCard
<1>2. /\ card \in [Items -> Card] /\ items \in Tables /\ calm \in BOOLEAN
      /\ rows \in Tables /\ r \in Requests
  BY OneFacts DEF IInv, PageTypeOK
<1>3. r.item \in Items /\ PageWaits(Rest(k), page)
  BY <1>1, CardAnswerFacts
<1>4. /\ mounted \in Card /\ mounted.busy = Null
      /\ mounted.loading => card[r.item].loading /\ r.reply = Refused /\ ~r.modal
  BY <1>2, <1>3 DEF Card
<1>. HIDE DEF mounted
<1>5. /\ done \in [Items -> Card]
      /\ \A i \in Items : i # r.item => done[i] = card[i]
      /\ ~r.mine => done = card
      /\ r.mine => done[r.item] = mounted
  BY <1>2, <1>3, <1>4
<1>. HIDE DEF done
<1>6. \A i \in Items : CardWaits(Rest(k), i, done[i])
  BY <1>1, <1>4, <1>5, IdleCardWaits
<1>7. \A kind, i : Granted(Range(pending), kind, i)
                   /\ (r.kind # kind \/ r.item # i \/ r.reply \in {Null, Refused})
                   => Granted(Rest(k), kind, i)
  BY RestFacts
<1>8. CASE r.reply = Refused
  <2>1. ASSUME Explained(Range(pending), items, rows) PROVE Explained(Rest(k), items, rows)
    BY <1>7, <1>8, <2>1 DEF Explained
  <2>. QED
    BY <1>1, <1>2, <1>3, <1>5, <1>6, <1>8, <2>1, RestAlike, CardAnswerInv
<1>9. CASE r.reply # Refused
  <2>. DEFINE list == Timed(items, r)
              Q == {Shut(x, r.item) : x \in Rest(k)}
  <2>1. /\ list \in Tables /\ DOMAIN list = DOMAIN items
        /\ \A i \in DOMAIN items :
             /\ list[i].status = items[i].status
             /\ list[i].at = IF i = r.item THEN <<r.at, Start>> ELSE items[i].at
    BY <1>2, TimedFacts
  <2>. HIDE DEF list
  <2>2. ASSUME calm', Explained(Range(pending), items, rows)
        PROVE  Explained(Rest(k), list, rows)
    <3>1. r.item \in DOMAIN rows => rows[r.item].at = <<r.at, Start>>
      BY <1>1, <1>9, <2>2
    <3>2. \A i \in DOMAIN rows : list[i].at = rows[i].at \/ Granted(Rest(k), "schedule", i)
      BY <1>1, <1>7, <2>1, <2>2, <3>1 DEF Explained
    <3>. QED
      BY <1>1, <1>7, <2>1, <2>2, <3>2 DEF Explained
  <2>3. calm' \in BOOLEAN /\ (calm' => calm)
    BY <1>1, <1>2, <1>9
  <2>4. CASE ~r.mine
    <3>1. Redraw(list, page, done, Others(k))
      BY <1>1, <1>9, <2>4 DEF list
    <3>. QED
      BY <1>1, <1>3, <1>5, <1>6, <2>1, <2>2, <2>3, <3>1, RestAlike, CardAnswerInv
  <2>5. CASE r.mine
    <3>1. /\ Closed(Others(k), r.item) \in Seq(Requests)
          /\ Range(Closed(Others(k), r.item)) = Q
      BY RestAlike, ClosedFacts
    <3>2. Q \in SUBSET Requests /\ Alike(Rest(k), Q)
      BY RestAlike, AlikeShut
    <3>3. /\ \A kinds, i, next : Waits(Rest(k), kinds, i, next) => Waits(Q, kinds, i, next)
          /\ \A kinds, i, next : i # r.item /\ WaitsInModal(Rest(k), kinds, i, next) =>
                                   WaitsInModal(Q, kinds, i, next)
      BY RestAlike, WaitsShut
    <3>. HIDE DEF Q
    <3>4. PageWaits(Q, page)
      BY <1>3, <3>3, ConstantFacts DEF PageWaits
    <3>5. ASSUME NEW i \in Items PROVE CardWaits(Q, i, done[i])
      <4>1. CASE i = r.item
        BY <1>4, <1>5, <1>9, <2>5, <4>1 DEF CardWaits
      <4>2. CASE i # r.item
        BY <1>6, <3>3, <4>2 DEF CardWaits
      <4>. QED
        BY <4>1, <4>2
    <3>6. Redraw(list, page, done, Closed(Others(k), r.item))
      BY <1>1, <1>9, <2>5 DEF list
    <3>. QED
      BY <1>1, <1>5, <2>1, <2>2, <2>3, <3>1, <3>2, <3>4, <3>5, <3>6, CardAnswerInv
  <2>. QED
    BY <2>4, <2>5
<1>. QED
  BY <1>8, <1>9

(* The answers to the page: a bulk and an upload-now are followed by a     *)
(* fetch for whoever waits.                                                *)
LEMMA BulkStepInv ==
  ASSUME IInv, NEW k \in DOMAIN pending, pending[k].kind \in {"bulk", "now"},
         UNCHANGED <<rows, acts, items, card, calm>>,
         page' \in Page, loading' \in BOOLEAN, pending' \in Seq(Requests),
         Rest(k) \subseteq Range(pending'),
         \A r \in Range(pending') : r \in Rest(k) \/ (Fits(r) /\ Reviewed(r) /\ r.reply = Null),
         pending[k].reply = Refused \/ Fetching(Range(pending')),
         loading' => loading \/ Fetching(Range(pending')),
         PageWaits(Range(pending'), page')
  PROVE  IInv'
<1>. DEFINE r == pending[k]
            R == Range(pending')
<1>1. /\ r \in Requests /\ Fits(r) /\ \A x \in Rest(k) : Fits(x) /\ Reviewed(x)
  BY OneFacts
<1>2. r.item = 0 /\ r.kind # "fetch" /\ r.kind \notin OfCard
  BY <1>1 DEF Fits, OfCard
<1>3. PageTypeOK'
  BY DEF IInv, PageTypeOK
<1>4. RequestsFit'
  <2>1. \A x \in R : Fits(x) /\ Reviewed(x)
    BY <1>1
  <2>. QED
    BY <2>1 DEF RequestsFit, Fits, Reviewed
<1>5. SpinnersWait'
  <2>1. \A i \in Items : CardWaits(Rest(k), i, card[i])
    <3>. SUFFICES ASSUME NEW i \in Items PROVE CardWaits(Rest(k), i, card[i])
      OBVIOUS
    <3>1. CardWaits(Range(pending), i, card[i]) /\ i # 0
      BY PendingFacts, ConstantFacts
    <3>. QED
      BY <1>2, <3>1, RestFacts DEF CardWaits
  <2>2. \A i \in Items : CardWaits(R, i, card[i])
    BY <2>1, WaitsGrow
  <2>3. Fetching(Rest(k)) => Fetching(R)
    BY DEF Fetching
  <2>4. loading' => Fetching(R)
    BY <1>2, <2>3, PendingFacts, RestFacts
  <2>. HIDE DEF R
  <2>5. /\ R = Range(pending') /\ PageWaits(R, page')
    BY DEF R
  <2>. QED
    BY <2>2, <2>4, <2>5
       DEF SpinnersWait, CardWaits, PageWaits, Waits, WaitsInModal, Fetching
<1>6. \A kind, i : Granted(R, kind, i) <=> Granted(Rest(k), kind, i)
  BY DEF Granted
<1>7. DeletedIsGone'
  <2>1. \A i \in DOMAIN rows : ~Granted(R, "delete", i)
    BY <1>6, OneFacts
  <2>. QED
    BY <2>1 DEF DeletedIsGone, Granted
<1>8. DifferenceExplained'
  <2>1. Fetching(Rest(k)) => Fetching(R)
    BY DEF Fetching
  <2>2. Refetch(Range(pending)) => Refetch(R)
    <3>1. CASE Fetching(R)
      BY <3>1 DEF Refetch
    <3>2. CASE r.reply = Refused
      BY <1>2, <1>6, <2>1, <3>2, RestFacts DEF Refetch
    <3>. QED
      BY <3>1, <3>2
  <2>3. \A i : \A kind \in OfCard : Granted(Range(pending), kind, i) => Granted(R, kind, i)
    BY <1>2, <1>6, RestFacts
  <2>4. Explained(Range(pending), items, rows) => Explained(R, items, rows)
    BY <2>3 DEF Explained, OfCard
  <2>5. calm => Refetch(R) \/ Explained(R, items, rows)
    BY <2>2, <2>4, PendingFacts
  <2>. QED
    BY <2>5 DEF DifferenceExplained, Refetch, Fetching, Explained, Granted
<1>. QED
  BY <1>3, <1>4, <1>5, <1>7, <1>8 DEF IInv

LEMMA ThenFetchFacts ==
  ASSUME IInv, NEW k \in DOMAIN pending, NEW next \in {"close", "upload", "uploaded"},
         NEW mine \in BOOLEAN, NEW modal \in BOOLEAN,
         pending' = Append(Others(k), [Fetch(next) EXCEPT !.mine = mine, !.modal = modal])
  PROVE  /\ pending' \in Seq(Requests) /\ Rest(k) \subseteq Range(pending')
         /\ \A r \in Range(pending') :
              r \in Rest(k) \/ (Fits(r) /\ Reviewed(r) /\ r.reply = Null)
         /\ Fetching(Range(pending'))
         /\ mine => Waits(Range(pending'), {"fetch"}, 0, next)
         /\ mine /\ modal => WaitsInModal(Range(pending'), {"bulk", "fetch"}, 0, next)
<1>. DEFINE q == Fetch(next)
            f == [q EXCEPT !.mine = mine, !.modal = modal]
<1>1. q \in Requests /\ Asking(q, "fetch", 0, next)
  BY RequestFacts DEF Fetch, Request, Asking
<1>2. f \in Requests /\ Asking(f, "fetch", 0, next) /\ f.mine = mine /\ f.modal = modal
  <2>. HIDE DEF q
  <2>. QED
    BY <1>1 DEF Requests, Asking
<1>. HIDE DEF f
<1>3. pending' = Append(Others(k), f)
  BY DEF f
<1>4. pending' \in Seq(Requests) /\ Range(pending') = Rest(k) \cup {f}
  BY <1>2, <1>3, RestAlike, RangeAppend
<1>5. Fits(f) /\ Reviewed(f) /\ f.reply = Null /\ f.kind = "fetch" /\ f.item = 0 /\ f.next = next
  BY <1>2, AnswerFacts DEF Asking, Fits, Reviewed, OfCard
<1>6. \A r \in Range(pending') :
        r \in Rest(k) \/ (Fits(r) /\ Reviewed(r) /\ r.reply = Null)
  BY <1>4, <1>5
<1>7. Fetching(Range(pending'))
  BY <1>4, <1>5 DEF Fetching
<1>8. mine => Waits(Range(pending'), {"fetch"}, 0, next)
  BY <1>2, <1>4, <1>5 DEF Waits
<1>9. mine /\ modal => WaitsInModal(Range(pending'), {"bulk", "fetch"}, 0, next)
  BY <1>2, <1>4, <1>5 DEF WaitsInModal
<1>. QED
  BY <1>4, <1>6, <1>7, <1>8, <1>9

LEMMA BulkAnsweredInv ==
  ASSUME IInv, NEW k \in DOMAIN pending, BulkAnswered(k), UNCHANGED <<rows, acts>>
  PROVE  IInv'
<1>. DEFINE r == pending[k]
<1>1. /\ r.kind = "bulk" /\ UNCHANGED <<items, card, calm>>
      /\ IF r.reply = Refused
         THEN /\ page' = IF r.modal THEN [page EXCEPT !.loading = FALSE] ELSE page
              /\ pending' = Others(k) /\ UNCHANGED loading
         ELSE /\ pending' = Append(Others(k), [Fetch(r.next) EXCEPT !.mine = r.mine, !.modal = r.modal])
              /\ loading' = TRUE /\ UNCHANGED page
  BY DEF BulkAnswered
<1>2. /\ r \in Requests /\ r.next \in {"close", "upload"}
      /\ r.mine \in BOOLEAN /\ r.modal \in BOOLEAN
  BY <1>1, OneFacts DEF Fits, Requests
<1>3. page \in Page /\ loading \in BOOLEAN /\ PageWaits(Range(pending), page)
  BY PendingFacts DEF IInv, PageTypeOK
<1>4. /\ page.uploading => Waits(Rest(k), {"now"}, 0, "none")
                           \/ Waits(Rest(k), {"fetch"}, 0, "uploaded")
      /\ page.loading => \/ WaitsInModal(Rest(k), {"bulk", "fetch"}, 0, "close")
                         \/ r.mine /\ r.modal /\ r.next = "close"
  BY <1>1, <1>3, RestFacts DEF PageWaits
<1>5. CASE r.reply = Refused
  <2>1. /\ pending' = Others(k) /\ loading' = loading
        /\ page' = IF r.modal THEN [page EXCEPT !.loading = FALSE] ELSE page
    BY <1>1, <1>5
  <2>2. /\ page' \in Page /\ (page'.uploading => page.uploading)
        /\ page'.loading => page.loading /\ ~r.modal
    BY <1>2, <1>3, <2>1 DEF Page
  <2>3. pending' \in Seq(Requests) /\ Range(pending') = Rest(k)
    BY <2>1, RestAlike
  <2>4. PageWaits(Range(pending'), page')
    BY <1>4, <2>2, <2>3 DEF PageWaits
  <2>. QED
    BY <1>1, <1>3, <1>5, <2>1, <2>2, <2>3, <2>4, BulkStepInv
<1>6. CASE r.reply # Refused
  <2>1. /\ pending' = Append(Others(k), [Fetch(r.next) EXCEPT !.mine = r.mine, !.modal = r.modal])
        /\ loading' = TRUE /\ page' = page
    BY <1>1, <1>6
  <2>2. /\ pending' \in Seq(Requests) /\ Rest(k) \subseteq Range(pending')
        /\ \A q \in Range(pending') :
             q \in Rest(k) \/ (Fits(q) /\ Reviewed(q) /\ q.reply = Null)
        /\ Fetching(Range(pending'))
        /\ r.mine /\ r.modal => WaitsInModal(Range(pending'), {"bulk", "fetch"}, 0, r.next)
    BY <1>2, <2>1, ThenFetchFacts
  <2>3. PageWaits(Range(pending'), page')
    BY <1>4, <2>1, <2>2 DEF PageWaits, Waits, WaitsInModal
  <2>. QED
    BY <1>1, <1>3, <2>1, <2>2, <2>3, BulkStepInv
<1>. QED
  BY <1>5, <1>6

LEMMA UploadNowAnsweredInv ==
  ASSUME IInv, NEW k \in DOMAIN pending, UploadNowAnswered(k), UNCHANGED <<rows, acts>>
  PROVE  IInv'
<1>. DEFINE r == pending[k]
<1>1. /\ r.kind = "now" /\ UNCHANGED <<items, card, calm>>
      /\ IF r.reply = Refused
         THEN /\ page' = IF r.mine THEN [page EXCEPT !.uploading = FALSE] ELSE page
              /\ pending' = Others(k) /\ UNCHANGED loading
         ELSE /\ pending' = Append(Others(k), [Fetch("uploaded") EXCEPT !.mine = r.mine, !.modal = FALSE])
              /\ loading' = TRUE /\ UNCHANGED page
  BY DEF UploadNowAnswered
<1>2. r \in Requests /\ r.mine \in BOOLEAN
  BY OneFacts DEF Requests
<1>3. page \in Page /\ loading \in BOOLEAN /\ PageWaits(Range(pending), page)
  BY PendingFacts DEF IInv, PageTypeOK
<1>4. /\ page.uploading => \/ Waits(Rest(k), {"now"}, 0, "none")
                           \/ Waits(Rest(k), {"fetch"}, 0, "uploaded")
                           \/ r.mine
      /\ page.loading => WaitsInModal(Rest(k), {"bulk", "fetch"}, 0, "close")
  BY <1>1, <1>3, RestFacts DEF PageWaits
<1>5. CASE r.reply = Refused
  <2>1. /\ pending' = Others(k) /\ loading' = loading
        /\ page' = IF r.mine THEN [page EXCEPT !.uploading = FALSE] ELSE page
    BY <1>1, <1>5
  <2>2. /\ page' \in Page /\ (page'.loading => page.loading)
        /\ page'.uploading => page.uploading /\ ~r.mine
    BY <1>2, <1>3, <2>1 DEF Page
  <2>3. pending' \in Seq(Requests) /\ Range(pending') = Rest(k)
    BY <2>1, RestAlike
  <2>4. PageWaits(Range(pending'), page')
    BY <1>4, <2>2, <2>3 DEF PageWaits
  <2>. QED
    BY <1>1, <1>3, <1>5, <2>1, <2>2, <2>3, <2>4, BulkStepInv
<1>6. CASE r.reply # Refused
  <2>1. /\ pending' = Append(Others(k), [Fetch("uploaded") EXCEPT !.mine = r.mine, !.modal = FALSE])
        /\ loading' = TRUE /\ page' = page
    BY <1>1, <1>6
  <2>2. /\ pending' \in Seq(Requests) /\ Rest(k) \subseteq Range(pending')
        /\ \A q \in Range(pending') :
             q \in Rest(k) \/ (Fits(q) /\ Reviewed(q) /\ q.reply = Null)
        /\ Fetching(Range(pending'))
        /\ r.mine => Waits(Range(pending'), {"fetch"}, 0, "uploaded")
    BY <1>2, <2>1, ThenFetchFacts
  <2>3. PageWaits(Range(pending'), page')
    BY <1>4, <2>1, <2>2 DEF PageWaits, Waits, WaitsInModal
  <2>. QED
    BY <1>1, <1>3, <2>1, <2>2, <2>3, BulkStepInv
<1>. QED
  BY <1>5, <1>6

(* What the page does after its fetch, and what it then asks.              *)
LEMMA WentFacts ==
  ASSUME IInv, NEW r \in Requests
  PROVE  /\ Went(r) \in Page
         /\ Went(r).loading => page.loading /\ (r.mine => r.next \notin {"close", "upload"})
         /\ Went(r).uploading => \/ page.uploading /\ (r.mine => r.next # "uploaded")
                                 \/ r.mine /\ r.next = "upload"
<1>. DEFINE closed == [page EXCEPT !.review = FALSE, !.loading = FALSE,
                                   !.form = FALSE, !.start = FALSE]
<1>1. page \in Page /\ r.mine \in BOOLEAN
  BY DEF IInv, PageTypeOK, Requests
<1>2. /\ closed \in Page /\ closed.loading = FALSE /\ (closed.uploading => page.uploading)
      /\ closed.uploading \in BOOLEAN
  BY <1>1 DEF Page
<1>3. CASE r.mine /\ r.next = "close"
  <2>1. Went(r) = closed
    BY <1>3 DEF Went
  <2>. QED
    BY <1>2, <1>3, <2>1
<1>4. CASE r.mine /\ r.next = "upload"
  <2>1. Went(r) = [closed EXCEPT !.uploading = TRUE]
    BY <1>4 DEF Went
  <2>. HIDE DEF closed
  <2>2. Went(r) \in Page /\ ~Went(r).loading
    BY <1>2, <2>1 DEF Page
  <2>. QED
    BY <1>4, <2>2
<1>5. CASE r.mine /\ r.next = "uploaded"
  <2>1. Went(r) = [page EXCEPT !.uploading = FALSE]
    BY <1>5 DEF Went
  <2>2. /\ Went(r) \in Page /\ ~Went(r).uploading
        /\ Went(r).loading => page.loading
    BY <1>1, <2>1 DEF Page
  <2>. QED
    BY <1>5, <2>2
<1>6. CASE ~ (r.mine /\ r.next \in {"close", "upload", "uploaded"})
  <2>1. Went(r) = page
    BY <1>6 DEF Went
  <2>. QED
    BY <1>1, <1>6, <2>1
<1>. QED
  BY <1>3, <1>4, <1>5, <1>6

LEMMA ThenAskFacts ==
  ASSUME IInv, NEW r \in Requests, NEW left \in Seq(Requests)
  PROVE  /\ left \o ThenAsk(r) \in Seq(Requests)
         /\ Range(left) \subseteq Range(left \o ThenAsk(r))
         /\ \A q \in Range(left \o ThenAsk(r)) :
              q \in Range(left) \/ (Fits(q) /\ Reviewed(q) /\ q.reply = Null)
         /\ r.mine /\ r.next = "upload" => Waits(Range(left \o ThenAsk(r)), {"now"}, 0, "none")
<1>. DEFINE q == Request("now", 0, "none")
            f == [q EXCEPT !.at = acts, !.mine = r.mine, !.modal = FALSE]
<1>1. CASE r.next # "upload"
  <2>1. left \o ThenAsk(r) = left
    BY <1>1 DEF ThenAsk
  <2>. QED
    BY <1>1, <2>1
<1>2. CASE r.next = "upload"
  <2>1. q \in Requests /\ Asking(q, "now", 0, "none")
    BY RequestFacts DEF Request, Asking
  <2>2. acts \in 0 .. MaxActs /\ r.mine \in BOOLEAN
    BY DEF IInv, PageTypeOK, Requests
  <2>3. f \in Requests /\ Asking(f, "now", 0, "none") /\ f.mine = r.mine
    <3>. HIDE DEF q
    <3>. QED
      BY <2>1, <2>2 DEF Requests, Asking
  <2>4. ThenAsk(r) = <<f>>
    BY <1>2 DEF ThenAsk
  <2>. HIDE DEF f
  <2>5. Fits(f) /\ Reviewed(f) /\ f.reply = Null
    BY <2>3, ConstantFacts DEF Asking, Fits, Reviewed, OfCard
  <2>6. <<f>> \in Seq(Requests) /\ Range(<<f>>) = {f}
    BY <2>3 DEF Range
  <2>7. /\ left \o <<f>> \in Seq(Requests)
        /\ Range(left \o <<f>>) = Range(left) \cup {f}
    <3>1. left \o <<f>> \in Seq(Requests)
      BY <2>6
    <3>2. Range(left \o <<f>>) = Range(left) \cup Range(<<f>>)
      BY <2>6, RangeConcat
    <3>. QED
      BY <2>6, <3>1, <3>2
  <2>8. r.mine => Waits(Range(left \o <<f>>), {"now"}, 0, "none")
    BY <2>3, <2>7 DEF Waits, Asking
  <2>. QED
    BY <2>4, <2>5, <2>7, <2>8
<1>. QED
  BY <1>1, <1>2

LEMMA FollowsExplained ==
  ASSUME NEW list, Follows(list), NEW Q PROVE Explained(Q, list, rows)
BY DEF Follows, Explained

LEMMA FetchedInv ==
  ASSUME IInv, NEW k \in DOMAIN pending, Fetched(k), pending[k].reply # Null,
         UNCHANGED <<rows, acts>>
  PROVE  IInv'
<1>. DEFINE r == pending[k]
            list == IF r.reply = Refused THEN items ELSE r.reply
            closes == r.mine /\ r.next \in {"close", "upload"}
            left == IF closes THEN Closed(Others(k), 0) ELSE Others(k)
            reqs == left \o ThenAsk(r)
            Q == Range(reqs)
            p == Went(r)
<1>1. /\ r.kind = "fetch" /\ loading' = FALSE /\ calm' = (calm /\ Follows(list))
      /\ Redraw(list, p, card, reqs)
  BY DEF Fetched
<1>2. /\ r \in Requests /\ Fits(r) /\ r.mine \in BOOLEAN /\ r.item = 0
  BY <1>1, OneFacts DEF Requests, Fits, OfCard
<1>3. /\ items \in Tables /\ card \in [Items -> Card] /\ page \in Page
      /\ calm \in BOOLEAN /\ acts \in 0 .. MaxActs
  BY DEF IInv, PageTypeOK
<1>4. list \in Tables
  <2>1. r.reply \in {Null, Refused, Done} \cup Tables /\ r.reply # Done
    BY <1>1, <1>2 DEF Requests, Fits
  <2>. QED
    BY <1>3, <2>1
<1>5. /\ left \in Seq(Requests) /\ Alike(Rest(k), Range(left))
      /\ \A kinds, i, next : Waits(Rest(k), kinds, i, next) => Waits(Range(left), kinds, i, next)
      /\ \A kinds, i, next : WaitsInModal(Rest(k), kinds, i, next) /\ (closes => i # 0) =>
                               WaitsInModal(Range(left), kinds, i, next)
  <2>1. CASE closes
    <3>1. left = Closed(Others(k), 0)
      BY <2>1
    <3>. HIDE DEF left
    <3>2. left \in Seq(Requests) /\ Range(left) = {Shut(x, 0) : x \in Rest(k)}
      BY <3>1, RestAlike, ClosedFacts
    <3>3. Alike(Rest(k), Range(left))
      BY <3>2, RestAlike, AlikeShut
    <3>4. /\ \A kinds, i, next : Waits(Rest(k), kinds, i, next) => Waits(Range(left), kinds, i, next)
          /\ \A kinds, i, next : i # 0 /\ WaitsInModal(Rest(k), kinds, i, next) =>
                                   WaitsInModal(Range(left), kinds, i, next)
      <4>. DEFINE R == {Shut(x, 0) : x \in Rest(k)}
      <4>1. /\ \A kinds, i, next : Waits(Rest(k), kinds, i, next) => Waits(R, kinds, i, next)
            /\ \A kinds, i, next : i # 0 /\ WaitsInModal(Rest(k), kinds, i, next) =>
                                     WaitsInModal(R, kinds, i, next)
        BY RestAlike, WaitsShut
      <4>2. Range(left) = R
        BY <3>2
      <4>. HIDE DEF R
      <4>. QED
        BY <4>1, <4>2
    <3>. QED
      BY <2>1, <3>2, <3>3, <3>4
  <2>2. CASE ~closes
    <3>1. left = Others(k)
      BY <2>2
    <3>. QED
      BY <3>1, RestAlike
  <2>. QED
    BY <2>1, <2>2
<1>. HIDE DEF left
<1>6. /\ reqs \in Seq(Requests) /\ Range(left) \subseteq Q
      /\ \A q \in Q : q \in Range(left) \/ (Fits(q) /\ Reviewed(q) /\ q.reply = Null)
      /\ r.mine /\ r.next = "upload" => Waits(Q, {"now"}, 0, "none")
  BY <1>2, <1>5, ThenAskFacts
<1>. HIDE DEF reqs
<1>7. \A q \in Q : Fits(q) /\ Reviewed(q)
  <2>1. \A q \in Range(left) : Fits(q) /\ Reviewed(q)
    BY <1>5, OneFacts, FitsAlike
  <2>. QED
    BY <1>6, <2>1
<1>8. ASSUME NEW i \in Items PROVE CardWaits(Q, i, card[i])
  <2>1. CardWaits(Range(pending), i, card[i]) /\ i # 0
    BY PendingFacts, ConstantFacts
  <2>2. CardWaits(Rest(k), i, card[i])
    BY <1>2, <2>1, RestFacts DEF CardWaits
  <2>3. CardWaits(Range(left), i, card[i])
    BY <1>5, <2>1, <2>2 DEF CardWaits
  <2>. QED
    BY <1>6, <2>3, WaitsGrow
<1>9. PageWaits(Q, p)
  <2>1. PageWaits(Range(pending), page)
    BY PendingFacts
  <2>2. /\ p.loading => page.loading /\ (r.mine => r.next \notin {"close", "upload"})
        /\ p.uploading => \/ page.uploading /\ (r.mine => r.next # "uploaded")
                          \/ r.mine /\ r.next = "upload"
    BY <1>2, WentFacts
  <2>3. p.loading => WaitsInModal(Range(left), {"bulk", "fetch"}, 0, "close")
    <3>. SUFFICES ASSUME p.loading
                  PROVE  WaitsInModal(Range(left), {"bulk", "fetch"}, 0, "close")
      OBVIOUS
    <3>1. WaitsInModal(Rest(k), {"bulk", "fetch"}, 0, "close")
      BY <2>1, <2>2, RestFacts DEF PageWaits
    <3>. QED
      BY <1>5, <2>2, <3>1
  <2>4. p.uploading => \/ Waits(Range(left), {"now"}, 0, "none")
                       \/ Waits(Range(left), {"fetch"}, 0, "uploaded")
                       \/ Waits(Q, {"now"}, 0, "none")
    <3>1. page.uploading /\ (r.mine => r.next # "uploaded") =>
            Waits(Rest(k), {"now"}, 0, "none") \/ Waits(Rest(k), {"fetch"}, 0, "uploaded")
      BY <1>1, <2>1, RestFacts DEF PageWaits
    <3>. QED
      BY <1>5, <1>6, <2>2, <3>1
  <2>. QED
    BY <1>6, <2>3, <2>4 DEF PageWaits, Waits, WaitsInModal
<1>10. \A i \in DOMAIN rows : ~Granted(Q, "delete", i)
  <2>1. \A i \in DOMAIN rows : ~Granted(Range(left), "delete", i)
    BY <1>5, OneFacts, GrantedAlike
  <2>. QED
    BY <1>6, <2>1 DEF Granted
<1>11. calm' => Explained(Q, list, rows)
  BY <1>1, FollowsExplained
<1>12. /\ calm' \in BOOLEAN /\ loading' \in BOOLEAN /\ acts' \in 0 .. MaxActs /\ ~loading'
       /\ p \in Page
  BY <1>1, <1>2, <1>3, WentFacts DEF Follows
<1>. HIDE DEF list, p, Q
<1>13. Q = Range(reqs)
  BY DEF Q
<1>. QED
  BY <1>1, <1>3, <1>4, <1>6, <1>7, <1>8, <1>9, <1>10, <1>11, <1>12, <1>13, RedrawInv

LEMMA AnswerInv == ASSUME IInv, NEW k \in DOMAIN pending, Answer(k) PROVE IInv'
<1>1. pending[k].reply # Null /\ UNCHANGED <<rows, acts>>
  BY DEF Answer
<1>2. CASE RetryAnswered(k)
  BY <1>1, <1>2, RetryAnsweredInv
<1>3. CASE DeleteAnswered(k)
  <2>1. CASE pending[k].reply = Refused
    BY <1>1, <1>3, <2>1, DeleteRefusedInv
  <2>2. CASE pending[k].reply # Refused
    BY <1>1, <1>3, <2>2, DeletedInv
  <2>. QED
    BY <2>1, <2>2
<1>4. CASE ScheduleAnswered(k)
  BY <1>1, <1>4, ScheduleAnsweredInv
<1>5. CASE BulkAnswered(k)
  BY <1>1, <1>5, BulkAnsweredInv
<1>6. CASE UploadNowAnswered(k)
  BY <1>1, <1>6, UploadNowAnsweredInv
<1>7. CASE Fetched(k)
  BY <1>1, <1>7, FetchedInv
<1>. QED
  BY <1>2, <1>3, <1>4, <1>5, <1>6, <1>7 DEF Answer

LEMMA StepInv == IInv /\ [PageNext]_pageVars => IInv'
<1>. SUFFICES ASSUME IInv, [PageNext]_pageVars PROVE IInv'
  OBVIOUS
<1>1. CASE \E i \in Items : \/ Retry(i) \/ Delete(i) \/ OpenReview(i) \/ CloseReview(i)
                            \/ ConfirmSchedule(i) \/ WorkerStep(i)
  BY <1>1, RetryInv, DeleteInv, OpenReviewInv, CloseReviewInv, ConfirmScheduleInv, UploadInv
<1>2. CASE \/ ToggleForm \/ TypeStart \/ TypeInterval \/ OpenBulkReview \/ CloseBulkReview
           \/ ConfirmBulk \/ ScheduleAndUploadNow \/ StatusFilterChange \/ SelectChannel \/ Remount
  BY <1>2, ToggleFormInv, TypeStartInv, TypeIntervalInv, OpenBulkReviewInv, CloseBulkReviewInv,
     ConfirmBulkInv, ScheduleAndUploadNowInv, StatusFilterChangeInv, SelectChannelInv,
     RemountInv
<1>3. CASE \E k \in DOMAIN pending : Serve(k) \/ RequestFails(k) \/ Answer(k)
  BY <1>3, ServeInv, RequestFailsInv, AnswerInv
<1>4. CASE UNCHANGED pageVars
  <2>1. PageTypeOK' /\ RequestsFit' /\ SpinnersWait' /\ DeletedIsGone' /\ DifferenceExplained'
    BY <1>4
       DEF pageVars, IInv, PageTypeOK, RequestsFit, Fits, Reviewed, SpinnersWait, CardWaits, PageWaits,
           Waits, WaitsInModal, Fetching, DeletedIsGone, DifferenceExplained, Refetch,
           Explained, Granted
  <2>. QED
    BY <2>1 DEF IInv
<1>. QED
  BY <1>1, <1>2, <1>3, <1>4 DEF PageNext

-----------------------------------------------------------------------------
LEMMA Inductive == PageSpec => []IInv
<1>1. PageInit => IInv
  BY InitInv
<1>. QED
  BY <1>1, StepInv, PTL DEF PageSpec

(* Type correctness: the rows of the page and of the server, their times,  *)
(* the cards and modals, and what each kind of request holds of an answer. *)
THEOREM PageTypeCorrect == PageSpec => []PageTypeOK
<1>1. IInv => PageTypeOK
  BY DEF IInv
<1>. QED
  BY <1>1, Inductive, PTL

LEMMA WaitsIsAsked ==
  ASSUME NEW kind, NEW i, NEW next, Waits(Range(pending), {kind}, i, next)
  PROVE  Asked(kind, i, {next})
BY DEF Waits, Asked, Range

(* However many requests are under way, and whichever cards and modals are *)
(* closed before they end, no button of the queue page stays disabled once *)
(* the request it waits for has ended.                                     *)
THEOREM SpinnersEnd == PageSpec => []BusyEnds
<1>1. ASSUME IInv PROVE BusyEnds
  <2>1. loading => \E k \in DOMAIN pending : pending[k].kind = "fetch"
    BY <1>1, PendingFacts DEF Fetching, Range
  <2>2. ASSUME NEW i \in Items
        PROVE  /\ card[i].busy # Null => Asked(card[i].busy, i, {"none"})
               /\ card[i].loading => Asked("schedule", i, {"none"})
    <3>1. CardWaits(Range(pending), i, card[i])
      BY <1>1, PendingFacts
    <3>2. card[i].loading => Waits(Range(pending), {"schedule"}, i, "none")
      BY <3>1 DEF CardWaits, WaitsInModal, Waits
    <3>. QED
      BY <3>1, <3>2, WaitsIsAsked DEF CardWaits
  <2>3. PageWaits(Range(pending), page)
    BY <1>1, PendingFacts
  <2>4. page.loading => Asked("bulk", 0, {"close"}) \/ Asked("fetch", 0, {"close"})
    BY <2>3 DEF PageWaits, WaitsInModal, Asked, Range
  <2>5. page.uploading => Asked("now", 0, {"none"}) \/ Asked("fetch", 0, {"uploaded"})
    BY <2>3, WaitsIsAsked DEF PageWaits
  <2>. QED
    BY <2>1, <2>2, <2>4, <2>5 DEF BusyEnds
<1>. QED
  BY <1>1, Inductive, PTL

(* At rest the page shows the rows and the times of the server if no       *)
(* answer was overtaken or lost: the store, which changes its rows by the  *)
(* answers alone, and the endpoints that change them agree on every kind   *)
(* of request.                                                             *)
THEOREM QueueIsShown == PageSpec => []ShownIsStored
<1>1. ASSUME IInv PROVE ShownIsStored
  <2>. SUFFICES ASSUME calm, pending = <<>> PROVE Follows(items)
    BY DEF ShownIsStored
  <2>1. Range(pending) = {}
    BY DEF Range
  <2>2. Explained(Range(pending), items, rows)
    BY <1>1, <2>1, PendingFacts DEF Refetch, Fetching, Granted
  <2>. QED
    BY <2>1, <2>2 DEF Explained, Granted, Follows
<1>. QED
  BY <1>1, Inductive, PTL

(* A confirmed bulk with an interval gives a clip no later time than its   *)
(* review showed, whatever has left the queue since, unless a clip that    *)
(* the review did not show is queued ahead of it; the very time when the   *)
(* clips ahead are the same.  The review counts over the store's rows when *)
(* it is confirmed, the server over its own when it serves.                *)
THEOREM BulkAsReviewed == PageSpec => ScheduledAsReviewed
<1>. DEFINE Stays == \A k \in DOMAIN pending :
       /\ pending[k].kind = "bulk" /\ pending[k].next = "close"
       /\ pending[k].interval # 0
       /\ pending[k].reply = Null /\ rows' # rows /\ k \in DOMAIN pending'
       /\ pending'[k].reply # Null
       => LET reviewed == pending[k].shown
              ahead(i) == {j \in DOMAIN reviewed : j < i}
          IN \A i \in DOMAIN reviewed \cap QueuedOf(rows) :
               /\ QueuedBefore(rows, i) \subseteq ahead(i) =>
                    /\ rows'[i].at[1] = reviewed[i][1]
                    /\ rows'[i].at[2] <= reviewed[i][2]
               /\ QueuedBefore(rows, i) = ahead(i) => rows'[i].at = reviewed[i]
<1>1. ASSUME IInv, [PageNext]_pageVars PROVE Stays
  <2>. SUFFICES ASSUME NEW k \in DOMAIN pending,
                       pending[k].kind = "bulk", pending[k].next = "close",
                       pending[k].interval # 0,
                       pending[k].reply = Null, rows' # rows, k \in DOMAIN pending',
                       pending'[k].reply # Null,
                       NEW i \in DOMAIN pending[k].shown \cap QueuedOf(rows)
                PROVE  LET reviewed == pending[k].shown
                           ahead == Ahead(DOMAIN reviewed, i)
                       IN /\ QueuedBefore(rows, i) \subseteq ahead =>
                               /\ rows'[i].at[1] = reviewed[i][1]
                               /\ rows'[i].at[2] <= reviewed[i][2]
                          /\ QueuedBefore(rows, i) = ahead => rows'[i].at = reviewed[i]
    BY DEF Ahead
  <2>1. \/ \E j \in Items : WorkerStep(j)
        \/ \E j \in DOMAIN pending : Serve(j)
    BY <1>1
       DEF PageNext, pageVars, Retry, Delete, OpenReview, CloseReview, ConfirmSchedule, ToggleForm,
           TypeStart, TypeInterval, OpenBulkReview, CloseBulkReview, ConfirmBulk,
           ScheduleAndUploadNow, StatusFilterChange, SelectChannel, Remount, RequestFails, Answer
  <2>2. PICK j \in DOMAIN pending : Serve(j)
    BY <2>1 DEF WorkerStep
  <2>3. j = k
    BY <2>2 DEF Serve, Reply
  <2>. DEFINE r == pending[k]
              R == DOMAIN r.shown
              S == QueuedOf(rows)
  <2>4. /\ rows' = SetAt(rows, Spread(rows, r))
        /\ rows \in Tables /\ r \in Requests /\ Reviewed(r)
    BY <1>1, <2>2, <2>3, OneFacts DEF Serve, Served, BulkScheduled, IInv, PageTypeOK
  <2>5. r.interval \in Nat /\ Step(r) = r.interval
    BY <2>4 DEF Requests, Step
  <2>6. /\ Spread(rows, r) \in [S -> Times] /\ Spread(rows, r) = InOrderOf(S, r.at, r.interval)
        /\ S \in SUBSET Items /\ QueuedBefore(rows, i) = Ahead(S, i)
    BY <2>4, <2>5, SpreadFacts, QueuedOfFacts
  <2>7. R \in SUBSET Items /\ r.shown = InOrderOf(R, r.at, r.interval)
    BY <2>4 DEF Reviewed
  <2>8. i \in S /\ i \in R /\ i \in DOMAIN rows
    BY DEF QueuedOf
  <2>. HIDE DEF r, R, S
  <2>9. rows'[i].at = InOrderOf(S, r.at, r.interval)[i]
    BY <2>4, <2>6, <2>8, SetAtFacts
  <2>10. /\ rows'[i].at = <<r.at, Start + Cardinality(Ahead(S, i)) * r.interval>>
         /\ r.shown[i] = <<r.at, Start + Cardinality(Ahead(R, i)) * r.interval>>
    <3>1. rows'[i].at = <<r.at, Start + Cardinality(Ahead(S, i)) * r.interval>>
      BY <2>8, <2>9 DEF InOrderOf
    <3>2. InOrderOf(R, r.at, r.interval)[i] = <<r.at, Start + Cardinality(Ahead(R, i)) * r.interval>>
      BY <2>8 DEF InOrderOf
    <3>. QED
      BY <2>7, <3>1, <3>2
  <2>11. Ahead(S, i) \subseteq Ahead(R, i) =>
           Start + Cardinality(Ahead(S, i)) * r.interval <= Start + Cardinality(Ahead(R, i)) * r.interval
    BY <2>5, <2>6, <2>7, PlaceShrinks
  <2>. QED
    BY <2>6, <2>10, <2>11 DEF r, R
<1>2. ScheduledAsReviewed <=> [][Stays]_pageVars
  BY DEF ScheduledAsReviewed
<1>. QED
  BY <1>1, <1>2, Inductive, PTL DEF PageSpec
===============================================================================
