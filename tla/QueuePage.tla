------------------------------ MODULE QueuePage ------------------------------
(***************************************************************************)
(* The upload queue as the web client shows it: the page with its tabs,    *)
(* channel filter and bulk form, the cards with their buttons, the review  *)
(* modals, and the store's copy of the queue, which nothing but the        *)
(* answers to the page's own requests changes.  Of the server there are    *)
(* the endpoints and what the uploader does to a row (UploadQueue has the  *)
(* passes); a loop of a handler over the rows is one step.  A time to      *)
(* publish at is a pair: which scheduling it comes from, and how far into  *)
(* it, in days; Now stands for the moment of an upload-now.                *)
(***************************************************************************)
EXTENDS Naturals, Sequences, FiniteSets, SequencesExt

CONSTANTS
  NumItems,
  NumChannels,
  Status0,      \* the status of each row to begin with
  Intervals,    \* the days that are typed (bound), 0 for a cleared field
  MaxActs,      \* requests, changes of view and failures (bound)
  Null,
  Refused,      \* the answer to a request that failed
  Done          \* that of the server to a request which asks for nothing

ASSUME QueueConstants == /\ NumItems \in Nat \ {0}
                         /\ NumChannels \in Nat \ {0}
                         /\ Status0 \in Seq({"queued", "error"}) /\ Len(Status0) = NumItems
                         /\ Intervals \subseteq Nat
                         /\ MaxActs \in Nat

VARIABLES
  rows,      \* server: the rows that are left
  items,     \* store: the rows as last heard of
  loading,   \* store
  card,      \* the local state of each card
  page,      \* the local state of the page
  pending,   \* the requests in flight
  acts,      \* those so far; they number the schedulings
  calm       \* history: no answer was overtaken or lost

pageVars == <<rows, items, loading, card, page, pending, acts, calm>>

Items    == 1 .. NumItems
Channels == 1 .. NumChannels
Statuses == {"queued", "running", "uploaded", "error"}
Now      == 0
Start    == 1
Times    == (0 .. MaxActs) \X Nat
QueueRow == [status : Statuses, at : Times]
Never    == <<0, Start>>
ChannelOf(i) == 1 + (i % NumChannels)

FreshCard == [busy |-> Null, open |-> FALSE, loading |-> FALSE]
FreshPage == [filter |-> "queue", channel |-> 0, form |-> FALSE, start |-> FALSE,
              interval |-> 1, review |-> FALSE, loading |-> FALSE, uploading |-> FALSE]

(* `shown`: the times a bulk review shows; `mine`: the component that      *)
(* asked is still there; `modal`: so is the modal in it; `next`: what the  *)
(* page does when it is answered.                                          *)
Request(kind, item, next) ==
  [kind |-> kind, item |-> item, at |-> 0, interval |-> 0, shown |-> Null,
   next |-> next, reply |-> Null, mine |-> TRUE, modal |-> TRUE]
Fetch(next) == Request("fetch", 0, next)

Tables == UNION {[S -> QueueRow] : S \in SUBSET Items}
OfCard == {"retry", "delete", "schedule"}

ASSUME AnswersDiffer == /\ Null # Refused /\ Done \notin {Null, Refused}
                        /\ Null \notin OfCard
                        /\ \A S \in SUBSET Items, v \in {Null, Refused, Done} :
                             v \notin [S -> QueueRow]

Card == [busy : {Null} \cup OfCard, open : BOOLEAN, loading : BOOLEAN]
Page == [filter : {"queue", "history"}, channel : {0} \cup Channels, form : BOOLEAN,
         start : BOOLEAN, interval : Nat, review : BOOLEAN, loading : BOOLEAN, uploading : BOOLEAN]
Requests ==
  [kind  : OfCard \cup {"bulk", "now", "fetch"}, item : {0} \cup Items,
   at    : 0 .. MaxActs, interval : Nat,
   shown : {Null} \cup UNION {[S -> Times] : S \in SUBSET Items},
   next  : {"none", "close", "upload", "uploaded"},
   reply : {Null, Refused, Done} \cup Tables, mine : BOOLEAN, modal : BOOLEAN]

PageTypeOK ==
  /\ rows \in Tables /\ items \in Tables
  /\ loading \in BOOLEAN /\ calm \in BOOLEAN
  /\ card \in [Items -> Card] /\ page \in Page
  /\ pending \in Seq(Requests)
  /\ acts \in 0 .. MaxActs

PageInit ==
  /\ rows = [i \in Items |-> [status |-> Status0[i], at |-> Never]]
  /\ items = [i \in {} |-> Null]
  /\ loading = TRUE
  /\ card = [i \in Items |-> FreshCard]
  /\ page = FreshPage
  /\ pending = <<Fetch("none")>>
  /\ acts = 0
  /\ calm = TRUE

May == acts < MaxActs        \* what leads to no further act is left out
Act == May /\ acts' = acts + 1
-----------------------------------------------------------------------------
(* What is shown.                                                          *)

InTab(list, p) == {i \in DOMAIN list : (list[i].status = "uploaded") = (p.filter = "history")}
Options(list, p) == {ChannelOf(i) : i \in InTab(list, p)}
Shown(list, p) == {i \in InTab(list, p) : p.channel \in {0, ChannelOf(i)}}

(* The requests of an owner whose modal is closed.                         *)
Closed(reqs, owner) ==
  [k \in DOMAIN reqs |-> [reqs[k] EXCEPT !.modal = @ /\ reqs[k].item # owner]]

(* A card that is not shown any more is unmounted.                         *)
Redraw(list, p, cards, reqs) ==
  /\ items' = list
  /\ page' = p
  /\ card' = [i \in Items |-> IF i \in Shown(list, p) THEN cards[i] ELSE FreshCard]
  /\ pending' = [k \in DOMAIN reqs |->
                   IF reqs[k].item \in {0} \cup Shown(list, p) THEN reqs[k]
                   ELSE [reqs[k] EXCEPT !.mine = FALSE, !.modal = FALSE]]

Ask(request) == pending' = Append(pending, request)
(* An open modal covers the page.                                          *)
Uncovered == ~page.review /\ \A i \in Items : ~card[i].open
Visible(i) == i \in Shown(items, page) /\ Uncovered
QueuedOf(list) == {i \in DOMAIN list : list[i].status = "queued"}

QueuedBefore(list, i) == {j \in QueuedOf(list) : j < i}

(* The times the review shows: the interval as it stands in the form.      *)
Preview(list, start, interval) ==
  [i \in QueuedOf(list) |-> <<start, Start + Cardinality(QueuedBefore(list, i)) * interval>>]
-----------------------------------------------------------------------------
(* The cards.                                                              *)

(* A button waits for its own request only, and only while the card        *)
(* remembers it: it has one place for the three.                           *)
CanRetry(i)  == Visible(i) /\ items[i].status = "error" /\ card[i].busy # "retry"
CanDelete(i) == Visible(i) /\ card[i].busy # "delete"
CanConfirm(i) == card[i].open /\ ~card[i].loading

Retry(i) ==
  /\ CanRetry(i)
  /\ Act
  /\ card' = [card EXCEPT ![i].busy = "retry"]
  /\ Ask(Request("retry", i, "none"))
  /\ UNCHANGED <<rows, items, loading, page, calm>>

Delete(i) ==
  /\ CanDelete(i)
  /\ Act
  /\ card' = [card EXCEPT ![i].busy = "delete"]
  /\ Ask(Request("delete", i, "none"))
  /\ UNCHANGED <<rows, items, loading, page, calm>>

OpenReview(i) ==
  /\ Visible(i) /\ May
  /\ card' = [card EXCEPT ![i].open = TRUE]
  /\ UNCHANGED <<rows, items, loading, page, pending, acts, calm>>

(* Escape closes a modal that is waiting as well.                          *)
CloseReview(i) ==
  /\ card[i].open
  /\ card' = [card EXCEPT ![i].open = FALSE, ![i].loading = FALSE]
  /\ pending' = Closed(pending, i)
  /\ UNCHANGED <<rows, items, loading, page, acts, calm>>

(* mutant: the button of the card is not given back *)
ConfirmScheduleOfOther(i) ==
  /\ CanConfirm(i)
  /\ Act
  /\ card' = [j \in Items |-> [card[j] EXCEPT !.busy = "schedule", !.loading = j = i]]
  /\ Ask([Request("schedule", i, "none") EXCEPT !.at = acts + 1])
  /\ UNCHANGED <<rows, items, loading, page, calm>>

ConfirmSchedule(i) ==
  /\ CanConfirm(i)
  /\ Act
  /\ card' = [card EXCEPT ![i].busy = "schedule", ![i].loading = TRUE]
  /\ Ask([Request("schedule", i, "none") EXCEPT !.at = acts + 1])
  /\ UNCHANGED <<rows, items, loading, page, calm>>
-----------------------------------------------------------------------------
(* The page.                                                               *)

FormShown == page.form /\ page.filter = "queue" /\ Uncovered

ToggleForm ==
  /\ page.filter = "queue" /\ Uncovered /\ May
  /\ page' = [page EXCEPT !.form = ~@]
  /\ UNCHANGED <<rows, items, loading, card, pending, acts, calm>>

TypeStart ==
  /\ FormShown /\ May
  /\ page' = [page EXCEPT !.start = ~@]
  /\ UNCHANGED <<rows, items, loading, card, pending, acts, calm>>

TypeInterval ==
  /\ FormShown
  /\ Act
  /\ \E days \in Intervals \ {page.interval} : page' = [page EXCEPT !.interval = days]
  /\ UNCHANGED <<rows, items, loading, card, pending, calm>>

OpenBulkReview ==
  /\ FormShown /\ page.start /\ May
  /\ page' = [page EXCEPT !.review = TRUE]
  /\ UNCHANGED <<rows, items, loading, card, pending, acts, calm>>

CloseBulkReview ==
  /\ page.review
  /\ page' = [page EXCEPT !.review = FALSE, !.loading = FALSE]
  /\ pending' = Closed(pending, 0)
  /\ UNCHANGED <<rows, items, loading, card, acts, calm>>

CanConfirmBulk == page.review /\ ~page.loading /\ QueuedOf(items) # {}
ConfirmBulk ==
  /\ CanConfirmBulk
  /\ Act
  /\ page' = [page EXCEPT !.loading = TRUE]
  /\ Ask([Request("bulk", 0, "close") EXCEPT
            !.at = acts + 1, !.interval = page.interval,
            !.shown = Preview(items, acts + 1, page.interval)])
  /\ UNCHANGED <<rows, items, loading, card, calm>>

ScheduleAndUploadNow ==
  /\ FormShown /\ page.start /\ ~page.uploading
  /\ Act
  /\ Ask([Request("bulk", 0, "upload") EXCEPT !.at = acts + 1, !.interval = page.interval,
                                              !.modal = FALSE])
  /\ UNCHANGED <<rows, items, loading, card, page, calm>>

StatusFilterChange ==
  /\ Uncovered /\ Act
  /\ \E f \in {"queue", "history"} \ {page.filter} :
       Redraw(items, [page EXCEPT !.filter = f, !.channel = 0], card, pending)
  /\ UNCHANGED <<rows, loading, calm>>

(* The pills are there when there is a choice.                             *)
SelectChannel ==
  /\ Uncovered /\ Cardinality(Options(items, page)) > 1 /\ Act
  /\ \E c \in (Options(items, page) \cup {0}) \ {page.channel} :
       Redraw(items, [page EXCEPT !.channel = c], card, pending)
  /\ UNCHANGED <<rows, loading, calm>>

(* The page is left and shown again; the store keeps its items.            *)
Remount ==
  /\ Uncovered
  /\ Act
  /\ page' = FreshPage /\ card' = [i \in Items |-> FreshCard]
  /\ pending' = Append([k \in DOMAIN pending |->
                          [pending[k] EXCEPT !.mine = FALSE, !.modal = FALSE]],
                       Fetch("none"))
  /\ loading' = TRUE
  /\ UNCHANGED <<rows, items, calm>>
-----------------------------------------------------------------------------
(* The server.                                                             *)

Without(list, i) == [j \in DOMAIN list \ {i} |-> list[j]]
SetAt(list, at) ==
  [i \in DOMAIN list |-> IF i \in DOMAIN at THEN [list[i] EXCEPT !.at = at[i]] ELSE list[i]]

Requeued(list, i) ==
  [j \in DOMAIN list |-> IF j = i THEN [list[j] EXCEPT !.status = "queued"] ELSE list[j]]
Timed(list, r) == SetAt(list, [i \in {r.item} |-> <<r.at, Start>>])

(* The server has an interval of its own when it is asked for none, and    *)
(* goes on by one interval at every row that is queued.                    *)
Step(r) == IF r.interval = 0 THEN 1 ELSE r.interval
Spread(list, r) ==
  [i \in QueuedOf(list) |-> <<r.at, Start + Cardinality(QueuedBefore(list, i)) * Step(r)>>]

(* mutant: every row has its place in the bulk *)
BulkScheduledAll(r) ==
  SetAt(rows, [i \in QueuedOf(rows) |->
                 <<r.at, Start + Cardinality({j \in DOMAIN rows : j < i}) * Step(r)>>])

BulkScheduled(r) == SetAt(rows, Spread(rows, r))

(* A time that has come already is left.                                   *)
UploadsNow(r) ==
  LET early == {i \in QueuedOf(rows) : rows[i].at[2] # Now}
      must  == {i \in early : rows[i].at = Never}
  IN {SetAt(rows, [i \in who |-> <<r.at, Now>>]) : who \in {w \in SUBSET early : must \subseteq w}}

(* None of the endpoints looks at the status of the row it is asked for.   *)
Served(r) ==
  CASE r.kind = "schedule" -> {Timed(rows, r)}
    [] r.kind = "retry"    -> {Requeued(rows, r.item)}
    [] r.kind = "delete"   -> {Without(rows, r.item)}
    [] r.kind = "bulk"     -> {BulkScheduled(r)}
    [] r.kind = "now"      -> UploadsNow(r)
    [] r.kind = "fetch"    -> {rows}

(* A row that is not there can be retried and deleted, not scheduled.      *)
Result(r) ==
  CASE r.kind = "fetch" -> rows
    [] r.kind = "schedule" /\ r.item \notin DOMAIN rows -> Refused
    [] OTHER -> Done

Reply(k, value) == pending' = [pending EXCEPT ![k].reply = value]

Serve(k) ==
  /\ pending[k].reply = Null
  /\ rows' \in Served(pending[k])
  /\ \/ /\ Reply(k, Result(pending[k]))
        /\ UNCHANGED <<acts, calm>>
     \/ /\ Act                              \* the answer is lost
        /\ Reply(k, Refused)
        /\ calm' = FALSE
  /\ UNCHANGED <<items, loading, card, page>>

RequestFails(k) ==
  /\ pending[k].reply = Null
  /\ Act
  /\ Reply(k, Refused)
  /\ calm' = (calm /\ pending[k].kind # "fetch")
  /\ UNCHANGED <<rows, items, loading, card, page>>

(* A pass takes up a row that has a time, or ends an upload.               *)
WorkerStep(i) ==
  /\ i \in DOMAIN rows
  /\ \/ /\ rows[i].status = "queued" /\ rows[i].at # Never
        /\ rows' = [rows EXCEPT ![i].status = "running"]
     \/ /\ rows[i].status = "running"
        /\ \E s \in {"uploaded", "error"} : rows' = [rows EXCEPT ![i].status = s]
  /\ UNCHANGED <<items, loading, card, page, pending, acts, calm>>
-----------------------------------------------------------------------------
(* The answers.                                                            *)

(* What may have become of a row since it was shown.                       *)
Becomes(status) ==
  CASE status = "queued"  -> Statuses
    [] status = "running" -> Statuses \ {"queued"}
    [] OTHER              -> {status}

Follows(list) ==
  /\ DOMAIN list = DOMAIN rows
  /\ \A i \in DOMAIN list : /\ list[i].at = rows[i].at
                            /\ rows[i].status \in Becomes(list[i].status)

Others(k) == RemoveAt(pending, k)
Idle(c) == [c EXCEPT !.busy = Null]

RetryAnswered(k) ==
  LET r == pending[k]
      done == IF r.mine THEN [card EXCEPT ![r.item] = Idle(@)] ELSE card
      list == IF r.reply = Refused THEN items ELSE Requeued(items, r.item)
  IN
  /\ r.kind = "retry"
  /\ Redraw(list, page, done, Others(k))
  /\ UNCHANGED <<loading, calm>>

(* The button of a card that was deleted is not given back: it is gone.    *)
DeleteAnswered(k) ==
  LET r == pending[k] IN
  /\ r.kind = "delete"
  /\ IF r.reply = Refused
     THEN Redraw(items, page, IF r.mine THEN [card EXCEPT ![r.item] = Idle(@)] ELSE card, Others(k))
     ELSE Redraw(Without(items, r.item), page, card, Others(k))
  /\ UNCHANGED <<loading, calm>>

(* mutant: the time is kept in the modal only *)
ScheduleAnsweredUnstored(k) ==
  LET r == pending[k] IN
  /\ r.kind = "schedule"
  /\ Redraw(items, page, IF r.mine THEN [card EXCEPT ![r.item] = FreshCard] ELSE card, Others(k))
  /\ UNCHANGED <<loading, calm>>

ScheduleAnswered(k) ==
  LET r == pending[k]
      mounted == [busy |-> Null,
                  open |-> card[r.item].open /\ r.reply = Refused,
                  loading |-> card[r.item].loading /\ r.reply = Refused /\ ~r.modal]
      done == IF r.mine THEN [card EXCEPT ![r.item] = mounted] ELSE card
  IN
  /\ r.kind = "schedule"
  /\ IF r.reply = Refused
     THEN Redraw(items, page, done, Others(k)) /\ calm' = calm
     ELSE /\ Redraw(Timed(items, r), page, done, IF r.mine THEN Closed(Others(k), r.item) ELSE Others(k))
          /\ calm' = (calm /\ (r.item \in DOMAIN rows => rows[r.item].at = <<r.at, Start>>))
  /\ UNCHANGED loading

(* bulkSchedule and uploadNow fetch the queue before they return.          *)
BulkAnswered(k) ==
  LET r == pending[k] IN
  /\ r.kind = "bulk"
  /\ IF r.reply = Refused
     THEN /\ page' = IF r.modal THEN [page EXCEPT !.loading = FALSE] ELSE page
          /\ pending' = Others(k)
          /\ UNCHANGED loading
     ELSE /\ pending' = Append(Others(k), [Fetch(r.next) EXCEPT !.mine = r.mine, !.modal = r.modal])
          /\ loading' = TRUE
          /\ UNCHANGED page
  /\ UNCHANGED <<items, card, calm>>

UploadNowAnswered(k) ==
  LET r == pending[k] IN
  /\ r.kind = "now"
  /\ IF r.reply = Refused
     THEN /\ page' = IF r.mine THEN [page EXCEPT !.uploading = FALSE] ELSE page
          /\ pending' = Others(k)
          /\ UNCHANGED loading
     ELSE /\ pending' = Append(Others(k), [Fetch("uploaded") EXCEPT !.mine = r.mine, !.modal = FALSE])
          /\ loading' = TRUE
          /\ UNCHANGED page
  /\ UNCHANGED <<items, card, calm>>

(* What handleBulkConfirm does after its fetch; a page that was left makes *)
(* the request, too.                                                       *)
Went(r) ==
  LET closed == [page EXCEPT !.review = FALSE, !.loading = FALSE,
                             !.form = FALSE, !.start = FALSE]
  IN CASE r.mine /\ r.next = "close"    -> closed
       [] r.mine /\ r.next = "upload"   -> [closed EXCEPT !.uploading = TRUE]
       [] r.mine /\ r.next = "uploaded" -> [page EXCEPT !.uploading = FALSE]
       [] OTHER                         -> page
ThenAsk(r) ==
  IF r.next = "upload"
  THEN <<[Request("now", 0, "none") EXCEPT !.at = acts, !.mine = r.mine, !.modal = FALSE]>>
  ELSE <<>>

Fetched(k) ==
  LET r    == pending[k]
      list == IF r.reply = Refused THEN items ELSE r.reply
      left == IF r.mine /\ r.next \in {"close", "upload"} THEN Closed(Others(k), 0) ELSE Others(k)
  IN
  /\ r.kind = "fetch"
  /\ Redraw(list, Went(r), card, left \o ThenAsk(r))
  /\ loading' = FALSE
  /\ calm' = (calm /\ Follows(list))

Answer(k) ==
  /\ pending[k].reply # Null
  /\ \/ RetryAnswered(k) \/ DeleteAnswered(k) \/ ScheduleAnswered(k)
     \/ BulkAnswered(k) \/ UploadNowAnswered(k) \/ Fetched(k)
  /\ UNCHANGED <<rows, acts>>

PageNext ==
  \/ \E i \in Items : \/ Retry(i) \/ Delete(i) \/ OpenReview(i) \/ CloseReview(i)
                      \/ ConfirmSchedule(i) \/ WorkerStep(i)
  \/ ToggleForm \/ TypeStart \/ TypeInterval \/ OpenBulkReview \/ CloseBulkReview
  \/ ConfirmBulk \/ ScheduleAndUploadNow \/ StatusFilterChange \/ SelectChannel \/ Remount
  \/ \E k \in DOMAIN pending : Serve(k) \/ RequestFails(k) \/ Answer(k)

PageSpec == PageInit /\ [][PageNext]_pageVars
-----------------------------------------------------------------------------
Asked(kind, i, nexts) ==
  \E k \in DOMAIN pending : /\ pending[k].kind = kind /\ pending[k].item = i
                            /\ pending[k].mine /\ pending[k].next \in nexts

(* Every spinner and every disabled button waits for a request that is     *)
(* under way: none outlives the requests, in whatever order these end and  *)
(* whichever cards and modals are closed meanwhile (queue/page:83-97,      *)
(* QueueItemCard:35-67, ReviewScheduleModal:220-228, 311-318).             *)
BusyEnds ==
  /\ loading => \E k \in DOMAIN pending : pending[k].kind = "fetch"
  /\ \A i \in Items : /\ card[i].busy # Null => Asked(card[i].busy, i, {"none"})
                      /\ card[i].loading => Asked("schedule", i, {"none"})
  /\ page.loading => Asked("bulk", 0, {"close"}) \/ Asked("fetch", 0, {"close"})
  /\ page.uploading => Asked("now", 0, {"none"}) \/ Asked("fetch", 0, {"uploaded"})

(* At rest the page shows the rows and times of the server, and a status   *)
(* from which the uploader alone has led to the present one.               *)
ShownIsStored == calm /\ pending = <<>> => Follows(items)

(* A bulk confirmed with an interval publishes no clip later than its      *)
(* review showed, though clips ahead of it were deleted or taken up since, *)
(* unless one that the review did not show is queued ahead of it by now;   *)
(* and at the very time shown where the clips ahead are the same           *)
(* (ReviewScheduleModal:331 and queue_handler.go:165-185, two computations *)
(* on two lists).                                                          *)
ScheduledAsReviewed ==
  [][\A k \in DOMAIN pending :
       /\ pending[k].kind = "bulk" /\ pending[k].next = "close"
       /\ pending[k].interval # 0
       /\ pending[k].reply = Null /\ rows' # rows /\ k \in DOMAIN pending'
       /\ pending'[k].reply # Null
       => LET reviewed == pending[k].shown
              ahead(i) == {j \in DOMAIN reviewed : j < i}
          IN \A i \in DOMAIN reviewed \cap QueuedOf(rows) :
               /\ QueuedBefore(rows, i) \subseteq ahead(i) =>
                    /\ rows'[i].at[1] = reviewed[i][1]
                    /\ rows'[i].at[2] <= reviewed[i][2]
               /\ QueuedBefore(rows, i) = ahead(i) => rows'[i].at = reviewed[i]]_pageVars
=============================================================================
