----------------------------- MODULE SetupProofs -----------------------------
(***************************************************************************)
(* Proofs about the setup of the tools, for every number of streams, jobs, *)
(* requests in flight, gestures and failures: what the page shows as being *)
(* done still is, what it shows as done is seen, and what it misses it     *)
(* asks for again.                                                         *)
(***************************************************************************)
EXTENDS Setup, RangeFacts

-----------------------------------------------------------------------------
(* Requests as a set, and what the page knows of those in flight.          *)

Args(kind) == IF kind \in PathKinds THEN Tools ELSE {"none", "all", "check"}

Requests ==
  UNION {[kind : {kind}, arg : Args(kind), reply : Replies(kind), mine : BOOLEAN] : kind \in Kinds}

LEMMA RequestIs == ASSUME NEW r PROVE r \in Requests <=> IsRequest(r) /\ r.kind \in Kinds
<1>1. ASSUME r \in Requests PROVE IsRequest(r) /\ r.kind \in Kinds
  BY <1>1 DEF Requests, IsRequest, Args
<1>2. ASSUME IsRequest(r), r.kind \in Kinds PROVE r \in Requests
  <2>1. r \in [kind : {r.kind}, arg : Args(r.kind), reply : Replies(r.kind), mine : BOOLEAN]
    BY <1>2 DEF IsRequest, Args
  <2>. QED
    BY <1>2, <2>1 DEF Requests
<1>. QED
  BY <1>1, <1>2

LEMMA RequestFields ==
  ASSUME NEW r \in Requests
  PROVE  /\ r.kind \in Kinds /\ r.arg \in Args(r.kind)
         /\ r.reply \in Replies(r.kind) /\ r.mine \in BOOLEAN
BY RequestIs DEF IsRequest, Args

LEMMA KindsAre ==
  /\ Kinds = {"status", "sync", "check", "models", "path", "clear"}
  /\ \A kind : Null \in Replies(kind) /\ Refused \in Replies(kind)
  /\ \A kind \in {"status", "sync"} : Replies(kind) = {Null, Refused} \cup Statuses
  /\ Replies("models") = {Null, Refused} \cup BOOLEAN
  /\ \A kind \in PathKinds : Replies(kind) = {Null, Refused, "ok"} /\ Args(kind) = Tools
  /\ \A kind \in Kinds \ PathKinds : Args(kind) = {"none", "all", "check"}
<1>1. Kinds = {"status", "sync", "check", "models", "path", "clear"}
  BY DEF Kinds, PathKinds
<1>2. \A kind : Null \in Replies(kind) /\ Refused \in Replies(kind)
  BY DEF Replies
<1>3. ASSUME NEW kind \in {"status", "sync"}
      PROVE  Replies(kind) = {Null, Refused} \cup Statuses
  BY <1>3 DEF Replies, PathKinds
<1>4. Replies("models") = {Null, Refused} \cup BOOLEAN
  BY DEF Replies, PathKinds
<1>5. ASSUME NEW kind \in PathKinds
      PROVE  Replies(kind) = {Null, Refused, "ok"} /\ Args(kind) = Tools
  BY <1>5 DEF Replies, PathKinds, Args
<1>6. \A kind \in Kinds \ PathKinds : Args(kind) = {"none", "all", "check"}
  BY DEF Args
<1>. QED
  BY <1>1, <1>2, <1>3, <1>4, <1>5, <1>6

LEMMA NewRequest ==
  ASSUME NEW kind \in Kinds, NEW arg \in Args(kind)
  PROVE  /\ Request(kind, arg) \in Requests
         /\ Request(kind, arg).kind = kind /\ Request(kind, arg).reply = Null
         /\ Request(kind, arg).mine = TRUE
<1>. DEFINE r == Request(kind, arg)
<1>1. /\ r.kind = kind /\ r.reply = Null /\ r.mine = TRUE
      /\ r \in [kind : Kinds, arg : Args(kind), reply : Replies(kind), mine : BOOLEAN]
  BY KindsAre DEF Request
<1>. QED
  BY <1>1, RequestIs DEF IsRequest, Args

LEMMA RequestKept ==
  ASSUME NEW r \in Requests, NEW mine \in BOOLEAN
  PROVE  /\ [r EXCEPT !.mine = mine] \in Requests
         /\ [r EXCEPT !.mine = mine].kind = r.kind /\ [r EXCEPT !.mine = mine].reply = r.reply
         /\ [r EXCEPT !.mine = mine].mine = mine
         /\ mine = r.mine => [r EXCEPT !.mine = mine] = r
<1>1. r \in [kind : Kinds, arg : Args(r.kind), reply : Replies(r.kind), mine : BOOLEAN]
  BY RequestIs DEF IsRequest, Args
<1>. DEFINE q == [r EXCEPT !.mine = mine]
<1>2. /\ q \in [kind : Kinds, arg : Args(r.kind), reply : Replies(r.kind), mine : BOOLEAN]
      /\ q.kind = r.kind /\ q.reply = r.reply /\ q.mine = mine /\ (mine = r.mine => q = r)
  BY <1>1
<1>3. q \in Requests
  BY <1>2, RequestIs DEF IsRequest, Args
<1>. QED
  BY <1>2, <1>3

LEMMA RequestReplied ==
  ASSUME NEW r \in Requests, NEW reply \in Replies(r.kind)
  PROVE  /\ [r EXCEPT !.reply = reply] \in Requests
         /\ [r EXCEPT !.reply = reply].kind = r.kind
         /\ [r EXCEPT !.reply = reply].reply = reply
         /\ [r EXCEPT !.reply = reply].mine = r.mine
<1>1. r \in [kind : Kinds, arg : Args(r.kind), reply : Replies(r.kind), mine : BOOLEAN]
  BY RequestIs DEF IsRequest, Args
<1>. DEFINE q == [r EXCEPT !.reply = reply]
<1>2. /\ q \in [kind : Kinds, arg : Args(r.kind), reply : Replies(r.kind), mine : BOOLEAN]
      /\ q.kind = r.kind /\ q.reply = reply /\ q.mine = r.mine
  BY <1>1
<1>3. q \in Requests
  BY <1>2, RequestIs DEF IsRequest, Args
<1>. QED
  BY <1>2, <1>3

-----------------------------------------------------------------------------
(* The inductive invariant. *)

Typed ==
  /\ disk \subseteq Jobs /\ custom \subseteq Tools /\ known \in Found
  /\ running \in [Jobs -> [fresh : Nat, stale : Nat]]
  /\ history \in [Jobs -> Seq(Events)] /\ streams \in Seq(Stream)
  /\ posts \in [Jobs -> Nat]
  /\ ui \in UI
  /\ job \in [Jobs -> JobStates] /\ models \in {Null} \cup BOOLEAN
  /\ pending \in Seq(Requests)
  /\ acts \in 0 .. MaxActs /\ calm \in BOOLEAN

LEMMA TypedIs == Typed => TypeOK
<1>. SUFFICES ASSUME Typed PROVE TypeOK
  OBVIOUS
<1>1. \A j \in DOMAIN pending : pending[j] \in Range(pending)
  BY DEF Range
<1>2. pending = [j \in DOMAIN pending |-> pending[j]] /\ pending \in Seq(Requests)
  BY DEF Typed
<1>3. \A r \in Range(pending) : IsRequest(r)
  BY <1>2, RangeIn, RequestIs
<1>4. pending \in Seq(Range(pending))
  BY <1>1, <1>2, SequenceOf
<1>. QED
  BY <1>3, <1>4 DEF Typed, TypeOK

(* The kinds and the replies of the requests in flight.                    *)
Asked == {<<r.kind, r.reply>> : r \in Range(pending)}
IsPath(r) == r.kind \in PathKinds /\ r.mine

(* A dialog is open on the settings alone, a request of its own is of a    *)
(* dialog that is there, and one that loads has such a request.            *)
DialogOpen  == ui.dialog # Null => ToolsSectionShown(ui)
PathsMine   == \A r \in Range(pending) : IsPath(r) => ui.dialog # Null
DialogWaits == (ui.dialog # Null /\ ui.dialog.loading) => \E r \in Range(pending) : IsPath(r)
StatusAsked == ui.loading => \E a \in Asked : a[1] \in {"status", "sync"}

(* What a stream that is not registered yet was not sent is in the         *)
(* history; a tool that is shown as being installed has a stream, and a    *)
(* job to come or an event in its queue.                                   *)
Hears == \A s \in Range(streams) :
           s.phase = "connecting" /\ s.queue # <<>> => history[s.job] # <<>>
Hearing(s, j) == s.job = j /\ s.phase # "closed" /\ (ToCome(j) \/ s.queue # <<>>)
Waits == calm => \A j \in Jobs : job[j] = "installing" =>
                    \E s \in Range(streams) : Hearing(s, j)

(* Whatever tells that a job is done is right.                             *)
Tells(j) == \/ job[j] = "done" \/ "done" \in Range(history[j])
            \/ \E s \in Range(streams) : s.job = j /\ "done" \in Range(s.queue)
IsThere(j) == j \in disk /\ (j \in Tools => known[j] # "missing")
Dones == calm => \A j \in Jobs : Tells(j) => IsThere(j)

(* Once a job is shown as done, what was installed is listed, or will be   *)
(* by a request in flight: one that has not been served, or whose answer   *)
(* has it.                                                                 *)
Lists(a, t) == a[1] \in {"status", "sync"} /\ (a[2] \in {Null, Refused} \/ a[2][t] # "missing")
Listed(u, t) == u.tools # Null /\ u.tools[t] # "missing"
SeenTools == calm => \A t \in Tools : job[t] = "done" =>
               Listed(ui, t) \/ ui.error \/ \E a \in Asked : Lists(a, t)
SeenModel == (calm /\ job["model"] = "done") =>
               models = TRUE \/ \E a \in Asked : a[1] = "models" /\ a[2] \in {Null, Refused, TRUE}

PageInv == DialogOpen /\ PathsMine /\ DialogWaits /\ StatusAsked /\ MissingIsPolled
JobsInv == Hears /\ Waits /\ Dones
SeenInv == SeenTools /\ SeenModel
IInv == Typed /\ PageInv /\ JobsInv /\ SeenInv

-----------------------------------------------------------------------------
(* Showing the page anew. *)

LEMMA MoreFacts ==
  ASSUME NEW u
  PROVE  /\ CheckUpdates(u) \in Seq(Requests) /\ ModelsAndUpdates(u) \in Seq(Requests)
         /\ GateMounted(u) \in Seq(Requests) /\ ToolsSectionMounted(u) \in Seq(Requests)
         /\ \A r \in Range(CheckUpdates(u)) \cup Range(ModelsAndUpdates(u))
                       \cup Range(GateMounted(u)) \cup Range(ToolsSectionMounted(u)) :
               r.kind \notin PathKinds
<1>1. /\ Request("check", "none") \in Requests /\ Request("models", "none") \in Requests
      /\ Request("check", "none").kind \notin PathKinds
      /\ Request("models", "none").kind \notin PathKinds
  BY NewRequest, KindsAre DEF Request, PathKinds
<1>2. /\ CheckUpdates(u) \in Seq(Requests)
      /\ \A r \in Range(CheckUpdates(u)) : r.kind \notin PathKinds
  BY <1>1 DEF CheckUpdates, Range
<1>. DEFINE one == <<Request("models", "none")>>
<1>3. one \in Seq(Requests) /\ \A r \in Range(one) : r.kind \notin PathKinds
  BY <1>1 DEF Range
<1>. HIDE DEF one
<1>4. ModelsAndUpdates(u) = one \o CheckUpdates(u)
  BY DEF ModelsAndUpdates, one
<1>5. /\ ModelsAndUpdates(u) \in Seq(Requests)
      /\ \A r \in Range(ModelsAndUpdates(u)) : r.kind \notin PathKinds
  BY <1>2, <1>3, <1>4, RangeConcat
<1>6. <<>> \in Seq(Requests) /\ Range(<<>>) = {}
  BY DEF Range
<1>7. /\ GateMounted(u) \in Seq(Requests)
      /\ \A r \in Range(GateMounted(u)) : r.kind \notin PathKinds
  BY <1>5, <1>6 DEF GateMounted
<1>8. /\ ToolsSectionMounted(u) \in Seq(Requests)
      /\ \A r \in Range(ToolsSectionMounted(u)) : r.kind \notin PathKinds
  BY <1>5, <1>6 DEF ToolsSectionMounted
<1>. QED
  BY <1>2, <1>5, <1>7, <1>8

(* The screen and the page stay: nothing is mounted.                       *)
Stays(u) == View(u) = View(ui) /\ u.settings = ui.settings

LEMMA RenderFacts ==
  ASSUME ui \in UI, NEW u \in UI, NEW reqs \in Seq(Requests), Render(u, reqs)
  PROVE  /\ ui' \in UI /\ pending' \in Seq(Requests)
         /\ ui'.tools = u.tools /\ ui'.loading = u.loading /\ ui'.error = u.error
         /\ ui'.polling = Polling(u) /\ ui'.settings = u.settings /\ View(ui') = View(u)
         /\ Stays(u) => ui'.dialog = u.dialog
         /\ ~Stays(u) => ui'.dialog = Null
         /\ \A r \in Range(reqs) : <<r.kind, r.reply>> \in Asked'
         /\ Stays(u) => \A r \in Range(reqs) : r \in Range(pending')
         /\ \A r \in Range(pending') : IsPath(r) => Stays(u) /\ r \in Range(reqs)
<1>. DEFINE mounted == <<View(u), u.settings>> # <<View(ui), ui.settings>>
            kept == [k \in DOMAIN reqs |-> [reqs[k] EXCEPT !.mine = @ /\ ~mounted]]
            shown == IF mounted THEN GateMounted(u) \o ToolsSectionMounted(u) ELSE <<>>
            first == IF FirstCheck(u) THEN CheckUpdates(u) ELSE <<>>
            dialog == IF mounted THEN Null ELSE u.dialog
            checked == u.checked \/ FirstCheck(u)
<1>1. /\ ui' = [u EXCEPT !.polling = Polling(u), !.timedOut = TimedOut(u),
                         !.checked = @ \/ FirstCheck(u),
                         !.dialog = IF mounted THEN Null ELSE @]
      /\ pending' = kept \o shown \o first
  BY DEF Render
<1>2. mounted <=> ~Stays(u)
  BY DEF Stays
<1>3. /\ Polling(u) \in BOOLEAN /\ TimedOut(u) \in BOOLEAN /\ checked \in BOOLEAN
      /\ dialog \in {Null} \cup [tool : Tools, loading : BOOLEAN]
  BY DEF Polling, TimedOut, FirstCheck, UI, AllRequiredInstalled
<1>4. ui' = [u EXCEPT !.polling = Polling(u), !.timedOut = TimedOut(u), !.checked = checked,
                      !.dialog = dialog]
  BY <1>1
<1>. HIDE DEF mounted, dialog, checked, kept, shown, first
<1>5. /\ ui' \in UI
      /\ ui'.tools = u.tools /\ ui'.loading = u.loading /\ ui'.error = u.error
      /\ ui'.polling = Polling(u) /\ ui'.settings = u.settings /\ ui'.timedOut = TimedOut(u)
      /\ ui'.newer = u.newer /\ ui'.dismissed = u.dismissed /\ ui'.dialog = dialog
  <2>. DEFINE polling == Polling(u)
              timedOut == TimedOut(u)
              v == [u EXCEPT !.polling = polling, !.timedOut = timedOut, !.checked = checked,
                             !.dialog = dialog]
  <2>1. /\ ui' = v /\ polling \in BOOLEAN /\ timedOut \in BOOLEAN /\ checked \in BOOLEAN
        /\ dialog \in {Null} \cup [tool : Tools, loading : BOOLEAN]
    BY <1>3, <1>4
  <2>. HIDE DEF polling, timedOut
  <2>2. /\ v.tools = u.tools /\ v.loading = u.loading /\ v.error = u.error
        /\ v.polling = polling /\ v.settings = u.settings /\ v.timedOut = timedOut
        /\ v.newer = u.newer /\ v.dismissed = u.dismissed /\ v.dialog = dialog
    BY DEF UI
  <2>3. v \in UI
    BY <2>1 DEF UI
  <2>. QED
    BY <2>1, <2>2, <2>3 DEF polling, timedOut
<1>6. View(ui') = View(u)
  BY <1>5 DEF View, TimedOut, MissingRequired, UpdateBanner, Installed, UI
<1>7. (Stays(u) => ui'.dialog = u.dialog) /\ (~Stays(u) => ui'.dialog = Null)
  BY <1>2, <1>5 DEF dialog
<1>8. ASSUME NEW k \in DOMAIN reqs
      PROVE  /\ kept[k] \in Requests /\ kept[k].kind = reqs[k].kind
             /\ kept[k].reply = reqs[k].reply
             /\ kept[k].mine => Stays(u)
             /\ Stays(u) => kept[k] = reqs[k]
  <2>. DEFINE mine == reqs[k].mine /\ ~mounted
  <2>1. reqs[k] \in Requests /\ reqs[k].mine \in BOOLEAN
    BY RequestFields
  <2>2. kept[k] = [reqs[k] EXCEPT !.mine = mine]
    BY DEF kept
  <2>3. mine \in BOOLEAN /\ (mine => Stays(u)) /\ (Stays(u) => mine = reqs[k].mine)
    BY <1>2, <2>1
  <2>. HIDE DEF mine
  <2>. QED
    BY <2>1, <2>2, <2>3, RequestKept
<1>9. kept = [k \in DOMAIN reqs |-> kept[k]]
  BY DEF kept
<1>10. /\ kept \in Seq(Requests) /\ Len(kept) = Len(reqs)
       /\ Range(kept) = {kept[k] : k \in DOMAIN reqs}
  BY <1>8, <1>9, SequenceOf
<1>11. <<>> \in Seq(Requests) /\ Range(<<>>) = {}
  BY DEF Range
<1>12. shown \in Seq(Requests) /\ \A r \in Range(shown) : r.kind \notin PathKinds
  BY <1>11, MoreFacts, RangeConcat DEF shown
<1>13. first \in Seq(Requests) /\ \A r \in Range(first) : r.kind \notin PathKinds
  BY <1>11, MoreFacts DEF first
<1>. DEFINE both == kept \o shown
<1>14. /\ both \in Seq(Requests) /\ Range(both) = Range(kept) \cup Range(shown)
       /\ pending' = both \o first
  <2>1. pending' = kept \o shown \o first
    BY <1>1 DEF mounted, kept, shown, first
  <2>. QED
    BY <1>10, <1>12, <2>1, RangeConcat
<1>. HIDE DEF both
<1>15. /\ pending' \in Seq(Requests)
       /\ Range(pending') = Range(kept) \cup Range(shown) \cup Range(first)
  <2>1. both \o first \in Seq(Requests) /\ Range(both \o first) = Range(both) \cup Range(first)
    BY <1>13, <1>14, RangeConcat
  <2>. QED
    BY <1>14, <2>1
<1>16. ASSUME NEW r \in Range(reqs)
       PROVE  /\ <<r.kind, r.reply>> \in Asked'
              /\ Stays(u) => r \in Range(pending')
  <2>1. PICK k \in DOMAIN reqs : r = reqs[k]
    BY DEF Range
  <2>2. kept[k] \in Range(pending')
    BY <1>10, <1>15
  <2>3. <<kept[k].kind, kept[k].reply>> \in Asked'
    BY <2>2 DEF Asked
  <2>. QED
    BY <1>8, <2>1, <2>2, <2>3
<1>17. ASSUME NEW r \in Range(pending'), IsPath(r)
       PROVE  Stays(u) /\ r \in Range(reqs)
  <2>1. PICK k \in DOMAIN reqs : r = kept[k]
    BY <1>10, <1>12, <1>13, <1>15, <1>17 DEF IsPath
  <2>. QED
    BY <1>8, <1>17, <2>1 DEF IsPath, Range
<1>. QED
  BY <1>5, <1>6, <1>7, <1>15, <1>16, <1>17

(* The page after a render, from what is shown and what is in flight.      *)
LEMMA PageShown ==
  ASSUME Typed, PageInv, NEW u \in UI, NEW reqs \in Seq(Requests), Render(u, reqs),
         calm' => calm,
         \A r \in Range(reqs) : IsPath(r) => u.dialog # Null,
         u.dialog # Null => ui.dialog # Null,
         (u.dialog # Null /\ u.dialog.loading /\ Stays(u)) => \E r \in Range(reqs) : IsPath(r),
         u.loading => \E r \in Range(reqs) : r.kind \in {"status", "sync"},
         (calm' /\ AllRequiredInstalled(ui)) => AllRequiredInstalled(u)
  PROVE  PageInv'
<1>1. ui \in UI
  BY DEF Typed
<1>2. /\ ui'.tools = u.tools /\ ui'.loading = u.loading
      /\ ui'.polling = Polling(u) /\ ui'.settings = u.settings /\ View(ui') = View(u)
      /\ Stays(u) => ui'.dialog = u.dialog
      /\ ~Stays(u) => ui'.dialog = Null
      /\ \A r \in Range(reqs) : <<r.kind, r.reply>> \in Asked'
      /\ Stays(u) => \A r \in Range(reqs) : r \in Range(pending')
      /\ \A r \in Range(pending') : IsPath(r) => Stays(u) /\ r \in Range(reqs)
  BY <1>1, RenderFacts
<1>3. DialogOpen'
  BY <1>2 DEF DialogOpen, ToolsSectionShown, Stays, PageInv
<1>4. PathsMine'
  BY <1>2 DEF PathsMine
<1>5. DialogWaits'
  BY <1>2 DEF DialogWaits
<1>6. StatusAsked'
  BY <1>2 DEF StatusAsked
<1>7. AllRequiredInstalled(ui') <=> AllRequiredInstalled(u)
  BY <1>2 DEF AllRequiredInstalled, Installed
<1>8. u.loading \in BOOLEAN /\ ui.loading \in BOOLEAN
  BY <1>1 DEF UI
<1>9. MissingIsPolled'
  BY <1>2, <1>7, <1>8 DEF MissingIsPolled, Polling, PageInv
<1>. QED
  BY <1>3, <1>4, <1>5, <1>6, <1>9 DEF PageInv

LEMMA JobsKept ==
  ASSUME JobsInv, UNCHANGED <<disk, known, running, history, streams, posts, job>>,
         calm' => calm
  PROVE  JobsInv'
<1>1. Hears'
  BY DEF JobsInv, Hears
<1>2. Waits'
  BY DEF JobsInv, Waits, Hearing, ToCome
<1>3. Dones'
  BY DEF JobsInv, Dones, Tells, IsThere
<1>. QED
  BY <1>1, <1>2, <1>3 DEF JobsInv

(* Nothing that was asked for is forgotten.                                *)
LEMMA SeenKept ==
  ASSUME SeenInv, ui'.tools = ui.tools, ui'.error = ui.error, calm' => calm,
         \A j \in Jobs : job'[j] = "done" => job[j] = "done", models' = models,
         \A a \in Asked : a[1] \in {"status", "sync", "models"} => a \in Asked'
  PROVE  SeenInv'
<1>1. SeenTools'
  <2>1. \A t \in Tools : Listed(ui, t) => Listed(ui, t)'
    BY DEF Listed
  <2>2. \A t \in Tools : (\E a \in Asked : Lists(a, t)) => \E a \in Asked' : Lists(a, t)
    BY DEF Lists
  <2>. QED
    BY <2>1, <2>2 DEF SeenInv, SeenTools, Lists, Jobs
<1>2. SeenModel'
  BY DEF SeenInv, SeenModel, Jobs
<1>. QED
  BY <1>1, <1>2 DEF SeenInv

LEMMA PageKept ==
  ASSUME PageInv, UNCHANGED <<ui, pending>>, calm' => calm
  PROVE  PageInv' /\ Asked' = Asked
BY DEF PageInv, DialogOpen, PathsMine, DialogWaits, StatusAsked, MissingIsPolled, Asked,
       ToolsSectionShown, AllRequiredInstalled, Installed, View, MissingRequired, UpdateBanner

-----------------------------------------------------------------------------
(* Asking, and what is in flight. *)

LEMMA Asks ==
  ASSUME Typed, NEW kind \in Kinds, NEW arg \in Args(kind)
  PROVE  /\ Append(pending, Request(kind, arg)) \in Seq(Requests)
         /\ Range(Append(pending, Request(kind, arg))) = Range(pending) \cup {Request(kind, arg)}
<1>. DEFINE q == Request(kind, arg)
<1>1. q \in Requests /\ pending \in Seq(Requests)
  BY NewRequest DEF Typed
<1>. HIDE DEF q
<1>2. Append(pending, q) \in Seq(Requests)
  BY <1>1
<1>3. Range(Append(pending, q)) = Range(pending) \cup {q}
  BY <1>1, RangeAppend
<1>. QED
  BY <1>2, <1>3 DEF q

(* The requests other than one.                                            *)
Others(i) == {pending[j] : j \in DOMAIN pending \ {i}}

LEMMA TheRest ==
  ASSUME Typed, NEW i \in DOMAIN pending
  PROVE  /\ Rest(i) \in Seq(Requests) /\ Range(Rest(i)) = Others(i)
         /\ Range(pending) = Others(i) \cup {pending[i]} /\ pending[i] \in Requests
<1>1. pending \in Seq(Requests)
  BY DEF Typed
<1>2. Rest(i) = SubSeq(pending, 1, i - 1) \o SubSeq(pending, i + 1, Len(pending))
  BY DEF Rest, RemoveAt
<1>. QED
  BY <1>1, <1>2, RangeWithout, RangeSplit DEF Others

LEMMA Fetches ==
  ASSUME Typed, PageInv, NEW kind \in {"status", "sync"}, NEW arg \in {"none", "check"},
         FetchStatus(kind, arg), calm' = calm
  PROVE  /\ ui' \in UI /\ pending' \in Seq(Requests) /\ PageInv'
         /\ ui'.tools = ui.tools /\ Asked \subseteq Asked' /\ <<kind, Null>> \in Asked'
<1>. DEFINE u == Loading(ui)
            q == Request(kind, arg)
            reqs == Append(pending, q)
<1>1. ui \in UI /\ u \in UI /\ u.tools = ui.tools /\ u.dialog = ui.dialog
  BY DEF Typed, Loading, UI
<1>2. kind \in Kinds /\ kind \notin PathKinds /\ arg \in Args(kind)
  BY KindsAre DEF PathKinds
<1>3. q.kind = kind /\ q.reply = Null /\ q \in Requests
  BY <1>2, NewRequest
<1>4. reqs \in Seq(Requests) /\ Range(reqs) = Range(pending) \cup {q}
  BY <1>2, Asks
<1>5. Render(u, reqs)
  BY DEF FetchStatus
<1>. HIDE DEF u, q, reqs
<1>6. \A r \in Range(reqs) : IsPath(r) => r \in Range(pending)
  BY <1>2, <1>3, <1>4 DEF IsPath
<1>7. \A r \in Range(reqs) : IsPath(r) => u.dialog # Null
  BY <1>1, <1>6 DEF PageInv, PathsMine
<1>8. (u.dialog # Null /\ u.dialog.loading) => \E r \in Range(reqs) : IsPath(r)
  BY <1>1, <1>4 DEF PageInv, DialogWaits
<1>9. \E r \in Range(reqs) : r.kind \in {"status", "sync"}
  BY <1>3, <1>4
<1>10. AllRequiredInstalled(ui) => AllRequiredInstalled(u)
  BY <1>1 DEF AllRequiredInstalled, Installed
<1>11. PageInv'
  BY <1>1, <1>4, <1>5, <1>7, <1>8, <1>9, <1>10, PageShown
<1>12. /\ ui' \in UI /\ pending' \in Seq(Requests) /\ ui'.tools = u.tools
       /\ \A r \in Range(reqs) : <<r.kind, r.reply>> \in Asked'
  BY <1>1, <1>4, <1>5, RenderFacts
<1>13. Asked \subseteq Asked'
  BY <1>4, <1>12 DEF Asked
<1>14. <<kind, Null>> \in Asked'
  BY <1>3, <1>4, <1>12
<1>. QED
  BY <1>1, <1>11, <1>12, <1>13, <1>14

(* A render that changes neither what is known nor the dialog.             *)
LEMMA Shows ==
  ASSUME Typed, PageInv, NEW u \in UI, NEW reqs \in Seq(Requests), Render(u, reqs), calm' = calm,
         u.tools = ui.tools, u.error = ui.error, u.loading = ui.loading, u.dialog = ui.dialog,
         Range(reqs) \subseteq Range(pending),
         \A r \in Range(pending) : r.kind # "check" => r \in Range(reqs)
  PROVE  /\ ui' \in UI /\ pending' \in Seq(Requests) /\ PageInv'
         /\ ui'.tools = ui.tools /\ ui'.error = ui.error
         /\ \A a \in Asked : a[1] \in {"status", "sync", "models"} => a \in Asked'
<1>1. ui \in UI
  BY DEF Typed
<1>2. \A r \in Range(reqs) : IsPath(r) => u.dialog # Null
  BY DEF PageInv, PathsMine
<1>3. (u.dialog # Null /\ u.dialog.loading) => \E r \in Range(reqs) : IsPath(r)
  BY DEF PageInv, DialogWaits, IsPath, PathKinds
<1>4. u.loading => \E r \in Range(reqs) : r.kind \in {"status", "sync"}
  BY DEF PageInv, StatusAsked, Asked
<1>5. AllRequiredInstalled(ui) => AllRequiredInstalled(u)
  BY DEF AllRequiredInstalled, Installed
<1>6. PageInv'
  BY <1>2, <1>3, <1>4, <1>5, PageShown
<1>7. /\ ui' \in UI /\ pending' \in Seq(Requests) /\ ui'.tools = u.tools /\ ui'.error = u.error
      /\ \A r \in Range(reqs) : <<r.kind, r.reply>> \in Asked'
  BY <1>1, RenderFacts
<1>8. \A a \in Asked : a[1] \in {"status", "sync", "models"} => a \in Asked'
  BY <1>7 DEF Asked
<1>. QED
  BY <1>6, <1>7, <1>8

(* An answer from the server, and nothing else on the page.                *)
LEMMA Replied ==
  ASSUME Typed, PageInv, NEW i \in DOMAIN pending, NEW reply \in Replies(pending[i].kind),
         pending[i].reply = Null, Reply(i, reply), ui' = ui, calm' = calm
  PROVE  /\ pending' \in Seq(Requests) /\ PageInv'
         /\ <<pending[i].kind, reply>> \in Asked'
         /\ \A a \in Asked : a \in Asked' \/ a = <<pending[i].kind, Null>>
<1>. DEFINE q == [pending[i] EXCEPT !.reply = reply]
<1>1. pending[i] \in Requests /\ pending \in Seq(Requests)
  BY TheRest DEF Typed
<1>2. q \in Requests /\ q.kind = pending[i].kind /\ q.reply = reply /\ q.mine = pending[i].mine
  BY <1>1, RequestReplied
<1>3. pending' = [pending EXCEPT ![i] = q]
  BY DEF Reply
<1>. HIDE DEF q
<1>4. pending' \in Seq(Requests) /\ Range(pending') = Others(i) \cup {q}
  <2>. DEFINE t == [pending EXCEPT ![i] = q]
  <2>1. t \in Seq(Requests) /\ Range(t) = {pending[j] : j \in DOMAIN pending \ {i}} \cup {q}
    BY <1>1, <1>2, RangeReplaced
  <2>2. pending' = t
    BY <1>3
  <2>. HIDE DEF t
  <2>. QED
    BY <2>1, <2>2 DEF Others
<1>5. Range(pending) = Others(i) \cup {pending[i]}
  BY TheRest
<1>6. <<pending[i].kind, reply>> \in Asked'
  BY <1>2, <1>4 DEF Asked
<1>7. \A a \in Asked : a \in Asked' \/ a = <<pending[i].kind, Null>>
  BY <1>4, <1>5 DEF Asked
<1>8. DialogOpen' /\ MissingIsPolled'
  BY DEF PageInv, DialogOpen, MissingIsPolled, ToolsSectionShown, AllRequiredInstalled,
         Installed, View, MissingRequired, UpdateBanner
<1>9. PathsMine' /\ DialogWaits'
  BY <1>2, <1>4, <1>5 DEF PageInv, PathsMine, DialogWaits, IsPath
<1>10. StatusAsked'
  BY <1>6, <1>7 DEF PageInv, StatusAsked
<1>. QED
  BY <1>4, <1>6, <1>7, <1>8, <1>9, <1>10 DEF PageInv

(* What was found is not shown as missing, with or without its model.      *)
LEMMA StatusIs ==
  ASSUME NEW k \in Found, NEW d
  PROVE  Status(k, d) \in Statuses /\ \A t \in Tools : k[t] # "missing" => Status(k, d)[t] # "missing"
<1>1. /\ Status(k, d) \in [Tools -> Presence]
      /\ \A t \in Tools : k[t] # "missing" => Status(k, d)[t] # "missing"
  BY DEF Status, Found, Presence
<1>2. Status(k, d)["tool"] = k["tool"] /\ k["tool"] # "no_model"
  BY DEF Status, Found, Tools
<1>. QED
  BY <1>1, <1>2 DEF Statuses

LEMMA ResolveIs ==
  ASSUME NEW d, NEW c
  PROVE  /\ Resolve(d, c) \in Found
         /\ \A t \in Tools : t \in d => Resolve(d, c)[t] # "missing"
BY DEF Resolve, Found, Presence

-----------------------------------------------------------------------------
(* The first state. *)

LEMMA InitIInv == Init => IInv
<1>. SUFFICES ASSUME Init PROVE IInv
  OBVIOUS
<1>1. known \in Found /\ disk \subseteq Jobs /\ custom \subseteq Tools
  BY SetupConstants, ResolveIs DEF Init
<1>2. ui \in UI /\ ui.dialog = Null /\ ui.loading = TRUE
  BY DEF Init, UI
<1>. DEFINE all == Request("status", "all")
            none == Request("status", "none")
<1>3. /\ all \in Requests /\ none \in Requests
      /\ all.kind = "status" /\ none.kind = "status" /\ all.reply = Null /\ none.reply = Null
  <2>1. "status" \in Kinds /\ "all" \in Args("status") /\ "none" \in Args("status")
    BY KindsAre DEF PathKinds
  <2>. QED
    BY <2>1, NewRequest
<1>. DEFINE one == <<none>>
            first == IF ui.settings THEN <<all>> ELSE <<>>
<1>4. pending = first \o one
  BY DEF Init
<1>. HIDE DEF all, none
<1>5. pending \in Seq(Requests) /\ none \in Range(pending) /\ Range(pending) \subseteq {all, none}
  <2>1. one \in Seq(Requests) /\ Range(one) = {none}
    BY <1>3 DEF Range
  <2>2. first \in Seq(Requests) /\ Range(first) \subseteq {all}
    BY <1>3 DEF Range
  <2>. HIDE DEF one, first
  <2>. QED
    BY <1>4, <2>1, <2>2, RangeConcat
<1>6. /\ streams = <<>> /\ Range(streams) = {} /\ history = [j \in Jobs |-> <<>>]
      /\ job = [j \in Jobs |-> "idle"]
  BY DEF Init, Range
<1>7. Typed
  BY <1>1, <1>2, <1>5, <1>6, SetupConstants DEF Init, Typed, JobStates
<1>8. PageInv
  <2>1. \A r \in Range(pending) : ~IsPath(r)
    BY <1>3, <1>5 DEF IsPath, PathKinds
  <2>2. <<none.kind, none.reply>> \in Asked
    BY <1>5 DEF Asked
  <2>3. StatusAsked
    BY <1>3, <2>2 DEF StatusAsked
  <2>. QED
    BY <1>2, <2>1, <2>3 DEF PageInv, DialogOpen, PathsMine, DialogWaits, MissingIsPolled
<1>9. JobsInv
  <2>1. \A j \in Jobs : history[j] = <<>> /\ Range(history[j]) = {} /\ job[j] = "idle"
    BY <1>6 DEF Range
  <2>. QED
    BY <1>6, <2>1 DEF JobsInv, Hears, Waits, Dones, Tells
<1>10. SeenInv
  BY <1>6 DEF SeenInv, SeenTools, SeenModel, Jobs
<1>. QED
  BY <1>7, <1>8, <1>9, <1>10 DEF IInv

-----------------------------------------------------------------------------
(* The page, and what it asks for. *)

LEMMA FetchStep ==
  ASSUME IInv, NEW kind \in {"status", "sync"}, NEW arg \in {"none", "check"},
         FetchStatus(kind, arg), acts' \in 0 .. MaxActs,
         UNCHANGED <<server, hub, posts, job, models, calm>>
  PROVE  IInv'
<1>1. /\ ui' \in UI /\ pending' \in Seq(Requests) /\ PageInv'
      /\ ui'.tools = ui.tools /\ Asked \subseteq Asked' /\ <<kind, Null>> \in Asked'
  BY Fetches DEF IInv
<1>2. Typed'
  BY <1>1 DEF IInv, Typed, server, hub
<1>3. JobsInv'
  BY JobsKept DEF IInv, server, hub
<1>4. SeenTools'
  BY <1>1 DEF SeenTools, Lists
<1>5. SeenModel'
  BY <1>1 DEF IInv, SeenInv, SeenModel
<1>. QED
  BY <1>1, <1>2, <1>3, <1>4, <1>5 DEF IInv, SeenInv

LEMMA ShowStep ==
  ASSUME IInv, NEW u \in UI, NEW reqs \in Seq(Requests), Render(u, reqs),
         u.tools = ui.tools, u.error = ui.error, u.loading = ui.loading, u.dialog = ui.dialog,
         Range(reqs) \subseteq Range(pending),
         \A r \in Range(pending) : r.kind # "check" => r \in Range(reqs),
         acts' \in 0 .. MaxActs, UNCHANGED <<server, hub, posts, job, models, calm>>
  PROVE  IInv'
<1>1. /\ ui' \in UI /\ pending' \in Seq(Requests) /\ PageInv'
      /\ ui'.tools = ui.tools /\ ui'.error = ui.error
      /\ \A a \in Asked : a[1] \in {"status", "sync", "models"} => a \in Asked'
  BY Shows DEF IInv
<1>2. Typed'
  BY <1>1 DEF IInv, Typed, server, hub
<1>3. JobsInv'
  BY JobsKept DEF IInv, server, hub
<1>4. SeenInv'
  BY <1>1, SeenKept DEF IInv
<1>. QED
  BY <1>1, <1>2, <1>3, <1>4 DEF IInv

LEMMA OneMore == ASSUME acts \in 0 .. MaxActs, Act PROVE acts' \in 0 .. MaxActs
BY SetupConstants DEF Act, May

LEMMA PageStep ==
  ASSUME IInv, \/ Poll \/ BackendTimeout \/ Recheck \/ SyncTools \/ RecheckInSettings
               \/ Navigate \/ DismissBanner
  PROVE  IInv'
<1>1. ui \in UI /\ pending \in Seq(Requests) /\ acts \in 0 .. MaxActs
  BY DEF IInv, Typed
<1>2. CASE Poll
  BY <1>1, <1>2, FetchStep DEF Poll
<1>3. CASE Recheck
  BY <1>1, <1>3, FetchStep, OneMore DEF Recheck
<1>4. CASE SyncTools
  BY <1>1, <1>4, FetchStep, OneMore DEF SyncTools
<1>5. CASE RecheckInSettings
  BY <1>1, <1>5, FetchStep, OneMore DEF RecheckInSettings
<1>6. CASE BackendTimeout
  <2>. DEFINE u == [ui EXCEPT !.timedOut = TRUE]
  <2>1. /\ u \in UI /\ u.tools = ui.tools /\ u.error = ui.error /\ u.loading = ui.loading
        /\ u.dialog = ui.dialog
    BY <1>1 DEF UI
  <2>2. Render(u, pending)
    BY <1>6 DEF BackendTimeout
  <2>. HIDE DEF u
  <2>. QED
    BY <1>1, <1>6, <2>1, <2>2, ShowStep DEF BackendTimeout
<1>7. CASE Navigate
  <2>. DEFINE u == [ui EXCEPT !.settings = ~@]
  <2>1. /\ u \in UI /\ u.tools = ui.tools /\ u.error = ui.error /\ u.loading = ui.loading
        /\ u.dialog = ui.dialog
    BY <1>1 DEF UI
  <2>2. Render(u, pending)
    BY <1>7 DEF Navigate
  <2>. HIDE DEF u
  <2>. QED
    BY <1>1, <1>7, <2>1, <2>2, ShowStep, OneMore DEF Navigate
<1>8. CASE DismissBanner
  <2>. DEFINE u == [ui EXCEPT !.dismissed = TRUE]
  <2>1. /\ u \in UI /\ u.tools = ui.tools /\ u.error = ui.error /\ u.loading = ui.loading
        /\ u.dialog = ui.dialog
    BY <1>1 DEF UI
  <2>2. Render(u, pending)
    BY <1>8 DEF DismissBanner
  <2>. HIDE DEF u
  <2>. QED
    BY <1>1, <1>8, <2>1, <2>2, ShowStep, OneMore DEF DismissBanner
<1>. QED
  BY <1>2, <1>3, <1>4, <1>5, <1>6, <1>7, <1>8

LEMMA CheckStep ==
  ASSUME IInv, NEW i \in DOMAIN pending, NEW available \in BOOLEAN, CheckAnswered(i, available)
  PROVE  IInv'
<1>. DEFINE newer == IF ui.tools = Null THEN ui.newer ELSE available
            u == [ui EXCEPT !.newer = newer]
            reqs == Rest(i)
<1>1. Typed /\ ui \in UI /\ acts \in 0 .. MaxActs
  BY DEF IInv, Typed
<1>2. newer \in BOOLEAN /\ Render(u, reqs)
  BY <1>1 DEF UI, CheckAnswered
<1>. HIDE DEF newer
<1>3. /\ u \in UI /\ u.tools = ui.tools /\ u.error = ui.error /\ u.loading = ui.loading
      /\ u.dialog = ui.dialog
  BY <1>1, <1>2 DEF UI
<1>4. /\ reqs \in Seq(Requests) /\ Range(reqs) = Others(i)
      /\ Range(pending) = Others(i) \cup {pending[i]}
  BY <1>1, TheRest
<1>. HIDE DEF u, reqs
<1>5. /\ Range(reqs) \subseteq Range(pending)
      /\ \A r \in Range(pending) : r.kind # "check" => r \in Range(reqs)
  BY <1>4 DEF CheckAnswered
<1>. QED
  BY <1>1, <1>2, <1>3, <1>4, <1>5, ShowStep DEF CheckAnswered

(* What the server answers, by what is in flight afterwards.               *)
LEMMA ReplyStep ==
  ASSUME IInv, NEW i \in DOMAIN pending, NEW reply \in Replies(pending[i].kind),
         pending[i].reply = Null, Reply(i, reply), acts' \in 0 .. MaxActs,
         UNCHANGED <<hub, posts, ui, job, models, calm>>,
         Typed' <=> pending' \in Seq(Requests), JobsInv',
         (calm /\ pending[i].kind \in {"status", "sync"}) =>
            \A t \in Tools : job[t] = "done" => Lists(<<pending[i].kind, reply>>, t),
         (calm /\ pending[i].kind = "models" /\ job["model"] = "done") => reply \in {Refused, TRUE}
  PROVE  IInv'
<1>1. /\ pending' \in Seq(Requests) /\ PageInv'
      /\ <<pending[i].kind, reply>> \in Asked'
      /\ \A a \in Asked : a \in Asked' \/ a = <<pending[i].kind, Null>>
  BY Replied DEF IInv
<1>2. SeenTools'
  <2>1. SUFFICES ASSUME calm, NEW t \in Tools, job[t] = "done"
                 PROVE  Listed(ui, t) \/ ui.error \/ \E a \in Asked' : Lists(a, t)
    BY DEF SeenTools, Listed
  <2>2. ASSUME NEW a \in Asked, Lists(a, t) PROVE \E b \in Asked' : Lists(b, t)
    BY <1>1, <2>1, <2>2 DEF Lists
  <2>. QED
    BY <2>1, <2>2 DEF IInv, SeenInv, SeenTools
<1>3. SeenModel'
  <2>1. SUFFICES ASSUME calm, job["model"] = "done", models # TRUE
                 PROVE  \E b \in Asked' : b[1] = "models" /\ b[2] \in {Null, Refused, TRUE}
    BY DEF SeenModel
  <2>2. PICK a \in Asked : a[1] = "models" /\ a[2] \in {Null, Refused, TRUE}
    BY <2>1 DEF IInv, SeenInv, SeenModel
  <2>3. CASE a = <<pending[i].kind, Null>>
    BY <1>1, <2>1, <2>2, <2>3
  <2>. QED
    BY <1>1, <2>2, <2>3
<1>. QED
  BY <1>1, <1>2, <1>3 DEF IInv, SeenInv

LEMMA ServerStep ==
  ASSUME IInv, NEW i \in DOMAIN pending,
         \/ GetStatus(i) \/ PostSync(i) \/ Fail(i) \/ GetWhisperModels(i)
         \/ PostCustomPath(i) \/ DeleteCustomPath(i)
  PROVE  IInv'
<1>1. /\ Typed /\ JobsInv /\ known \in Found /\ acts \in 0 .. MaxActs /\ pending[i] \in Requests
      /\ pending[i].arg \in Args(pending[i].kind)
  BY TheRest, RequestFields DEF IInv, Typed
<1>2. \A t \in Tools : calm /\ job[t] = "done" => t \in disk /\ known[t] # "missing"
  BY <1>1 DEF JobsInv, Dones, Tells, IsThere, Jobs
<1>3. (calm /\ job["model"] = "done") => "model" \in disk
  BY <1>1 DEF JobsInv, Dones, Tells, IsThere, Jobs
<1>4. CASE GetStatus(i)
  <2>. DEFINE reply == Status(known, disk)
  <2>1. reply \in Statuses /\ \A t \in Tools : known[t] # "missing" => reply[t] # "missing"
    BY <1>1, StatusIs
  <2>2. /\ Reply(i, reply) /\ pending[i].kind = "status" /\ pending[i].reply = Null
        /\ UNCHANGED <<server, hub, posts, ui, job, models, acts, calm>>
    BY <1>4 DEF GetStatus, Unanswered
  <2>. HIDE DEF reply
  <2>3. reply \in Replies(pending[i].kind)
    BY <2>1, <2>2, KindsAre
  <2>4. JobsInv'
    BY <1>1, <2>2, JobsKept DEF server, hub
  <2>5. Typed' <=> pending' \in Seq(Requests)
    BY <1>1, <2>2 DEF Typed, server, hub
  <2>6. \A t \in Tools : calm /\ job[t] = "done" => Lists(<<pending[i].kind, reply>>, t)
    BY <1>2, <2>1, <2>2 DEF Lists
  <2>. QED
    BY <1>1, <2>2, <2>3, <2>4, <2>5, <2>6, ReplyStep
<1>5. CASE PostSync(i)
  <2>. DEFINE reply == Status(known', disk')
  <2>1. /\ known' \in Found /\ disk' \subseteq Jobs /\ disk \subseteq disk'
        /\ \A t \in Tools : t \in disk' => known'[t] # "missing"
    BY <1>1, <1>5, ResolveIs, SetupConstants DEF PostSync, Typed
  <2>2. reply \in Statuses /\ \A t \in Tools : known'[t] # "missing" => reply[t] # "missing"
    BY <2>1, StatusIs
  <2>3. /\ Reply(i, reply) /\ pending[i].kind = "sync" /\ pending[i].reply = Null
        /\ UNCHANGED <<custom, hub, posts, ui, job, models, acts, calm>>
        /\ running' = [j \in Jobs |->
                         [fresh |-> 0, stale |-> running[j].fresh + running[j].stale]]
    BY <1>5 DEF PostSync, Unanswered
  <2>. HIDE DEF reply
  <2>4. reply \in Replies(pending[i].kind)
    BY <2>2, <2>3, KindsAre
  <2>5. running \in [Jobs -> [fresh : Nat, stale : Nat]]
    BY <1>1 DEF Typed
  <2>6. \A j \in Jobs : running[j].fresh + running[j].stale \in Nat
    BY <2>5
  <2>7. running' \in [Jobs -> [fresh : Nat, stale : Nat]]
    BY <2>3, <2>6
  <2>8. posts \in [Jobs -> Nat]
    BY <1>1 DEF Typed
  <2>9. ASSUME NEW j \in Jobs PROVE ToCome(j)' <=> ToCome(j)
    <3>1. running'[j].fresh = 0 /\ running'[j].stale = running[j].fresh + running[j].stale
      BY <2>3
    <3>2. /\ posts' = posts /\ posts[j] \in Nat
          /\ running[j].fresh \in Nat /\ running[j].stale \in Nat
      BY <2>3, <2>5, <2>8
    <3>. QED
      BY <3>1, <3>2 DEF ToCome
  <2>10. Hears' /\ Waits'
    BY <1>1, <2>3, <2>9 DEF JobsInv, Hears, Waits, Hearing, hub
  <2>11. Dones'
    BY <1>1, <2>1, <2>3 DEF JobsInv, Dones, Tells, IsThere, hub
  <2>12. Typed' <=> pending' \in Seq(Requests)
    BY <1>1, <2>1, <2>3, <2>7 DEF Typed, hub
  <2>13. \A t \in Tools : calm /\ job[t] = "done" => Lists(<<pending[i].kind, reply>>, t)
    BY <1>2, <2>1, <2>2, <2>3 DEF Lists
  <2>. QED
    BY <1>1, <2>3, <2>4, <2>10, <2>11, <2>12, <2>13, ReplyStep DEF JobsInv
<1>6. CASE Fail(i)
  <2>1. /\ Reply(i, Refused) /\ pending[i].reply = Null /\ acts' \in 0 .. MaxActs
        /\ UNCHANGED <<server, hub, posts, ui, job, models, calm>>
    BY <1>1, <1>6, OneMore DEF Fail, Unanswered
  <2>2. Refused \in Replies(pending[i].kind)
    BY KindsAre
  <2>3. JobsInv'
    BY <1>1, <2>1, JobsKept DEF server, hub
  <2>4. Typed' <=> pending' \in Seq(Requests)
    BY <1>1, <2>1 DEF Typed, server, hub
  <2>5. \A t \in Tools : pending[i].kind \in {"status", "sync"} =>
                           Lists(<<pending[i].kind, Refused>>, t)
    BY DEF Lists
  <2>. QED
    BY <2>1, <2>2, <2>3, <2>4, <2>5, ReplyStep
<1>7. CASE GetWhisperModels(i)
  <2>. DEFINE reply == "model" \in disk
  <2>1. /\ Reply(i, reply) /\ pending[i].kind = "models" /\ pending[i].reply = Null
        /\ UNCHANGED <<server, hub, posts, ui, job, models, acts, calm>>
        /\ reply \in BOOLEAN
    BY <1>7 DEF GetWhisperModels, Unanswered
  <2>2. reply \in Replies(pending[i].kind)
    BY <2>1, KindsAre
  <2>3. JobsInv'
    BY <1>1, <2>1, JobsKept DEF server, hub
  <2>4. Typed' <=> pending' \in Seq(Requests)
    BY <1>1, <2>1 DEF Typed, server, hub
  <2>5. (calm /\ job["model"] = "done") => reply = TRUE
    BY <1>3
  <2>. HIDE DEF reply
  <2>. QED
    BY <1>1, <2>1, <2>2, <2>3, <2>4, <2>5, ReplyStep
<1>8. CASE PostCustomPath(i) \/ DeleteCustomPath(i)
  <2>1. /\ Reply(i, "ok") /\ pending[i].kind \in PathKinds /\ pending[i].reply = Null
        /\ UNCHANGED <<disk, known, running, hub, posts, ui, job, models, acts, calm>>
    BY <1>8 DEF PostCustomPath, DeleteCustomPath, Unanswered, PathKinds
  <2>2. pending[i].arg \in Tools /\ "ok" \in Replies(pending[i].kind)
    BY <1>1, <2>1, KindsAre
  <2>3. custom' \subseteq Tools
    BY <1>1, <1>8, <2>2 DEF Typed, PostCustomPath, DeleteCustomPath
  <2>4. JobsInv'
    BY <1>1, <2>1, JobsKept DEF hub
  <2>5. Typed' <=> pending' \in Seq(Requests)
    BY <1>1, <2>1, <2>3 DEF Typed, hub
  <2>6. pending[i].kind \notin {"status", "sync", "models"}
    BY <2>1 DEF PathKinds
  <2>. QED
    BY <1>1, <2>1, <2>2, <2>4, <2>5, <2>6, ReplyStep
<1>. QED
  BY <1>4, <1>5, <1>6, <1>7, <1>8

-----------------------------------------------------------------------------
(* What the page does with an answer. *)

LEMMA ContinueIs ==
  ASSUME NEW arg, NEW u
  PROVE  /\ Continue(arg, u) \in Seq(Requests)
         /\ \A r \in Range(Continue(arg, u)) : r.kind \notin PathKinds
<1>1. <<>> \in Seq(Requests) /\ Range(<<>>) = {}
  BY DEF Range
<1>. QED
  BY <1>1, MoreFacts DEF Continue

LEMMA StatusStep ==
  ASSUME IInv, NEW i \in DOMAIN pending, StatusAnswered(i)
  PROVE  IInv'
<1>. DEFINE answer == pending[i].reply
            u == IF answer = Refused THEN [ui EXCEPT !.loading = FALSE, !.error = TRUE]
                 ELSE [ui EXCEPT !.loading = FALSE, !.tools = answer, !.newer = FALSE]
            more == Continue(pending[i].arg, u)
            rest == Rest(i)
            reqs == rest \o more
<1>1. /\ Typed /\ PageInv /\ ui \in UI
      /\ pending[i].kind \in {"status", "sync"} /\ answer \in Statuses \cup {Refused}
      /\ answer # Null
  <2>1. pending[i] \in Requests /\ pending[i].kind \in {"status", "sync"} /\ answer # Null
    BY TheRest DEF IInv, StatusAnswered, Answered
  <2>2. answer \in Statuses \cup {Refused}
    BY <2>1, RequestFields, KindsAre
  <2>. QED
    BY <2>1, <2>2 DEF IInv, Typed
<1>2. /\ Render(u, reqs) /\ calm' = (calm /\ (answer = Refused \/ ~Forgets(answer)))
      /\ UNCHANGED <<server, hub, posts, job, models, acts>>
  BY DEF StatusAnswered
<1>. HIDE DEF answer
<1>3. /\ u \in UI /\ u.loading = FALSE /\ u.dialog = ui.dialog
      /\ answer = Refused => u.tools = ui.tools /\ u.error = TRUE
      /\ answer # Refused => u.tools = answer /\ u.error = ui.error
  <2>1. CASE answer = Refused
    BY <1>1, <2>1 DEF UI
  <2>2. CASE answer # Refused
    BY <1>1, <2>2 DEF UI
  <2>. QED
    BY <2>1, <2>2
<1>4. more \in Seq(Requests) /\ \A r \in Range(more) : r.kind \notin PathKinds
  BY ContinueIs
<1>5. /\ rest \in Seq(Requests) /\ Range(rest) = Others(i)
      /\ Range(pending) = Others(i) \cup {pending[i]}
  BY <1>1, TheRest
<1>. HIDE DEF u, more, rest
<1>6. reqs \in Seq(Requests) /\ Range(reqs) = Others(i) \cup Range(more)
  BY <1>4, <1>5, RangeConcat
<1>. HIDE DEF reqs
<1>7. ~IsPath(pending[i])
  BY <1>1 DEF IsPath, PathKinds
<1>8. \A r \in Range(reqs) : IsPath(r) => u.dialog # Null
  <2>1. \A r \in Range(reqs) : IsPath(r) => r \in Range(pending)
    BY <1>4, <1>5, <1>6 DEF IsPath
  <2>. QED
    BY <1>1, <1>3, <2>1 DEF PageInv, PathsMine
<1>9. (u.dialog # Null /\ u.dialog.loading) => \E r \in Range(reqs) : IsPath(r)
  BY <1>1, <1>3, <1>5, <1>6, <1>7 DEF PageInv, DialogWaits
<1>10. ASSUME calm', NEW t \in Tools, Installed(ui, t), ui.tools # Null
       PROVE  Installed(u, t) /\ u.tools # Null
  <2>1. CASE answer = Refused
    BY <1>3, <1>10, <2>1 DEF Installed
  <2>2. CASE answer # Refused
    <3>1. ~Forgets(answer) /\ u.tools = answer /\ answer \in Statuses
      BY <1>1, <1>2, <1>3, <1>10, <2>2
    <3>2. answer[t] \notin {"missing", "no_model"}
      BY <1>10, <3>1 DEF Forgets, Installed
    <3>3. answer[t] \in Presence
      BY <3>1 DEF Statuses
    <3>. QED
      BY <1>1, <3>1, <3>2, <3>3 DEF Installed, Presence
  <2>. QED
    BY <2>1, <2>2
<1>11. (calm' /\ AllRequiredInstalled(ui)) => AllRequiredInstalled(u)
  BY <1>10 DEF AllRequiredInstalled, Tools
<1>12. PageInv'
  BY <1>1, <1>2, <1>3, <1>6, <1>8, <1>9, <1>11, PageShown
<1>13. /\ ui' \in UI /\ pending' \in Seq(Requests) /\ ui'.tools = u.tools /\ ui'.error = u.error
       /\ \A r \in Range(reqs) : <<r.kind, r.reply>> \in Asked'
  BY <1>1, <1>2, <1>3, <1>6, RenderFacts
<1>14. \A a \in Asked : a \in Asked' \/ a = <<pending[i].kind, answer>>
  BY <1>5, <1>6, <1>13 DEF Asked, answer
<1>15. Typed'
  BY <1>2, <1>13 DEF IInv, Typed, server, hub
<1>16. JobsInv'
  BY <1>2, JobsKept DEF IInv, server, hub
<1>17. SeenTools'
  <2>1. SUFFICES ASSUME calm', NEW t \in Tools, job[t] = "done", ui'.error # TRUE
                 PROVE  Listed(ui', t) \/ \E a \in Asked' : Lists(a, t)
    BY <1>2, <1>13, <1>3 DEF SeenTools, Listed
  <2>2. /\ calm /\ answer # Refused /\ ~Forgets(answer) /\ ui'.tools = answer /\ answer # Null
        /\ answer \in Statuses /\ ui'.error = ui.error
    BY <1>1, <1>2, <1>3, <1>13, <2>1
  <2>3. CASE answer[t] # "missing"
    BY <2>2, <2>3 DEF Listed
  <2>4. CASE answer[t] = "missing"
    <3>1. ~Listed(ui, t)
      BY <2>2, <2>4 DEF Listed, Forgets
    <3>2. ui.error # TRUE /\ ui.error \in BOOLEAN
      BY <1>1, <2>1, <2>2 DEF UI
    <3>3. PICK a \in Asked : Lists(a, t)
      BY <2>1, <2>2, <3>1, <3>2 DEF IInv, SeenInv, SeenTools
    <3>4. a # <<pending[i].kind, answer>>
      BY <2>2, <2>4, <3>3 DEF Lists
    <3>. QED
      BY <1>14, <3>3, <3>4
  <2>. QED
    BY <2>3, <2>4
<1>18. SeenModel'
  <2>1. \A a \in Asked : a[1] = "models" => a \in Asked'
    BY <1>1, <1>14
  <2>. QED
    BY <1>2, <2>1 DEF IInv, SeenInv, SeenModel
<1>. QED
  BY <1>12, <1>15, <1>16, <1>17, <1>18 DEF IInv, SeenInv

LEMMA ModelsStep ==
  ASSUME IInv, NEW i \in DOMAIN pending, ModelsAnswered(i)
  PROVE  IInv'
<1>. DEFINE reply == pending[i].reply
<1>1. /\ Typed /\ PageInv /\ pending[i].kind = "models" /\ reply # Null
      /\ pending' = Rest(i) /\ models' = (IF reply = Refused THEN models ELSE reply)
      /\ calm' = (calm /\ reply # Refused /\ (models = TRUE => models'))
      /\ UNCHANGED <<server, hub, posts, ui, job, acts>>
  BY DEF IInv, ModelsAnswered, Answered
<1>2. /\ pending' \in Seq(Requests) /\ Range(pending') = Others(i)
      /\ Range(pending) = Others(i) \cup {pending[i]} /\ pending[i] \in Requests
  BY <1>1, TheRest
<1>3. reply \in {Refused} \cup BOOLEAN
  BY <1>1, <1>2, RequestFields, KindsAre
<1>4. models' \in {Null} \cup BOOLEAN
  BY <1>1, <1>3 DEF Typed
<1>5. Typed'
  BY <1>1, <1>2, <1>4 DEF Typed, server, hub
<1>6. \A a \in Asked : a \in Asked' \/ a = <<"models", reply>>
  BY <1>1, <1>2 DEF Asked
<1>7. DialogOpen' /\ MissingIsPolled'
  BY <1>1 DEF PageInv, DialogOpen, MissingIsPolled, ToolsSectionShown, AllRequiredInstalled,
         Installed, View, MissingRequired, UpdateBanner
<1>8. PathsMine' /\ DialogWaits'
  BY <1>1, <1>2 DEF PageInv, PathsMine, DialogWaits, IsPath, PathKinds
<1>. HIDE DEF reply
<1>9. StatusAsked'
  BY <1>1, <1>6 DEF PageInv, StatusAsked
<1>10. JobsInv'
  BY <1>1, JobsKept DEF IInv, server, hub
<1>11. SeenTools'
  <2>1. \A a \in Asked : a[1] \in {"status", "sync"} => a \in Asked'
    BY <1>6
  <2>2. \A t \in Tools : Listed(ui', t) <=> Listed(ui, t)
    BY <1>1
  <2>3. \A t \in Tools : (\E a \in Asked : Lists(a, t)) => \E a \in Asked' : Lists(a, t)
    BY <2>1 DEF Lists
  <2>. QED
    BY <1>1, <2>2, <2>3 DEF IInv, SeenInv, SeenTools
<1>12. SeenModel'
  <2>1. SUFFICES ASSUME calm', job["model"] = "done", models' # TRUE
                 PROVE  \E b \in Asked' : b[1] = "models" /\ b[2] \in {Null, Refused, TRUE}
    BY <1>1 DEF SeenModel
  <2>2. calm /\ reply # Refused /\ models' = reply /\ reply # TRUE /\ models # TRUE
    BY <1>1, <1>3, <1>4, <2>1
  <2>3. PICK a \in Asked : a[1] = "models" /\ a[2] \in {Null, Refused, TRUE}
    BY <2>1, <2>2 DEF IInv, SeenInv, SeenModel
  <2>4. a # <<"models", reply>>
    <3>1. a[2] # reply
      BY <1>1, <2>2, <2>3
    <3>2. <<"models", reply>>[2] = reply
      OBVIOUS
    <3>. QED
      BY <3>1, <3>2
  <2>. QED
    BY <1>6, <2>3, <2>4
<1>. QED
  BY <1>5, <1>7, <1>8, <1>9, <1>10, <1>11, <1>12 DEF IInv, PageInv, SeenInv

(* While the status loads no screen has a dialog.                          *)
LEMMA LoadingHides ==
  ASSUME ui \in UI, ToolsSectionShown(ui), NEW u \in UI, u.loading = TRUE
  PROVE  ~Stays(u)
<1>1. View(u) \in {"spinner", "starting"}
  <2>1. u.timedOut \in BOOLEAN
    BY DEF UI
  <2>. QED
    BY <2>1 DEF View
<1>. QED
  BY <1>1 DEF ToolsSectionShown, Stays

LEMMA PathStep ==
  ASSUME IInv, NEW i \in DOMAIN pending, PathAnswered(i)
  PROVE  IInv'
<1>. DEFINE rest == Rest(i)
<1>1. /\ Typed /\ PageInv /\ ui \in UI /\ pending[i].kind \in PathKinds
      /\ UNCHANGED <<server, hub, posts, job, models, acts, calm>>
  BY DEF IInv, Typed, PathAnswered, Answered, PathKinds
<1>2. /\ rest \in Seq(Requests) /\ Range(rest) = Others(i)
      /\ Range(pending) = Others(i) \cup {pending[i]} /\ pending[i] \in Requests
  BY <1>1, TheRest
<1>3. \A a \in Asked : a[1] \in {"status", "sync", "models"} =>
                         \E r \in Range(rest) : a = <<r.kind, r.reply>>
  BY <1>1, <1>2 DEF Asked, PathKinds
<1>4. Typed' <=> ui' \in UI /\ pending' \in Seq(Requests)
  BY <1>1 DEF Typed, server, hub
<1>5. JobsInv'
  BY <1>1, JobsKept DEF IInv, server, hub
<1>6. CASE pending[i].reply = "ok"
  <2>. DEFINE q == Request("status", "none")
              reqs == Append(rest, q)
              u == Loading(ui)
  <2>1. u \in UI /\ u.tools = ui.tools /\ u.dialog = ui.dialog /\ u.loading = TRUE
    BY <1>1 DEF Loading, UI
  <2>2. "status" \in Kinds /\ "none" \in Args("status") /\ "status" \notin PathKinds
    BY KindsAre DEF PathKinds
  <2>3. q \in Requests /\ q.kind = "status" /\ q.reply = Null
    BY <2>2, NewRequest
  <2>4. Render(u, reqs)
    BY <1>6 DEF PathAnswered
  <2>. HIDE DEF q, u, rest
  <2>5. reqs \in Seq(Requests) /\ Range(reqs) = Others(i) \cup {q}
    BY <1>2, <2>3, RangeAppend
  <2>. HIDE DEF reqs
  <2>6. \A r \in Range(reqs) : IsPath(r) => r \in Range(pending)
    BY <1>2, <2>2, <2>3, <2>5 DEF IsPath
  <2>7. \A r \in Range(reqs) : IsPath(r) => u.dialog # Null
    BY <1>1, <2>1, <2>6 DEF PageInv, PathsMine
  <2>8. ~(u.dialog # Null /\ u.dialog.loading /\ Stays(u))
    BY <1>1, <2>1, LoadingHides DEF PageInv, DialogOpen
  <2>9. \E r \in Range(reqs) : r.kind \in {"status", "sync"}
    BY <2>3, <2>5
  <2>10. AllRequiredInstalled(ui) => AllRequiredInstalled(u)
    BY <2>1 DEF AllRequiredInstalled, Installed
  <2>11. PageInv'
    BY <1>1, <2>1, <2>4, <2>5, <2>7, <2>8, <2>9, <2>10, PageShown
  <2>12. /\ ui' \in UI /\ pending' \in Seq(Requests) /\ ui'.tools = u.tools
         /\ \A r \in Range(reqs) : <<r.kind, r.reply>> \in Asked'
    BY <1>1, <2>1, <2>4, <2>5, RenderFacts
  <2>13. <<"status", Null>> \in Asked'
    BY <2>3, <2>5, <2>12
  <2>14. SeenTools'
    BY <2>13 DEF SeenTools, Lists
  <2>15. \A a \in Asked : a[1] = "models" => a \in Asked'
    BY <1>2, <1>3, <2>5, <2>12
  <2>16. SeenModel'
    BY <1>1, <2>15 DEF IInv, SeenInv, SeenModel
  <2>. QED
    BY <1>4, <1>5, <2>11, <2>12, <2>14, <2>16 DEF IInv, SeenInv
<1>7. CASE pending[i].reply # "ok"
  <2>. DEFINE u == IF pending[i].mine THEN [ui EXCEPT !.dialog.loading = FALSE] ELSE ui
  <2>1. pending[i].mine => ui.dialog # Null
    BY <1>1, <1>2 DEF PageInv, PathsMine, IsPath
  <2>2. /\ u \in UI /\ u.tools = ui.tools /\ u.loading = ui.loading /\ u.error = ui.error
        /\ u.dialog # Null <=> ui.dialog # Null
        /\ pending[i].mine => u.dialog.loading = FALSE
        /\ ~pending[i].mine => u.dialog = ui.dialog
    <3>1. CASE pending[i].mine
      <4>. DEFINE d == [ui.dialog EXCEPT !.loading = FALSE]
      <4>1. u = [ui EXCEPT !.dialog = d]
        BY <3>1
      <4>2. ui.dialog \in [tool : Tools, loading : BOOLEAN]
        BY <1>1, <2>1, <3>1 DEF UI
      <4>3. d \in [tool : Tools, loading : BOOLEAN] /\ d.loading = FALSE /\ d # Null
        BY <4>2, NullIsNothing
      <4>. HIDE DEF d, u
      <4>4. u \in UI
        BY <1>1, <4>1, <4>3 DEF UI
      <4>5. /\ u.dialog = d /\ u.tools = ui.tools /\ u.loading = ui.loading
            /\ u.error = ui.error
        BY <1>1, <4>1 DEF UI
      <4>. QED
        BY <2>1, <3>1, <4>3, <4>4, <4>5
    <3>2. CASE ~pending[i].mine
      BY <1>1, <3>2
    <3>. QED
      BY <3>1, <3>2
  <2>3. Render(u, rest)
    BY <1>7 DEF PathAnswered
  <2>. HIDE DEF u, rest
  <2>4. \A r \in Range(rest) : IsPath(r) => u.dialog # Null
    BY <1>1, <1>2, <2>2 DEF PageInv, PathsMine
  <2>5. ASSUME u.dialog # Null, u.dialog.loading PROVE \E r \in Range(rest) : IsPath(r)
    <3>1. ~pending[i].mine /\ ui.dialog # Null /\ ui.dialog.loading
      BY <2>2, <2>5
    <3>2. PICK r \in Range(pending) : IsPath(r)
      BY <1>1, <3>1 DEF PageInv, DialogWaits
    <3>. QED
      BY <1>2, <3>1, <3>2 DEF IsPath
  <2>6. u.loading => \E r \in Range(rest) : r.kind \in {"status", "sync"}
    BY <1>1, <1>3, <2>2 DEF PageInv, StatusAsked
  <2>7. AllRequiredInstalled(ui) => AllRequiredInstalled(u)
    BY <2>2 DEF AllRequiredInstalled, Installed
  <2>8. PageInv'
    BY <1>1, <1>2, <2>2, <2>3, <2>4, <2>5, <2>6, <2>7, PageShown
  <2>9. /\ ui' \in UI /\ pending' \in Seq(Requests) /\ ui'.tools = u.tools
        /\ ui'.error = u.error
        /\ \A r \in Range(rest) : <<r.kind, r.reply>> \in Asked'
    BY <1>1, <1>2, <2>2, <2>3, RenderFacts
  <2>10. \A a \in Asked : a[1] \in {"status", "sync", "models"} => a \in Asked'
    BY <1>3, <2>9
  <2>11. SeenInv'
    BY <1>1, <2>2, <2>9, <2>10, SeenKept DEF IInv
  <2>. QED
    BY <1>4, <1>5, <2>8, <2>9, <2>11 DEF IInv
<1>. QED
  BY <1>6, <1>7

LEMMA DialogStep ==
  ASSUME IInv, \/ \E t \in Tools : OpenPathDialog(t)
               \/ ClosePathDialog \/ HandleSave \/ HandleClear
  PROVE  IInv'
<1>1. Typed /\ PageInv /\ ui \in UI /\ pending \in Seq(Requests) /\ acts \in 0 .. MaxActs
  BY DEF IInv, Typed
<1>. DEFINE Same == /\ ui'.tools = ui.tools /\ ui'.loading = ui.loading /\ ui'.error = ui.error
                    /\ ui'.polling = ui.polling /\ ui'.settings = ui.settings
                    /\ ui'.timedOut = ui.timedOut /\ ui'.newer = ui.newer
                    /\ ui'.dismissed = ui.dismissed
<1>2. ASSUME Same, ui' \in UI, pending' \in Seq(Requests), acts' \in 0 .. MaxActs,
             UNCHANGED <<server, hub, posts, job, models, calm>>, Asked \subseteq Asked',
             ui'.dialog # Null => ToolsSectionShown(ui), PathsMine', DialogWaits'
      PROVE  IInv'
  <2>1. View(ui') = View(ui)
    BY <1>2 DEF View, MissingRequired, UpdateBanner, Installed
  <2>2. DialogOpen'
    BY <1>2, <2>1 DEF DialogOpen, ToolsSectionShown
  <2>3. StatusAsked'
    BY <1>1, <1>2 DEF PageInv, StatusAsked
  <2>4. MissingIsPolled'
    BY <1>1, <1>2 DEF PageInv, MissingIsPolled, AllRequiredInstalled, Installed
  <2>5. JobsInv'
    BY <1>2, JobsKept DEF IInv, server, hub
  <2>6. SeenInv'
    BY <1>2, SeenKept DEF IInv
  <2>7. Typed'
    BY <1>1, <1>2 DEF Typed, server, hub
  <2>. QED
    BY <1>2, <2>2, <2>3, <2>4, <2>5, <2>6, <2>7 DEF IInv, PageInv
<1>3. ASSUME NEW d \in {Null} \cup [tool : Tools, loading : BOOLEAN], ui' = [ui EXCEPT !.dialog = d]
      PROVE  Same /\ ui' \in UI /\ ui'.dialog = d
  BY <1>1, <1>3 DEF UI
<1>. HIDE DEF Same
<1>4. ASSUME NEW t \in Tools, OpenPathDialog(t) PROVE IInv'
  <2>. DEFINE d == [tool |-> t, loading |-> FALSE]
  <2>1. d \in [tool : Tools, loading : BOOLEAN] /\ d.loading = FALSE
    OBVIOUS
  <2>2. /\ ui' = [ui EXCEPT !.dialog = d] /\ ToolsSectionShown(ui) /\ acts' \in 0 .. MaxActs
        /\ UNCHANGED <<server, hub, posts, job, models, pending, calm>>
    BY <1>1, <1>4, OneMore DEF OpenPathDialog
  <2>. HIDE DEF d
  <2>3. Same /\ ui' \in UI /\ ui'.dialog = d
    BY <1>3, <2>1, <2>2
  <2>4. PathsMine' /\ DialogWaits' /\ Asked' = Asked
    BY <2>1, <2>2, <2>3, NullIsNothing DEF PathsMine, DialogWaits, Asked
  <2>. QED
    BY <1>1, <1>2, <2>2, <2>3, <2>4
<1>5. CASE ClosePathDialog
  <2>1. /\ ui' = [ui EXCEPT !.dialog = Null]
        /\ pending' = [k \in DOMAIN pending |-> [pending[k] EXCEPT !.mine = FALSE]]
        /\ UNCHANGED <<server, hub, posts, job, models, acts, calm>>
    BY <1>5 DEF ClosePathDialog
  <2>2. Same /\ ui' \in UI /\ ui'.dialog = Null
    BY <1>3, <2>1
  <2>3. ASSUME NEW k \in DOMAIN pending
        PROVE  /\ pending'[k] \in Requests /\ pending'[k].mine = FALSE
               /\ pending'[k].kind = pending[k].kind /\ pending'[k].reply = pending[k].reply
    <3>. DEFINE no == FALSE
                r == [pending[k] EXCEPT !.mine = no]
    <3>1. pending[k] \in Requests /\ pending'[k] = r /\ no \in BOOLEAN
      BY <1>1, <2>1
    <3>. HIDE DEF no
    <3>2. r \in Requests /\ r.kind = pending[k].kind /\ r.reply = pending[k].reply /\ r.mine = no
      BY <3>1, RequestKept
    <3>. QED
      BY <3>1, <3>2 DEF no
  <2>4. pending' = [k \in DOMAIN pending |-> pending'[k]]
    BY <2>1
  <2>5. /\ pending' \in Seq(Requests)
        /\ Range(pending') = {pending'[k] : k \in DOMAIN pending}
    <3>. DEFINE t == pending'
    <3>1. t = [k \in DOMAIN pending |-> t[k]] /\ \A k \in DOMAIN pending : t[k] \in Requests
      BY <2>3, <2>4
    <3>. HIDE DEF t
    <3>2. t \in Seq(Requests) /\ Range(t) = {t[k] : k \in DOMAIN pending}
      BY <1>1, <3>1, SequenceOf
    <3>. QED
      BY <3>2 DEF t
  <2>6. PathsMine' /\ DialogWaits'
    BY <2>2, <2>3, <2>5 DEF PathsMine, DialogWaits, IsPath
  <2>7. Asked \subseteq Asked'
    <3>1. SUFFICES ASSUME NEW k \in DOMAIN pending
                   PROVE  <<pending[k].kind, pending[k].reply>> \in Asked'
      BY DEF Asked, Range
    <3>2. pending'[k] \in Range(pending')
      BY <2>5
    <3>3. <<pending'[k].kind, pending'[k].reply>> \in Asked'
      BY <3>2 DEF Asked
    <3>. QED
      BY <2>3, <3>3
  <2>. QED
    BY <1>1, <1>2, <2>1, <2>2, <2>5, <2>6, <2>7
<1>6. ASSUME NEW kind \in PathKinds, PathDialogAsks(kind) PROVE IInv'
  <2>. DEFINE d == [ui.dialog EXCEPT !.loading = TRUE]
              q == Request(kind, ui.dialog.tool)
  <2>1. /\ ui.dialog # Null /\ ui' = [ui EXCEPT !.dialog = d]
        /\ pending' = Append(pending, q)
        /\ UNCHANGED <<server, hub, posts, job, models, acts, calm>>
    BY <1>6 DEF PathDialogAsks
  <2>2. ui.dialog \in [tool : Tools, loading : BOOLEAN]
    BY <1>1, <2>1 DEF UI
  <2>3. d \in [tool : Tools, loading : BOOLEAN] /\ d # Null
    BY <2>2, NullIsNothing
  <2>4. kind \in Kinds /\ ui.dialog.tool \in Args(kind)
    BY <2>2, KindsAre DEF PathKinds
  <2>5. /\ q \in Requests /\ q.kind = kind /\ q.mine = TRUE
        /\ pending' \in Seq(Requests) /\ Range(pending') = Range(pending) \cup {q}
    BY <1>1, <2>1, <2>4, NewRequest, Asks
  <2>. HIDE DEF d, q
  <2>6. Same /\ ui' \in UI /\ ui'.dialog = d
    BY <1>3, <2>1, <2>3
  <2>7. PathsMine' /\ DialogWaits'
    BY <1>6, <2>3, <2>5, <2>6 DEF PathsMine, DialogWaits, IsPath
  <2>8. Asked \subseteq Asked'
    BY <2>5 DEF Asked
  <2>9. ToolsSectionShown(ui)
    BY <1>1, <2>1 DEF PageInv, DialogOpen
  <2>. QED
    BY <1>1, <1>2, <2>1, <2>5, <2>6, <2>7, <2>8, <2>9
<1>. QED
  BY <1>4, <1>5, <1>6 DEF HandleSave, HandleClear, PathKinds

-----------------------------------------------------------------------------
(* Installations. *)

LEMMA JobsStep ==
  ASSUME IInv, UNCHANGED <<ui, pending, models>>, calm' => calm,
         \A j \in Jobs : job'[j] = "done" => job[j] = "done", Typed', JobsInv'
  PROVE  IInv'
<1>1. PageInv' /\ Asked' = Asked
  BY PageKept DEF IInv
<1>2. SeenInv'
  BY <1>1, SeenKept DEF IInv
<1>. QED
  BY <1>1, <1>2 DEF IInv

LEMMA StreamFields ==
  ASSUME NEW s \in Stream
  PROVE  /\ s.job \in Jobs /\ s.phase \in {"connecting", "open", "closed"}
         /\ s.queue \in Seq(Events) /\ (s.queue # <<>> => s.queue[1] \in Range(s.queue))
         /\ Range(s.queue) \subseteq Events
<1>1. /\ s.job \in Jobs /\ s.phase \in {"connecting", "open", "closed"}
      /\ s.queue \in Seq(Events)
  BY DEF Stream
<1>. DEFINE q == s.queue
<1>2. q \in Seq(Events)
  BY <1>1
<1>. HIDE DEF q
<1>3. q # <<>> => q[1] \in Range(q)
  BY <1>2, RangeHeadTail DEF Range
<1>4. Range(q) \subseteq Events
  BY <1>2, RangeIn
<1>. QED
  BY <1>1, <1>3, <1>4 DEF q

(* The streams other than one.                                             *)
OtherStreams(k) == {streams[n] : n \in DOMAIN streams \ {k}}

LEMMA TheStreams ==
  ASSUME Typed, NEW k \in DOMAIN streams
  PROVE  /\ streams[k] \in Stream /\ Range(streams) = OtherStreams(k) \cup {streams[k]}
         /\ RemoveAt(streams, k) \in Seq(Stream)
         /\ Range(RemoveAt(streams, k)) = OtherStreams(k)
         /\ \A s \in Stream : /\ [streams EXCEPT ![k] = s] \in Seq(Stream)
                              /\ Range([streams EXCEPT ![k] = s]) = OtherStreams(k) \cup {s}
<1>1. streams \in Seq(Stream) /\ streams[k] \in Stream
  BY DEF Typed
<1>2. RemoveAt(streams, k) = SubSeq(streams, 1, k - 1) \o SubSeq(streams, k + 1, Len(streams))
  BY DEF RemoveAt
<1>3. \A s \in Stream : /\ [streams EXCEPT ![k] = s] \in Seq(Stream)
                        /\ Range([streams EXCEPT ![k] = s]) = OtherStreams(k) \cup {s}
  BY <1>1, RangeReplaced DEF OtherStreams
<1>4. /\ RemoveAt(streams, k) \in Seq(Stream)
      /\ Range(RemoveAt(streams, k)) = {streams[n] : n \in DOMAIN streams \ {k}}
  BY <1>1, <1>2, RangeWithout
<1>5. Range(streams) = OtherStreams(k) \cup {streams[k]}
  BY <1>1, RangeSplit DEF OtherStreams
<1>. QED
  BY <1>1, <1>3, <1>4, <1>5 DEF OtherStreams

LEMMA StartStep ==
  ASSUME IInv, NEW j \in Jobs, Start(j), Act,
         UNCHANGED <<server, history, ui, models, pending, calm>>
  PROVE  IInv'
<1>1. /\ Typed /\ JobsInv /\ acts' \in 0 .. MaxActs /\ streams \in Seq(Stream)
      /\ job \in [Jobs -> JobStates] /\ posts \in [Jobs -> Nat]
      /\ running \in [Jobs -> [fresh : Nat, stale : Nat]]
  BY OneMore DEF IInv, Typed
<1>. DEFINE s == [job |-> j, phase |-> "connecting", queue |-> <<>>]
<1>2. s \in Stream /\ s.job = j /\ s.phase = "connecting" /\ s.queue = <<>> /\ Range(s.queue) = {}
  BY DEF Stream, Range
<1>3. /\ streams' = Append(streams, s) /\ job' = [job EXCEPT ![j] = "installing"]
      /\ posts' = [posts EXCEPT ![j] = @ + 1]
  BY DEF Start
<1>. HIDE DEF s
<1>4. streams' \in Seq(Stream) /\ Range(streams') = Range(streams) \cup {s}
  BY <1>1, <1>2, <1>3, RangeAppend
<1>5. /\ job' \in [Jobs -> JobStates] /\ posts' \in [Jobs -> Nat]
      /\ \A i \in Jobs : i # j => job'[i] = job[i] /\ posts'[i] = posts[i]
      /\ job'[j] = "installing" /\ posts'[j] = posts[j] + 1
  BY <1>1, <1>3 DEF JobStates
<1>6. Typed'
  BY <1>1, <1>4, <1>5 DEF Typed, server
<1>7. ToCome(j)' /\ \A i \in Jobs : i # j => (ToCome(i)' <=> ToCome(i))
  <2>1. running' = running /\ running[j].fresh \in Nat /\ running[j].stale \in Nat /\ posts[j] \in Nat
    BY <1>1 DEF server
  <2>. QED
    BY <1>5, <2>1 DEF ToCome
<1>8. Hears'
  BY <1>1, <1>2, <1>4 DEF JobsInv, Hears
<1>9. Waits'
  <2>1. SUFFICES ASSUME calm, NEW i \in Jobs, job'[i] = "installing"
                 PROVE  \E x \in Range(streams') : Hearing(x, i)'
    BY DEF Waits
  <2>2. CASE i = j
    BY <1>2, <1>4, <1>7, <2>2 DEF Hearing
  <2>3. CASE i # j
    BY <1>1, <1>4, <1>5, <1>7, <2>1, <2>3 DEF JobsInv, Waits, Hearing
  <2>. QED
    BY <2>2, <2>3
<1>10. Dones'
  <2>1. \A i \in Jobs : Tells(i)' => Tells(i)
    BY <1>2, <1>4, <1>5 DEF Tells
  <2>. QED
    BY <1>1, <2>1 DEF JobsInv, Dones, IsThere, server
<1>11. \A i \in Jobs : job'[i] = "done" => job[i] = "done"
  BY <1>5
<1>. QED
  BY <1>6, <1>8, <1>9, <1>10, <1>11, JobsStep DEF JobsInv

LEMMA PostStep ==
  ASSUME IInv, NEW j \in Jobs, PostInstall(j) \/ PostFails(j)
  PROVE  IInv'
<1>1. /\ Typed /\ JobsInv /\ acts \in 0 .. MaxActs /\ posts \in [Jobs -> Nat]
      /\ running \in [Jobs -> [fresh : Nat, stale : Nat]]
  BY DEF IInv, Typed
<1>2. /\ posts[j] > 0 /\ posts' = [posts EXCEPT ![j] = @ - 1]
      /\ UNCHANGED <<disk, custom, known, hub, client>>
  BY DEF PostInstall, PostFails, server
<1>3. posts' \in [Jobs -> Nat] /\ posts'[j] = posts[j] - 1 /\ \A i \in Jobs : i # j => posts'[i] = posts[i]
  BY <1>1, <1>2
<1>4. Hears'
  BY <1>1, <1>2 DEF JobsInv, Hears, hub
<1>5. CASE PostInstall(j)
  <2>. DEFINE x == [running[j] EXCEPT !.fresh = @ + 1]
  <2>1. /\ x \in [fresh : Nat, stale : Nat] /\ x.fresh = running[j].fresh + 1
        /\ x.stale = running[j].stale /\ running[j].fresh \in Nat /\ running[j].stale \in Nat
    BY <1>1
  <2>2. running' = [running EXCEPT ![j] = x] /\ UNCHANGED <<acts, calm>>
    BY <1>5 DEF PostInstall
  <2>. HIDE DEF x
  <2>3. /\ running' \in [Jobs -> [fresh : Nat, stale : Nat]] /\ running'[j] = x
        /\ \A i \in Jobs : i # j => running'[i] = running[i]
    BY <1>1, <2>1, <2>2
  <2>4. \A i \in Jobs : ToCome(i)' <=> ToCome(i)
    BY <1>1, <1>2, <1>3, <2>1, <2>3 DEF ToCome
  <2>5. Waits' /\ Dones'
    BY <1>1, <1>2, <2>2, <2>4 DEF JobsInv, Waits, Hearing, Dones, Tells, IsThere, hub, client
  <2>6. Typed'
    BY <1>1, <1>2, <1>3, <2>2, <2>3 DEF Typed, hub, client
  <2>. QED
    BY <1>2, <1>4, <2>2, <2>5, <2>6, JobsStep DEF JobsInv, client
<1>6. CASE PostFails(j)
  <2>1. acts' \in 0 .. MaxActs /\ calm' = FALSE /\ running' = running
    BY <1>1, <1>6, OneMore DEF PostFails, server
  <2>2. Waits' /\ Dones'
    BY <2>1 DEF Waits, Dones
  <2>3. Typed'
    BY <1>1, <1>2, <1>3, <2>1 DEF Typed, hub, client
  <2>. QED
    BY <1>2, <1>4, <2>1, <2>2, <2>3, JobsStep DEF JobsInv, client
<1>. QED
  BY <1>5, <1>6

(* What the hub sends to those that listen, and remembers for the others.  *)
LEMMA EndStep ==
  ASSUME IInv, NEW j \in Jobs, NEW of \in {"fresh", "stale"}, NEW event \in Events,
         JobEnds(j, of, event)
  PROVE  IInv'
<1>1. /\ Typed /\ JobsInv /\ streams \in Seq(Stream) /\ history \in [Jobs -> Seq(Events)]
      /\ known \in Found /\ posts \in [Jobs -> Nat]
      /\ running \in [Jobs -> [fresh : Nat, stale : Nat]]
  BY DEF IInv, Typed
<1>2. /\ running[j][of] > 0 /\ running' = [running EXCEPT ![j][of] = @ - 1]
      /\ disk' = (IF event = "done" THEN disk \cup {j} ELSE disk)
      /\ known' = [t \in Tools |-> IF event = "done" /\ of = "fresh" /\ t = j
                                    THEN "installed" ELSE known[t]]
      /\ calm' = (calm /\ ~(event = "done" /\ of = "stale" /\ j \in Tools))
      /\ UNCHANGED <<custom, posts, client, acts>>
  BY DEF JobEnds
<1>3. running' \in [Jobs -> [fresh : Nat, stale : Nat]] /\ \A i \in Jobs : i # j => running'[i] = running[i]
  <2>. DEFINE x == [running[j] EXCEPT ![of] = @ - 1]
  <2>1. running' = [running EXCEPT ![j] = x]
    BY <1>2
  <2>2. x \in [fresh : Nat, stale : Nat]
    <3>1. running[j] \in [fresh : Nat, stale : Nat]
      BY <1>1
    <3>2. CASE of = "fresh"
      <4>1. x = [running[j] EXCEPT !.fresh = running[j].fresh - 1] /\ running[j].fresh > 0
        BY <1>2, <3>2
      <4>. QED
        BY <3>1, <4>1
    <3>3. CASE of = "stale"
      <4>1. x = [running[j] EXCEPT !.stale = running[j].stale - 1] /\ running[j].stale > 0
        BY <1>2, <3>3
      <4>. QED
        BY <3>1, <4>1
    <3>. QED
      BY <3>2, <3>3
  <2>. HIDE DEF x
  <2>. QED
    BY <1>1, <2>1, <2>2
<1>4. known' \in Found
  BY <1>1, <1>2 DEF Found, Presence
<1>5. /\ history' \in [Jobs -> Seq(Events)] /\ history'[j] = Append(history[j], event)
      /\ history'[j] # <<>> /\ Range(history'[j]) = Range(history[j]) \cup {event}
      /\ \A i \in Jobs : i # j => history'[i] = history[i]
  <2>. DEFINE h == Append(history[j], event)
              old == history[j]
  <2>1. history' = [history EXCEPT ![j] = h]
    BY DEF JobEnds, Publish
  <2>2. h = Append(old, event) /\ old \in Seq(Events)
    BY <1>1
  <2>. HIDE DEF h, old
  <2>3. h \in Seq(Events) /\ h # <<>> /\ Range(h) = Range(old) \cup {event}
    BY <2>2, RangeAppend
  <2>. QED
    BY <1>1, <2>1, <2>3 DEF h, old
<1>. DEFINE Told(s) == IF s.job = j /\ s.phase # "closed"
                         THEN [s EXCEPT !.queue = Append(@, event)] ELSE s
<1>6. ASSUME NEW s \in Stream
      PROVE  /\ Told(s) \in Stream /\ Told(s).job = s.job /\ Told(s).phase = s.phase
             /\ Told(s) = s \/ /\ s.job = j /\ s.phase # "closed"
                               /\ Told(s).queue # <<>>
                               /\ Range(Told(s).queue) = Range(s.queue) \cup {event}
             /\ (s.job = j /\ s.phase # "closed") => Told(s).queue # <<>>
  <2>1. CASE s.job = j /\ s.phase # "closed"
    <3>. DEFINE q == Append(s.queue, event)
                old == s.queue
    <3>1. q = Append(old, event) /\ old \in Seq(Events)
      BY StreamFields
    <3>2. Told(s) = [s EXCEPT !.queue = q]
      BY <2>1
    <3>. HIDE DEF q, old
    <3>3. q \in Seq(Events) /\ q # <<>> /\ Range(q) = Range(old) \cup {event}
      BY <3>1, RangeAppend
    <3>. HIDE DEF Told
    <3>4. Told(s) \in Stream /\ Told(s).job = s.job /\ Told(s).phase = s.phase /\ Told(s).queue = q
      BY <3>2, <3>3 DEF Stream
    <3>. QED
      BY <2>1, <3>3, <3>4 DEF old
  <2>2. CASE ~(s.job = j /\ s.phase # "closed")
    BY <2>2
  <2>. QED
    BY <2>1, <2>2
<1>7. streams' \in Seq(Stream) /\ Range(streams') = {Told(s) : s \in Range(streams)}
  <2>. DEFINE t == streams'
  <2>1. t = [k \in DOMAIN streams |-> Told(streams[k])]
    BY DEF JobEnds, Publish
  <2>. HIDE DEF t, Told
  <2>2. t = [k \in DOMAIN streams |-> t[k]]
    BY <2>1
  <2>3. \A k \in DOMAIN streams : t[k] = Told(streams[k]) /\ streams[k] \in Stream
    BY <1>1, <2>1
  <2>4. \A k \in DOMAIN streams : t[k] \in Stream
    BY <1>6, <2>3
  <2>5. t \in Seq(Stream) /\ Range(t) = {t[k] : k \in DOMAIN streams}
    <3>1. streams \in Seq(Stream)
      BY <1>1
    <3>. QED
      BY <2>2, <2>4, <3>1, SequenceOf
  <2>6. Range(t) = {Told(s) : s \in Range(streams)}
    BY <2>3, <2>5 DEF Range
  <2>. QED
    BY <2>5, <2>6 DEF t
<1>. HIDE DEF Told
<1>8. Range(streams) \subseteq Stream
  BY <1>1, RangeIn
<1>9. Typed'
  BY <1>1, <1>2, <1>3, <1>4, <1>5, <1>7 DEF Typed, client
<1>10. Hears'
  <2>1. SUFFICES ASSUME NEW s \in Range(streams), Told(s).phase = "connecting",
                        Told(s).queue # <<>>
                 PROVE  history'[Told(s).job] # <<>>
    BY <1>7 DEF Hears
  <2>2. s \in Stream /\ Told(s).job = s.job /\ s.job \in Jobs /\ Told(s).phase = s.phase
    BY <1>6, <1>8, StreamFields
  <2>3. CASE s.job = j
    BY <1>5, <2>2, <2>3
  <2>4. CASE s.job # j
    BY <1>1, <1>5, <1>6, <2>1, <2>2, <2>4 DEF JobsInv, Hears
  <2>. QED
    BY <2>3, <2>4
<1>11. Waits'
  <2>1. SUFFICES ASSUME calm', NEW i \in Jobs, job[i] = "installing"
                 PROVE  \E x \in Range(streams') : Hearing(x, i)'
    BY <1>2 DEF Waits, client
  <2>2. PICK s \in Range(streams) : Hearing(s, i)
    BY <1>1, <1>2, <2>1 DEF JobsInv, Waits
  <2>3. s \in Stream /\ Told(s) \in Range(streams') /\ Told(s).job = i /\ Told(s).phase # "closed"
    BY <1>6, <1>7, <1>8, <2>2 DEF Hearing
  <2>4. CASE i = j
    BY <1>6, <2>2, <2>3, <2>4 DEF Hearing
  <2>5. CASE i # j
    <3>1. Told(s) = s
      BY <1>6, <2>2, <2>3, <2>5 DEF Hearing
    <3>2. ToCome(i) => ToCome(i)'
      BY <1>2, <1>3, <2>5 DEF ToCome
    <3>. QED
      BY <2>2, <2>3, <3>1, <3>2 DEF Hearing
  <2>. QED
    BY <2>4, <2>5
<1>12. Dones'
  <2>1. SUFFICES ASSUME calm', NEW i \in Jobs, Tells(i)' PROVE IsThere(i)'
    BY DEF Dones
  <2>2. calm /\ job' = job
    BY <1>2, <2>1 DEF client
  <2>3. CASE i = j /\ event = "done"
    <3>1. j \in disk' /\ (j \in Tools => of = "fresh")
      BY <1>2, <2>1, <2>3
    <3>2. j \in Tools => known'[j] = "installed"
      BY <1>2, <2>3, <3>1
    <3>. QED
      BY <2>3, <3>1, <3>2 DEF IsThere
  <2>4. CASE ~(i = j /\ event = "done")
    <3>1. ASSUME NEW s \in Range(streams'), s.job = i, "done" \in Range(s.queue)
          PROVE  \E x \in Range(streams) : x.job = i /\ "done" \in Range(x.queue)
      <4>1. PICK x \in Range(streams) : s = Told(x)
        BY <1>7
      <4>2. x \in Stream
        BY <1>8
      <4>. QED
        BY <1>6, <2>4, <3>1, <4>1, <4>2
    <3>2. "done" \in Range(history'[i]) => "done" \in Range(history[i])
      BY <1>5, <2>4
    <3>3. Tells(i)
      BY <2>1, <2>2, <3>1, <3>2 DEF Tells
    <3>4. IsThere(i)
      BY <1>1, <2>2, <3>3 DEF JobsInv, Dones
    <3>5. disk \subseteq disk' /\ (i \in Tools => known'[i] = known[i])
      BY <1>2, <2>4
    <3>. QED
      BY <3>4, <3>5 DEF IsThere
  <2>. QED
    BY <2>3, <2>4
<1>. QED
  BY <1>2, <1>9, <1>10, <1>11, <1>12, JobsStep DEF JobsInv, client

LEMMA ListenStep ==
  ASSUME IInv, NEW k \in DOMAIN streams, GetInstallStream(k)
  PROVE  IInv'
<1>. DEFINE s == streams[k]
            q == history[s.job]
            opened == [s EXCEPT !.phase = "open", !.queue = q]
<1>1. /\ Typed /\ JobsInv /\ s.phase = "connecting"
      /\ streams' = [streams EXCEPT ![k] = opened]
      /\ UNCHANGED <<server, history, posts, client, acts, calm>>
  BY DEF IInv, GetInstallStream
<1>2. s \in Stream /\ Range(streams) = OtherStreams(k) \cup {s}
  BY <1>1, TheStreams
<1>3. s.job \in Jobs /\ q \in Seq(Events)
  BY <1>1, <1>2, StreamFields DEF Typed
<1>. HIDE DEF s, q
<1>4. /\ opened \in Stream /\ opened.phase = "open" /\ opened.queue = q /\ opened.job = s.job
  BY <1>2, <1>3 DEF Stream
<1>. HIDE DEF opened
<1>5. streams' \in Seq(Stream) /\ Range(streams') = OtherStreams(k) \cup {opened}
  BY <1>1, <1>4, TheStreams
<1>6. Typed'
  BY <1>1, <1>5 DEF Typed, server, client
<1>7. Hears'
  BY <1>1, <1>2, <1>4, <1>5 DEF JobsInv, Hears
<1>8. \A j : ToCome(j)' <=> ToCome(j)
  BY <1>1 DEF ToCome, server
<1>9. s.queue # <<>> => q # <<>>
  BY <1>1, <1>2 DEF JobsInv, Hears, q
<1>10. Waits'
  <2>1. SUFFICES ASSUME calm, NEW j \in Jobs, job[j] = "installing"
                 PROVE  \E x \in Range(streams') : Hearing(x, j)'
    BY <1>1 DEF Waits, client
  <2>2. PICK x \in Range(streams) : Hearing(x, j)
    BY <1>1, <2>1 DEF JobsInv, Waits
  <2>3. CASE x = s
    BY <1>4, <1>5, <1>8, <1>9, <2>2, <2>3 DEF Hearing
  <2>4. CASE x # s
    BY <1>2, <1>5, <1>8, <2>2, <2>4 DEF Hearing
  <2>. QED
    BY <2>3, <2>4
<1>11. Dones'
  <2>1. \A j \in Jobs : Tells(j)' => Tells(j)
    BY <1>1, <1>2, <1>4, <1>5 DEF Tells, client, q
  <2>. QED
    BY <1>1, <2>1 DEF JobsInv, Dones, IsThere, server
<1>. QED
  BY <1>1, <1>6, <1>7, <1>10, <1>11, JobsStep DEF JobsInv, client

(* A stream that closes hides its queue, and changes what one job is.      *)
LEMMA Closes ==
  ASSUME IInv, NEW k \in DOMAIN streams, NEW event \in {"done", "error"},
         streams' = Close(k) \/ streams' = RemoveAt(streams, k),
         job' = [job EXCEPT ![streams[k].job] = event],
         event = "done" => Tells(streams[k].job),
         UNCHANGED <<server, history, posts, models, calm>>
  PROVE  /\ streams' \in Seq(Stream) /\ job' \in [Jobs -> JobStates] /\ JobsInv'
         /\ \A j \in Jobs : job'[j] = "done" =>
                              job[j] = "done" \/ (event = "done" /\ j = streams[k].job)
<1>. DEFINE s == streams[k]
            none == <<>>
            closed == [s EXCEPT !.phase = "closed", !.queue = none]
<1>1. Typed /\ JobsInv /\ job \in [Jobs -> JobStates]
  BY DEF IInv, Typed
<1>2. s \in Stream /\ Range(streams) = OtherStreams(k) \cup {s}
  BY <1>1, TheStreams
<1>3. none \in Seq(Events) /\ Range(none) = {} /\ s.job \in Jobs
  BY <1>2, StreamFields DEF Range
<1>4. streams' = [streams EXCEPT ![k] = closed] \/ streams' = RemoveAt(streams, k)
  BY DEF Close
<1>. HIDE DEF s, none
<1>5. closed \in Stream /\ closed.phase = "closed" /\ closed.queue = none
  BY <1>2, <1>3 DEF Stream
<1>. HIDE DEF closed
<1>6. /\ streams' \in Seq(Stream) /\ OtherStreams(k) \subseteq Range(streams')
      /\ Range(streams') \subseteq OtherStreams(k) \cup {closed}
  <2>1. CASE streams' = [streams EXCEPT ![k] = closed]
    BY <1>1, <1>5, <2>1, TheStreams
  <2>2. CASE streams' = RemoveAt(streams, k)
    BY <1>1, <2>2, TheStreams
  <2>. QED
    BY <1>4, <2>1, <2>2
<1>7. /\ job' \in [Jobs -> JobStates] /\ job'[s.job] = event
      /\ \A j \in Jobs : j # s.job => job'[j] = job[j]
  BY <1>1, <1>3 DEF JobStates, s
<1>8. Hears'
  BY <1>1, <1>2, <1>5, <1>6 DEF JobsInv, Hears
<1>9. \A j : ToCome(j)' <=> ToCome(j)
  BY DEF ToCome, server
<1>10. Waits'
  <2>1. SUFFICES ASSUME calm, NEW j \in Jobs, job'[j] = "installing"
                 PROVE  \E x \in Range(streams') : Hearing(x, j)'
    BY DEF Waits
  <2>2. j # s.job /\ job[j] = "installing"
    BY <1>7, <2>1
  <2>3. PICK x \in Range(streams) : Hearing(x, j)
    BY <1>1, <2>1, <2>2 DEF JobsInv, Waits
  <2>. QED
    BY <1>2, <1>6, <1>9, <2>2, <2>3 DEF Hearing
<1>11. Dones'
  <2>1. ASSUME NEW j \in Jobs, Tells(j)' PROVE Tells(j)
    <3>1. \A x \in Range(streams') : "done" \in Range(x.queue) => x \in Range(streams)
      BY <1>2, <1>3, <1>5, <1>6
    <3>2. job'[j] = "done" => job[j] = "done" \/ Tells(j)
      BY <1>7, <2>1 DEF s
    <3>. QED
      BY <2>1, <3>1, <3>2 DEF Tells
  <2>. QED
    BY <1>1, <2>1 DEF JobsInv, Dones, IsThere, server
<1>. QED
  BY <1>6, <1>7, <1>8, <1>10, <1>11 DEF JobsInv, s

LEMMA EventStep ==
  ASSUME IInv, NEW k \in DOMAIN streams, StreamEvent(k)
  PROVE  IInv'
<1>. DEFINE j == streams[k].job
            q == streams[k].queue
            event == Head(q)
<1>1. /\ Typed /\ PageInv /\ streams[k] \in Stream /\ streams[k] \in Range(streams)
      /\ j \in Jobs /\ q \in Seq(Events) /\ q # <<>>
      /\ streams' = Close(k) /\ job' = [job EXCEPT ![j] = event]
      /\ UNCHANGED <<server, history, posts, models, acts, calm>>
  BY TheStreams, StreamFields DEF IInv, StreamEvent
<1>2. event \in {"done", "error"} /\ event \in Range(q)
  BY <1>1, RangeHeadTail DEF Events
<1>3. event = "done" => Tells(j)
  BY <1>1, <1>2 DEF Tells
<1>. HIDE DEF event
<1>4. /\ streams' \in Seq(Stream) /\ job' \in [Jobs -> JobStates] /\ JobsInv'
      /\ \A i \in Jobs : job'[i] = "done" => job[i] = "done" \/ (event = "done" /\ i = j)
  BY <1>1, <1>2, <1>3, Closes
<1>5. Typed' <=> ui' \in UI /\ pending' \in Seq(Requests)
  BY <1>1, <1>4 DEF Typed, server
<1>6. CASE event = "error" /\ UNCHANGED <<ui, pending>>
  BY <1>1, <1>4, <1>5, <1>6, JobsStep DEF Typed
<1>7. CASE event = "done" /\ j = "model" /\ pending' = Append(pending, Request("models", "none"))
           /\ UNCHANGED ui
  <2>. DEFINE r == Request("models", "none")
  <2>1. "models" \in Kinds /\ "none" \in Args("models") /\ "models" \notin PathKinds
    BY KindsAre DEF PathKinds
  <2>2. r.kind = "models" /\ r.reply = Null
    BY <2>1, NewRequest
  <2>3. pending' \in Seq(Requests) /\ Range(pending') = Range(pending) \cup {r}
    BY <1>1, <1>7, <2>1, Asks
  <2>. HIDE DEF r
  <2>4. Asked \subseteq Asked' /\ <<"models", Null>> \in Asked'
    BY <2>2, <2>3 DEF Asked
  <2>5. Typed'
    BY <1>1, <1>5, <1>7, <2>3 DEF Typed
  <2>6. DialogOpen' /\ MissingIsPolled'
    BY <1>1, <1>7 DEF PageInv, DialogOpen, MissingIsPolled, ToolsSectionShown,
                      AllRequiredInstalled, Installed, View, MissingRequired, UpdateBanner
  <2>7. PathsMine' /\ DialogWaits'
    BY <1>1, <1>7, <2>1, <2>2, <2>3 DEF PageInv, PathsMine, DialogWaits, IsPath
  <2>8. StatusAsked'
    BY <1>1, <1>7, <2>4 DEF PageInv, StatusAsked
  <2>9. SeenTools'
    <3>1. \A t \in Tools : job'[t] = "done" => job[t] = "done"
      BY <1>4, <1>7 DEF Tools, Jobs
    <3>. QED
      BY <1>1, <1>7, <2>4, <3>1 DEF IInv, SeenInv, SeenTools, Listed
  <2>10. SeenModel'
    BY <2>4 DEF SeenModel
  <2>. QED
    BY <1>4, <2>5, <2>6, <2>7, <2>8, <2>9, <2>10 DEF IInv, PageInv, SeenInv
<1>8. CASE event = "done" /\ j \in Tools /\ FetchStatus("status", "none")
  <2>1. /\ ui' \in UI /\ pending' \in Seq(Requests) /\ PageInv'
        /\ ui'.tools = ui.tools /\ Asked \subseteq Asked' /\ <<"status", Null>> \in Asked'
    BY <1>1, <1>8, Fetches
  <2>2. SeenTools'
    BY <2>1 DEF SeenTools, Lists
  <2>3. job'["model"] = "done" => job["model"] = "done"
    BY <1>4, <1>8 DEF Tools, Jobs
  <2>4. SeenModel'
    BY <1>1, <2>1, <2>3 DEF IInv, SeenInv, SeenModel
  <2>. QED
    BY <1>4, <1>5, <2>1, <2>2, <2>4 DEF IInv, SeenInv
<1>9. \/ event = "error" /\ UNCHANGED <<ui, pending>>
      \/ /\ event = "done" /\ j = "model"
         /\ pending' = Append(pending, Request("models", "none"))
         /\ UNCHANGED ui
      \/ event = "done" /\ j \in Tools /\ FetchStatus("status", "none")
  BY DEF StreamEvent, event
<1>. QED
  BY <1>6, <1>7, <1>8, <1>9

LEMMA LostStep ==
  ASSUME IInv, NEW k \in DOMAIN streams, StreamLost(k)
  PROVE  IInv'
<1>1. /\ Typed /\ acts' \in 0 .. MaxActs
      /\ streams' = Close(k) \/ streams' = RemoveAt(streams, k)
      /\ job' = [job EXCEPT ![streams[k].job] = "error"]
      /\ UNCHANGED <<server, history, posts, ui, models, pending, calm>>
  BY OneMore DEF IInv, Typed, StreamLost
<1>2. /\ streams' \in Seq(Stream) /\ job' \in [Jobs -> JobStates] /\ JobsInv'
      /\ \A j \in Jobs : job'[j] = "done" => job[j] = "done"
  BY <1>1, Closes
<1>3. Typed'
  BY <1>1, <1>2 DEF Typed, server
<1>. QED
  BY <1>1, <1>2, <1>3, JobsStep

(* The last listener takes the history with it, and with it the queue of a *)
(* stream that counted on it: then nothing more is promised.               *)
LEMMA CancelStep ==
  ASSUME IInv, NEW k \in DOMAIN streams, CancelStream(k)
  PROVE  IInv'
<1>. DEFINE j == streams[k].job
            left == RemoveAt(streams, k)
            last == \A n \in DOMAIN left : left[n].job = j => left[n].phase = "connecting"
            none == <<>>
            Left(s) == IF last /\ s.job = j THEN [s EXCEPT !.queue = none] ELSE s
<1>1. /\ Typed /\ JobsInv /\ streams[k] \in Stream /\ j \in Jobs
      /\ history \in [Jobs -> Seq(Events)]
      /\ Range(streams) = OtherStreams(k) \cup {streams[k]}
      /\ left \in Seq(Stream) /\ Range(left) = OtherStreams(k)
  BY TheStreams, StreamFields DEF IInv, Typed
<1>2. /\ streams[k].phase = "closed"
      /\ history' = (IF last THEN [history EXCEPT ![j] = none] ELSE history)
      /\ streams' = [n \in DOMAIN left |-> Left(left[n])]
      /\ calm' = (calm /\ \A n \in DOMAIN left : (last /\ left[n].job = j) => left[n].queue = none)
      /\ UNCHANGED <<server, posts, client, acts>>
  BY DEF CancelStream
<1>3. none \in Seq(Events) /\ none = <<>> /\ Range(none) = {}
  BY DEF Range
<1>. HIDE DEF j, left, last, none
<1>4. ASSUME NEW s \in Stream
      PROVE  /\ Left(s) \in Stream /\ Left(s).job = s.job /\ Left(s).phase = s.phase
             /\ Left(s) = s \/ Left(s).queue = none
             /\ (last /\ s.job = j) => Left(s).queue = none
  BY <1>3 DEF Stream
<1>. HIDE DEF Left
<1>5. streams' \in Seq(Stream) /\ Range(streams') = {Left(s) : s \in Range(left)}
  <2>. DEFINE t == streams'
  <2>1. t = [n \in DOMAIN left |-> Left(left[n])]
    BY <1>2
  <2>. HIDE DEF t
  <2>2. t = [n \in DOMAIN left |-> t[n]] /\ left \in Seq(Stream)
    BY <1>1, <2>1
  <2>3. \A n \in DOMAIN left : t[n] = Left(left[n]) /\ t[n] \in Stream
    BY <1>4, <2>1, <2>2
  <2>4. t \in Seq(Stream) /\ Range(t) = {t[n] : n \in DOMAIN left}
    BY <2>2, <2>3, SequenceOf
  <2>5. Range(t) = {Left(s) : s \in Range(left)}
    BY <2>3, <2>4 DEF Range
  <2>. QED
    BY <2>4, <2>5 DEF t
<1>6. Range(left) \subseteq Stream /\ Range(left) \subseteq Range(streams)
  BY <1>1, RangeIn
<1>7. /\ history' \in [Jobs -> Seq(Events)]
      /\ \A i \in Jobs : history'[i] = history[i] \/ (last /\ i = j /\ history'[i] = none)
  BY <1>1, <1>2, <1>3
<1>8. Typed'
  BY <1>1, <1>2, <1>5, <1>7 DEF Typed, server, client
<1>9. Hears'
  <2>1. SUFFICES ASSUME NEW s \in Range(left), Left(s).phase = "connecting", Left(s).queue # <<>>
                 PROVE  history'[Left(s).job] # <<>>
    BY <1>5 DEF Hears
  <2>2. /\ Left(s).job = s.job /\ s.job \in Jobs /\ Left(s).phase = s.phase
        /\ ~(last /\ s.job = j) /\ Left(s) = s
    BY <1>3, <1>4, <1>6, <2>1, StreamFields
  <2>3. history[s.job] # <<>>
    BY <1>1, <1>6, <2>1, <2>2 DEF JobsInv, Hears
  <2>. QED
    BY <1>7, <2>2, <2>3
<1>10. Waits'
  <2>1. SUFFICES ASSUME calm', NEW i \in Jobs, job[i] = "installing"
                 PROVE  \E x \in Range(streams') : Hearing(x, i)'
    BY <1>2 DEF Waits, client
  <2>2. PICK s \in Range(streams) : Hearing(s, i)
    BY <1>1, <1>2, <2>1 DEF JobsInv, Waits
  <2>3. s \in Range(left)
    BY <1>1, <1>2, <2>2 DEF Hearing
  <2>4. Left(s) \in Range(streams') /\ Left(s).job = s.job /\ Left(s).phase = s.phase
    BY <1>4, <1>5, <1>6, <2>3
  <2>5. Left(s).queue = s.queue
    <3>1. PICK n \in DOMAIN left : s = left[n]
      BY <2>3 DEF Range
    <3>2. (last /\ s.job = j) => s.queue = none
      BY <1>2, <2>1, <3>1
    <3>. QED
      BY <1>4, <1>6, <2>3, <3>2 DEF Left
  <2>6. ToCome(i)' <=> ToCome(i)
    BY <1>2 DEF ToCome, server
  <2>. QED
    BY <2>2, <2>4, <2>5, <2>6 DEF Hearing
<1>11. Dones'
  <2>1. ASSUME NEW i \in Jobs, Tells(i)' PROVE Tells(i)
    <3>1. \A x \in Range(streams') : "done" \in Range(x.queue) => x \in Range(streams)
      BY <1>3, <1>4, <1>5, <1>6
    <3>2. "done" \in Range(history'[i]) => "done" \in Range(history[i])
      BY <1>3, <1>7
    <3>. QED
      BY <1>2, <2>1, <3>1, <3>2 DEF Tells, client
  <2>. QED
    BY <1>1, <1>2, <2>1 DEF JobsInv, Dones, IsThere, server
<1>. QED
  BY <1>2, <1>8, <1>9, <1>10, <1>11, JobsStep DEF JobsInv, client

-----------------------------------------------------------------------------
(* Every step keeps the invariant. *)

LEMMA NextIInv == IInv /\ [Next]_vars => IInv'
<1>. SUFFICES ASSUME IInv, [Next]_vars PROVE IInv'
  OBVIOUS
<1>1. CASE UNCHANGED vars
  <2>1. UNCHANGED <<server, history, streams, posts, client, acts, calm>>
    BY <1>1 DEF vars, hub
  <2>2. Typed' /\ JobsInv'
    BY <2>1, JobsKept DEF IInv, Typed, server, client
  <2>. QED
    BY <2>1, <2>2, JobsStep DEF client
<1>2. CASE Poll \/ BackendTimeout
  BY <1>2, PageStep
<1>3. CASE Gesture
  <2>1. ASSUME NEW t \in Tools, StartInstall(t) PROVE IInv'
    BY <2>1, StartStep DEF StartInstall, Jobs
  <2>2. CASE DownloadWhisperModel
    BY <2>2, StartStep DEF DownloadWhisperModel, Jobs
  <2>. QED
    BY <1>3, <2>1, <2>2, PageStep, DialogStep DEF Gesture
<1>4. CASE Installation
  <2>1. ASSUME NEW j \in Jobs, NEW of \in {"fresh", "stale"}, NEW event \in Events,
               JobEnds(j, of, event)
        PROVE  IInv'
    BY <2>1, EndStep
  <2>2. ASSUME NEW j \in Jobs, PostInstall(j) \/ PostFails(j) PROVE IInv'
    BY <2>2, PostStep
  <2>3. ASSUME NEW k \in DOMAIN streams,
               GetInstallStream(k) \/ StreamEvent(k) \/ StreamLost(k) \/ CancelStream(k)
        PROVE  IInv'
    BY <2>3, ListenStep, EventStep, LostStep, CancelStep
  <2>. QED
    BY <1>4, <2>1, <2>2, <2>3 DEF Installation
<1>5. ASSUME NEW i \in DOMAIN pending, Answer(i) PROVE IInv'
  <2>1. ASSUME NEW available \in BOOLEAN, CheckAnswered(i, available) PROVE IInv'
    BY <2>1, CheckStep
  <2>. QED
    BY <1>5, <2>1, ServerStep, StatusStep, ModelsStep, PathStep DEF Answer
<1>. QED
  BY <1>1, <1>2, <1>3, <1>4, <1>5 DEF Next

LEMMA SpecIInv == Spec => []IInv
BY InitIInv, NextIInv, PTL DEF Spec

-----------------------------------------------------------------------------

(* What the server, the hub, the store and the requests in flight hold is  *)
(* of the kinds the code gives them: a request of a path is of a tool, and *)
(* only whisper is ever answered to be there without its model             *)
(* (setupStore.ts:20-73, configurator.go:58-116).                          *)
THEOREM TypeCorrect == Spec => []TypeOK
<1>1. IInv => TypeOK
  BY TypedIs DEF IInv
<1>. QED
  BY <1>1, SpecIInv, PTL

(* Whatever the screen shows as being done still is: a status that loads   *)
(* and a path that is stored have their request in flight, and a tool that *)
(* is shown as being installed has a stream that will hear of its job      *)
(* (setupStore.ts:75-151, hub.go:46-111).                                  *)
THEOREM WaitingIsServed == Spec => []WaitingEnds
<1>1. ASSUME IInv PROVE WaitingEnds
  <2>1. ui.loading => InFlight({"status", "sync"})
    BY <1>1 DEF IInv, PageInv, StatusAsked, Asked, Range, InFlight
  <2>2. (ui.dialog # Null /\ ui.dialog.loading) =>
          \E i \in DOMAIN pending : pending[i].kind \in {"path", "clear"} /\ pending[i].mine
    BY <1>1 DEF IInv, PageInv, DialogWaits, IsPath, PathKinds, Range
  <2>3. ASSUME calm, NEW j \in Jobs, job[j] = "installing"
        PROVE  \E k \in Listening(j) : ToCome(j) \/ ToHear(k)
    <3>1. PICK s \in Range(streams) : Hearing(s, j)
      BY <1>1, <2>3 DEF IInv, JobsInv, Waits
    <3>2. PICK k \in DOMAIN streams : s = streams[k]
      BY DEF Range
    <3>. QED
      BY <3>1, <3>2 DEF Hearing, Listening, ToHear
  <2>. QED
    BY <2>1, <2>2, <2>3 DEF WaitingEnds
<1>. QED
  BY <1>1, SpecIInv, PTL

(* A row that says "Installed" is right: once the status asked for after   *)
(* an installation is known, the tool is listed as found, whisper is no    *)
(* longer shown as missing, and a model that was downloaded is listed so   *)
(* (ToolRow.tsx:48-55, setupStore.ts:102-115, 227-236).                    *)
THEOREM InstalledIsListed == Spec => []DoneIsSeen
<1>1. ASSUME IInv PROVE DoneIsSeen
  <2>1. ui \in UI
    BY <1>1 DEF IInv, Typed
  <2>2. ASSUME calm, ui.tools # Null, ~ui.error, ~InFlight({"status", "sync"}),
               NEW t \in Tools, job[t] = "done"
        PROVE  ui.tools[t] # "missing"
    <3>1. \A a \in Asked : a[1] \notin {"status", "sync"}
      BY <2>2 DEF InFlight, Asked, Range
    <3>. QED
      BY <1>1, <2>2, <3>1 DEF IInv, SeenInv, SeenTools, Lists, Listed
  <2>3. ASSUME calm, ui.tools # Null, ~ui.error, ~InFlight({"status", "sync"}),
               Badge = "installed"
        PROVE  Installed(ui, "tool")
    <3>1. CASE job["tool"] = "done"
      <4>1. ui.tools["tool"] \in Presence /\ ui.tools["tool"] # "no_model"
        BY <2>1, <2>3 DEF UI, Statuses, Tools
      <4>2. ui.tools["tool"] # "missing"
        BY <2>2, <2>3, <3>1 DEF Tools
      <4>. QED
        BY <4>1, <4>2 DEF Installed, Presence
    <3>2. CASE job["tool"] # "done"
      BY <2>3, <3>2 DEF Badge
    <3>. QED
      BY <3>1, <3>2
  <2>4. ASSUME calm, ui.tools # Null, ~ui.error, ~InFlight({"status", "sync"}),
               job["whisper"] = "done"
        PROVE  WhisperBadge \in {"installed", "no_model"}
    <3>1. BinaryPresent
      BY <2>2, <2>4 DEF BinaryPresent, Tools
    <3>. QED
      BY <2>4, <3>1 DEF WhisperBadge
  <2>5. ASSUME calm, job["model"] = "done", ~InFlight({"models"}) PROVE models = TRUE
    <3>1. \A a \in Asked : a[1] # "models"
      BY <2>5 DEF InFlight, Asked, Range
    <3>. QED
      BY <1>1, <2>5, <3>1 DEF IInv, SeenInv, SeenModel
  <2>. QED
    BY <2>3, <2>4, <2>5 DEF DoneIsSeen
<1>. QED
  BY <1>1, SpecIInv, PTL

(* While a required tool is not known to be there the status is being      *)
(* asked for again, or will be in half a minute                            *)
(* (useSetupCheck.ts:52-70).                                               *)
THEOREM MissingIsAskedFor == Spec => []MissingIsPolled
<1>1. IInv => MissingIsPolled
  BY DEF IInv, PageInv
<1>. QED
  BY <1>1, SpecIInv, PTL
===============================================================================
