-------------------------------- MODULE Setup --------------------------------
(***************************************************************************)
(* What stands between the start of the program and its pages: the gate    *)
(* that asks for the tools that are missing, the section of the settings   *)
(* that shows the same rows, the store that follows the installations over *)
(* event streams, and of the server the configurator, the jobs and the     *)
(* part of the hub they use.  Two tools stand for all of them: "tool", and *)
(* "whisper", which needs a model as well; "model" is the job that         *)
(* downloads it.  Log lines, the hardware and the versions are left out,   *)
(* and so is the gate's Continue: it needs what makes the gate go away.    *)
(***************************************************************************)
EXTENDS Naturals, Sequences, SequencesExt

CONSTANTS
  Starts,       \* what may be installed, and at a path of the user's
  Elsewhere,    \* what "Sync from computer" finds
  MaxActs,      \* the user's gestures, failures and lost streams (bound)
  Null,
  Refused       \* the answer to a request that failed

Tools == {"tool", "whisper"}
Jobs  == Tools \cup {"model"}

ASSUME SetupConstants == /\ Starts \subseteq [disk : SUBSET Jobs, custom : SUBSET Tools]
                         /\ Elsewhere \subseteq Jobs /\ MaxActs \in Nat

(* A page without a dialog shows none.                                     *)
ASSUME NullIsNothing == Null \notin [tool : Tools, loading : BOOLEAN]

VARIABLES
  disk,      \* server: what is installed
  custom,    \* server: the tools with a path of the user's
  known,     \* server: what the validators found
  running,   \* server: the jobs, and those of validators that were replaced
  history,   \* hub: the last events of each job that are kept
  streams,   \* the event streams, at both ends
  posts,     \* the requests for jobs in flight
  ui,        \* the setup store and the components
  job,       \* store: what each job is shown as
  models,    \* store: is the model downloaded?  Null: not heard yet
  pending,   \* the other requests in flight
  acts,
  calm       \* history: nothing was lost or overtaken

server == <<disk, custom, known, running>>
hub    == <<history, streams>>
client == <<ui, job, models, pending>>
vars   == <<server, hub, posts, client, acts, calm>>

Presence  == {"missing", "no_model", "installed", "custom"}
JobStates == {"idle", "installing", "done", "error"}
Events    == {"done", "error"}
Stream    == [job : Jobs, phase : {"connecting", "open", "closed"}, queue : Seq(Events)]

(* `arg`: what the page does when it is answered, or the tool of a path;   *)
(* `mine`: the dialog that asked is still there.                           *)
Request(kind, arg) == [kind |-> kind, arg |-> arg, reply |-> Null, mine |-> TRUE]

(* Only whisper can be there without a model, which no validator knows.    *)
Found    == [Tools -> Presence \ {"no_model"}]
Statuses == {answer \in [Tools -> Presence] : answer["tool"] # "no_model"}

PathKinds == {"path", "clear"}
Kinds     == {"status", "sync", "check", "models"} \cup PathKinds
Replies(kind) ==
  {Null, Refused} \cup (CASE kind \in {"status", "sync"} -> Statuses
                         [] kind = "models"              -> BOOLEAN
                         [] kind \in PathKinds           -> {"ok"}
                         [] OTHER                        -> {})

IsRequest(r) ==
  r \in [kind : Kinds, arg : IF r.kind \in PathKinds THEN Tools ELSE {"none", "all", "check"},
         reply : Replies(r.kind), mine : BOOLEAN]

UI == [tools : {Null} \cup Statuses, newer : BOOLEAN, loading : BOOLEAN, error : BOOLEAN,
       timedOut : BOOLEAN, polling : BOOLEAN, checked : BOOLEAN, dismissed : BOOLEAN,
       settings : BOOLEAN, dialog : {Null} \cup [tool : Tools, loading : BOOLEAN]]

Resolve(d, c) ==
  [t \in Tools |-> IF t \in c THEN "custom" ELSE IF t \in d THEN "installed" ELSE "missing"]

TypeOK ==
  /\ disk \subseteq Jobs /\ custom \subseteq Tools /\ known \in Found
  /\ running \in [Jobs -> [fresh : Nat, stale : Nat]]
  /\ history \in [Jobs -> Seq(Events)] /\ streams \in Seq(Stream)
  /\ posts \in [Jobs -> Nat]
  /\ ui \in UI
  /\ job \in [Jobs -> JobStates] /\ models \in {Null} \cup BOOLEAN
  /\ pending \in Seq(Range(pending)) /\ \A r \in Range(pending) : IsRequest(r)
  /\ acts \in 0 .. MaxActs /\ calm \in BOOLEAN

May == acts < MaxActs
Act == May /\ acts' = acts + 1
-----------------------------------------------------------------------------
(* The screens.                                                            *)

Installed(u, t) == u.tools[t] \in {"installed", "custom"}
AllRequiredInstalled(u) == u.tools # Null /\ \A t \in Tools : Installed(u, t)
MissingRequired(u) == u.tools # Null /\ \E t \in Tools : ~Installed(u, t)
UpdateBanner(u) == u.newer /\ ~u.dismissed

View(u) ==
  CASE u.loading /\ ~u.timedOut              -> "spinner"
    [] u.loading /\ u.timedOut               -> "starting"
    [] ~u.loading /\ u.error /\ u.tools = Null -> "offline"
    [] ~u.loading /\ MissingRequired(u)       -> "gate"
    [] OTHER -> IF UpdateBanner(u) THEN "banner" ELSE "app"

(* What a row says of its tool.                                            *)
Badge ==
  CASE job["tool"] = "installing" -> "installing"
    [] job["tool"] = "done"       -> "installed"
    [] job["tool"] = "error"      -> "error"
    [] OTHER -> IF Installed(ui, "tool") THEN "installed" ELSE "missing"

BinaryPresent == ui.tools["whisper"] # "missing"
WhisperBadge ==
  IF job["whisper"] = "installing" THEN "installing"
  ELSE IF BinaryPresent
  THEN IF Installed(ui, "whisper") THEN "installed" ELSE "no_model"
  ELSE IF job["whisper"] = "error" THEN "error" ELSE "missing"

ToolsSectionShown(u) == u.settings /\ View(u) \in {"app", "banner"}
RowsShown == ui.dialog = Null /\ (View(ui) = "gate" \/ ToolsSectionShown(ui))

(* What a screen asks for when it is mounted, which is whenever another    *)
(* was there before; only "tool" has updates to check for.                 *)
CheckUpdates(u) == IF u.tools # Null /\ Installed(u, "tool")
                     THEN <<Request("check", "none")>> ELSE <<>>
ModelsAndUpdates(u) == <<Request("models", "none")>> \o CheckUpdates(u)
GateMounted(u) == IF View(u) = "gate" THEN ModelsAndUpdates(u) ELSE <<>>
ToolsSectionMounted(u) == IF ToolsSectionShown(u) THEN ModelsAndUpdates(u) ELSE <<>>

(* Mutant: nothing is asked for while nothing is known.                    *)
PollingOfTheGate(u) == IF u.loading = ui.loading THEN ui.polling
                       ELSE ~u.loading /\ MissingRequired(u)

(* The effects that hang on `loading`, and the one check of a session.     *)
Polling(u) == IF u.loading = ui.loading THEN ui.polling
              ELSE ~u.loading /\ ~AllRequiredInstalled(u)
TimedOut(u) == u.loading /\ u.timedOut
FirstCheck(u) == ~u.loading /\ ~u.checked /\ AllRequiredInstalled(u)

Render(u, requests) ==
  LET mounted == <<View(u), u.settings>> # <<View(ui), ui.settings>>
  IN  /\ ui' = [u EXCEPT !.polling = Polling(u), !.timedOut = TimedOut(u),
                         !.checked = @ \/ FirstCheck(u),
                         !.dialog = IF mounted THEN Null ELSE @]
      /\ pending' = [k \in DOMAIN requests |->
                       [requests[k] EXCEPT !.mine = @ /\ ~mounted]]
                    \o (IF mounted THEN GateMounted(u) \o ToolsSectionMounted(u) ELSE <<>>)
                    \o (IF FirstCheck(u) THEN CheckUpdates(u) ELSE <<>>)

(* Opened on the settings, the first render mounts them before there is    *)
(* any status, and both they and the provider ask for it.                  *)
Init ==
  /\ \E start \in Starts : disk = start.disk /\ custom = start.custom
  /\ known = Resolve(disk, custom)
  /\ running = [j \in Jobs |-> [fresh |-> 0, stale |-> 0]]
  /\ history = [j \in Jobs |-> <<>>] /\ streams = <<>>
  /\ posts = [j \in Jobs |-> 0]
  /\ \E settings \in BOOLEAN :
       /\ ui = [tools |-> Null, newer |-> FALSE, loading |-> TRUE, error |-> FALSE,
                timedOut |-> FALSE, polling |-> FALSE, checked |-> FALSE,
                dismissed |-> FALSE, settings |-> settings, dialog |-> Null]
       /\ pending = (IF settings THEN <<Request("status", "all")>> ELSE <<>>)
                    \o <<Request("status", "none")>>
  /\ job = [j \in Jobs |-> "idle"] /\ models = Null
  /\ acts = 0 /\ calm = TRUE
-----------------------------------------------------------------------------
(* Asking for the status.                                                  *)

Loading(u) == [u EXCEPT !.loading = TRUE, !.error = FALSE]
FetchStatus(kind, arg) == Render(Loading(ui), Append(pending, Request(kind, arg)))

Poll ==
  /\ ui.polling
  /\ FetchStatus("status", "none")
  /\ UNCHANGED <<server, hub, posts, job, models, acts, calm>>

BackendTimeout ==
  /\ ui.loading /\ ~ui.timedOut
  /\ Render([ui EXCEPT !.timedOut = TRUE], pending)
  /\ UNCHANGED <<server, hub, posts, job, models, acts, calm>>

Recheck ==
  /\ View(ui) = "gate"
  /\ Act
  /\ FetchStatus("status", "none")
  /\ UNCHANGED <<server, hub, posts, job, models, calm>>

SyncTools ==
  /\ View(ui) = "gate"
  /\ Act
  /\ FetchStatus("sync", "none")
  /\ UNCHANGED <<server, hub, posts, job, models, calm>>

RecheckInSettings ==
  /\ ToolsSectionShown(ui) /\ ui.dialog = Null
  /\ Act
  /\ FetchStatus("status", "check")
  /\ UNCHANGED <<server, hub, posts, job, models, calm>>

Status(k, d) ==
  [t \in Tools |-> IF t = "whisper" /\ k[t] # "missing" /\ "model" \notin d
                     THEN "no_model" ELSE k[t]]

Unanswered(i, kinds) == pending[i].kind \in kinds /\ pending[i].reply = Null
Answered(i, kinds) == pending[i].kind \in kinds /\ pending[i].reply # Null
Reply(i, answer) == pending' = [pending EXCEPT ![i].reply = answer]
Rest(i) == RemoveAt(pending, i)

GetStatus(i) ==
  /\ Unanswered(i, {"status"})
  /\ Reply(i, Status(known, disk))
  /\ UNCHANGED <<server, hub, posts, ui, job, models, acts, calm>>

(* New validators look for the tools again; a job that runs keeps the old. *)
PostSync(i) ==
  /\ Unanswered(i, {"sync"})
  /\ disk' = disk \cup Elsewhere
  /\ known' = Resolve(disk', custom)
  /\ running' = [j \in Jobs |-> [fresh |-> 0, stale |-> running[j].fresh + running[j].stale]]
  /\ Reply(i, Status(known', disk'))
  /\ UNCHANGED <<custom, hub, posts, ui, job, models, acts, calm>>

Fail(i) ==
  /\ Unanswered(i, {"status", "sync", "models", "path", "clear"})
  /\ Act
  /\ Reply(i, Refused)
  /\ UNCHANGED <<server, hub, posts, ui, job, models, calm>>

(* What the code does after the await, on the tools it finds then.         *)
Continue(arg, u) ==
  CASE arg = "check" -> CheckUpdates(u)
    [] arg = "all"   -> ModelsAndUpdates(u)
    [] OTHER          -> <<>>

Forgets(answer) ==
  ui.tools # Null /\ \E t \in Tools : /\ answer[t] \in {"missing", "no_model"}
                                      /\ ui.tools[t] \notin {"missing", answer[t]}

StatusAnswered(i) ==
  /\ Answered(i, {"status", "sync"})
  /\ LET answer == pending[i].reply
         u == IF answer = Refused THEN [ui EXCEPT !.loading = FALSE, !.error = TRUE]
              ELSE [ui EXCEPT !.loading = FALSE, !.tools = answer, !.newer = FALSE]
     IN  /\ Render(u, Rest(i) \o Continue(pending[i].arg, u))
         /\ calm' = (calm /\ (answer = Refused \/ ~Forgets(answer)))
  /\ UNCHANGED <<server, hub, posts, job, models, acts>>

(* The answer depends on what has been released upstream; without one      *)
(* nothing changes.                                                        *)
CheckAnswered(i, available) ==
  /\ pending[i].kind = "check"
  /\ Render([ui EXCEPT !.newer = IF ui.tools = Null THEN @ ELSE available], Rest(i))
  /\ UNCHANGED <<server, hub, posts, job, models, acts, calm>>

GetWhisperModels(i) ==
  /\ Unanswered(i, {"models"})
  /\ Reply(i, "model" \in disk)
  /\ UNCHANGED <<server, hub, posts, ui, job, models, acts, calm>>

ModelsAnswered(i) ==
  /\ Answered(i, {"models"})
  /\ pending' = Rest(i)
  /\ models' = IF pending[i].reply = Refused THEN models ELSE pending[i].reply
  /\ calm' = (calm /\ pending[i].reply # Refused /\ (models = TRUE => models'))
  /\ UNCHANGED <<server, hub, posts, ui, job, acts>>
-----------------------------------------------------------------------------
(* Installations.                                                          *)

(* The stream is asked for first, and then the job.                        *)
Start(j) ==
  /\ job' = [job EXCEPT ![j] = "installing"]
  /\ streams' = Append(streams, [job |-> j, phase |-> "connecting", queue |-> <<>>])
  /\ posts' = [posts EXCEPT ![j] = @ + 1]

CanUpdate == ui.newer
CanInstallTool == \/ ~Installed(ui, "tool") /\ job["tool"] = "idle"
                  \/ job["tool"] = "error"
CanInstallWhisper == ~BinaryPresent /\ job["whisper"] \in {"idle", "error"}
CanDownload == /\ BinaryPresent
               /\ models = FALSE /\ job["model"] # "installing"

StartInstall(t) ==
  /\ RowsShown /\ ui.tools # Null
  /\ IF t = "tool" THEN CanUpdate \/ CanInstallTool ELSE CanInstallWhisper
  /\ Act
  /\ Start(t)
  /\ UNCHANGED <<server, history, ui, models, pending, calm>>

DownloadWhisperModel ==
  /\ RowsShown /\ ui.tools # Null
  /\ CanDownload
  /\ Act
  /\ Start("model")
  /\ UNCHANGED <<server, history, ui, models, pending, calm>>

PostInstall(j) ==
  /\ posts[j] > 0
  /\ posts' = [posts EXCEPT ![j] = @ - 1]
  /\ running' = [running EXCEPT ![j].fresh = @ + 1]
  /\ UNCHANGED <<disk, custom, known, hub, client, acts, calm>>

(* The failure is logged, and that is all.                                 *)
PostFails(j) ==
  /\ posts[j] > 0
  /\ Act
  /\ posts' = [posts EXCEPT ![j] = @ - 1]
  /\ calm' = FALSE
  /\ UNCHANGED <<server, hub, client>>

(* A stream that is not registered yet is not sent anything: its queue is  *)
(* what it counts on finding in the history.                               *)
Publish(j, event) ==
  /\ history' = [history EXCEPT ![j] = Append(@, event)]
  /\ streams' = [k \in DOMAIN streams |->
                   IF streams[k].job = j /\ streams[k].phase # "closed"
                     THEN [streams[k] EXCEPT !.queue = Append(@, event)]
                     ELSE streams[k]]

(* Only validators that are still in use tell what was installed.          *)
JobEnds(j, of, event) ==
  /\ running[j][of] > 0
  /\ running' = [running EXCEPT ![j][of] = @ - 1]
  /\ disk' = IF event = "done" THEN disk \cup {j} ELSE disk
  /\ known' = [t \in Tools |-> IF event = "done" /\ of = "fresh" /\ t = j
                                THEN "installed" ELSE known[t]]
  /\ Publish(j, event)
  /\ calm' = (calm /\ ~(event = "done" /\ of = "stale" /\ j \in Tools))
  /\ UNCHANGED <<custom, posts, client, acts>>

(* Mutant: a listener is sent what comes after it.                         *)
GetInstallStreamUnreplayed(k) ==
  /\ streams[k].phase = "connecting"
  /\ streams' = [streams EXCEPT ![k].phase = "open", ![k].queue = <<>>]
  /\ UNCHANGED <<server, history, posts, client, acts, calm>>

GetInstallStream(k) ==
  /\ streams[k].phase = "connecting"
  /\ streams' = [streams EXCEPT ![k].phase = "open", ![k].queue = history[streams[k].job]]
  /\ UNCHANGED <<server, history, posts, client, acts, calm>>

Close(k) == [streams EXCEPT ![k].phase = "closed", ![k].queue = <<>>]

(* Mutant: the status is not asked for again.                              *)
StreamEventUnchecked(k) ==
  /\ streams[k].phase = "open" /\ streams[k].queue # <<>>
  /\ streams' = Close(k)
  /\ job' = [job EXCEPT ![streams[k].job] = Head(streams[k].queue)]
  /\ UNCHANGED <<server, history, posts, ui, models, pending, acts, calm>>

StreamEvent(k) ==
  LET j == streams[k].job
      event == Head(streams[k].queue)
  IN  /\ streams[k].phase = "open" /\ streams[k].queue # <<>>
      /\ streams' = Close(k)
      /\ job' = [job EXCEPT ![j] = event]
      /\ \/ event = "error" /\ UNCHANGED <<ui, pending>>
         \/ /\ event = "done" /\ j = "model"
            /\ pending' = Append(pending, Request("models", "none"))
            /\ UNCHANGED ui
         \/ event = "done" /\ j \in Tools /\ FetchStatus("status", "none")
      /\ UNCHANGED <<server, history, posts, models, acts, calm>>

StreamLost(k) ==
  /\ streams[k].phase # "closed"
  /\ Act
  /\ streams' = IF streams[k].phase = "open" THEN Close(k) ELSE RemoveAt(streams, k)
  /\ job' = [job EXCEPT ![streams[k].job] = "error"]
  /\ UNCHANGED <<server, history, posts, ui, models, pending, calm>>

(* The server notices that a stream was closed.  The last listener takes   *)
(* the history with it.                                                    *)
CancelStream(k) ==
  LET j == streams[k].job
      left == RemoveAt(streams, k)
      last == \A n \in DOMAIN left : left[n].job = j => left[n].phase = "connecting"
      counting(n) == last /\ left[n].job = j
  IN  /\ streams[k].phase = "closed"
      /\ history' = IF last THEN [history EXCEPT ![j] = <<>>] ELSE history
      /\ streams' = [n \in DOMAIN left |->
                       IF counting(n) THEN [left[n] EXCEPT !.queue = <<>>] ELSE left[n]]
      /\ calm' = (calm /\ \A n \in DOMAIN left : counting(n) => left[n].queue = <<>>)
      /\ UNCHANGED <<server, posts, client, acts>>
-----------------------------------------------------------------------------
(* The pages, and the dialog for a path.                                   *)

Navigate ==
  /\ View(ui) \in {"app", "banner"} /\ ui.dialog = Null
  /\ Act
  /\ Render([ui EXCEPT !.settings = ~@], pending)
  /\ UNCHANGED <<server, hub, posts, job, models, calm>>

DismissBanner ==
  /\ View(ui) = "banner" /\ ui.dialog = Null
  /\ Act
  /\ Render([ui EXCEPT !.dismissed = TRUE], pending)
  /\ UNCHANGED <<server, hub, posts, job, models, calm>>

OpenPathDialog(t) ==
  /\ ToolsSectionShown(ui) /\ ui.dialog = Null /\ ui.tools # Null
  /\ Act
  /\ ui' = [ui EXCEPT !.dialog = [tool |-> t, loading |-> FALSE]]
  /\ UNCHANGED <<server, hub, posts, job, models, pending, calm>>

ClosePathDialog ==
  /\ ui.dialog # Null
  /\ ui' = [ui EXCEPT !.dialog = Null]
  /\ pending' = [k \in DOMAIN pending |-> [pending[k] EXCEPT !.mine = FALSE]]
  /\ UNCHANGED <<server, hub, posts, job, models, acts, calm>>

PathDialogAsks(kind) ==
  /\ ui.dialog # Null /\ ~ui.dialog.loading
  /\ ui' = [ui EXCEPT !.dialog.loading = TRUE]
  /\ pending' = Append(pending, Request(kind, ui.dialog.tool))
  /\ UNCHANGED <<server, hub, posts, job, models, acts, calm>>

HandleSave  == PathDialogAsks("path")
HandleClear == /\ ui.dialog # Null /\ ui.tools[ui.dialog.tool] = "custom"
               /\ PathDialogAsks("clear")

(* The path is stored for the validators to come; those there are do not   *)
(* change.                                                                 *)
PostCustomPath(i) ==
  /\ Unanswered(i, {"path"})
  /\ custom' = custom \cup {pending[i].arg}
  /\ Reply(i, "ok")
  /\ UNCHANGED <<disk, known, running, hub, posts, ui, job, models, acts, calm>>

DeleteCustomPath(i) ==
  /\ Unanswered(i, {"clear"})
  /\ custom' = custom \ {pending[i].arg}
  /\ Reply(i, "ok")
  /\ UNCHANGED <<disk, known, running, hub, posts, ui, job, models, acts, calm>>

PathAnswered(i) ==
  /\ Answered(i, {"path", "clear"})
  /\ IF pending[i].reply = "ok"
       THEN Render(Loading(ui), Append(Rest(i), Request("status", "none")))
       ELSE Render(IF pending[i].mine THEN [ui EXCEPT !.dialog.loading = FALSE] ELSE ui, Rest(i))
  /\ UNCHANGED <<server, hub, posts, job, models, acts, calm>>

Gesture ==
  \/ Recheck \/ SyncTools \/ RecheckInSettings \/ DownloadWhisperModel
  \/ \E t \in Tools : StartInstall(t) \/ OpenPathDialog(t)
  \/ Navigate \/ DismissBanner \/ ClosePathDialog \/ HandleSave \/ HandleClear

Answer(i) ==
  \/ GetStatus(i) \/ PostSync(i) \/ Fail(i) \/ StatusAnswered(i)
  \/ \E available \in BOOLEAN : CheckAnswered(i, available)
  \/ GetWhisperModels(i) \/ ModelsAnswered(i)
  \/ PostCustomPath(i) \/ DeleteCustomPath(i) \/ PathAnswered(i)

Installation ==
  \/ \E j \in Jobs : \/ PostInstall(j) \/ PostFails(j)
                     \/ \E of \in {"fresh", "stale"}, event \in Events : JobEnds(j, of, event)
  \/ \E k \in DOMAIN streams :
       GetInstallStream(k) \/ StreamEvent(k) \/ StreamLost(k) \/ CancelStream(k)

Next ==
  \/ Poll \/ BackendTimeout \/ Gesture \/ Installation
  \/ \E i \in DOMAIN pending : Answer(i)

Spec == Init /\ [][Next]_vars
-----------------------------------------------------------------------------
InFlight(kinds) == \E i \in DOMAIN pending : pending[i].kind \in kinds
Listening(j) == {k \in DOMAIN streams : streams[k].job = j /\ streams[k].phase # "closed"}
ToCome(j) == posts[j] + running[j].fresh + running[j].stale > 0
ToHear(k) == \/ streams[k].queue # <<>>
             \/ streams[k].phase = "connecting" /\ history[streams[k].job] # <<>>

(* Whatever the screen shows as being done still is: a status that loads   *)
(* and a path that is stored have their request in flight, and a tool that *)
(* is shown as being installed has a stream of its own and a job, or an    *)
(* end of one, that the stream will hear of.  The streams of one job share *)
(* a history that the last to leave deletes, a job may end before its      *)
(* stream is there, and the next may begin before the last stream left     *)
(* (setupStore.ts:75-151, hub.go:46-111).                                  *)
WaitingEnds ==
  /\ ui.loading => InFlight({"status", "sync"})
  /\ (ui.dialog # Null /\ ui.dialog.loading) =>
       \E i \in DOMAIN pending : pending[i].kind \in {"path", "clear"} /\ pending[i].mine
  /\ calm => \A j \in Jobs : job[j] = "installing" =>
                \E k \in Listening(j) : ToCome(j) \/ ToHear(k)

(* A row that says "Installed" is right: once the status asked for after   *)
(* an installation is known, the tool is listed as found, whisper is no    *)
(* longer shown as missing, and a model that was downloaded is listed so   *)
(* (ToolRow.tsx:48-55, setupStore.ts:102-115, 227-236).                    *)
DoneIsSeen ==
  calm =>
    /\ (ui.tools # Null /\ ~ui.error /\ ~InFlight({"status", "sync"})) =>
         /\ Badge = "installed" => Installed(ui, "tool")
         /\ job["whisper"] = "done" => WhisperBadge \in {"installed", "no_model"}
    /\ (job["model"] = "done" /\ ~InFlight({"models"})) => models = TRUE

(* While a required tool is not known to be there the status is being      *)
(* asked for again, or will be in half a minute, so that the gate and the  *)
(* screen for a server that is away can go by themselves                   *)
(* (useSetupCheck.ts:52-70).                                               *)
MissingIsPolled ==
  (calm /\ ~ui.loading /\ ~AllRequiredInstalled(ui)) => ui.polling
=============================================================================
