# AutoCut: a TLA+ model of the server's concurrent core and of its pages

AutoCut turns a video URL into clips and queues them for YouTube. A Go server
(`server/`) owns a SQLite database, background goroutines and external programs
(yt-dlp, whisper, ffmpeg); a Next.js application (`apps/web`) and an Electron
shell (`apps/desktop`) drive it over HTTP and server-sent events. This directory
models the parts where the order of steps decides whether it works: of the
server the pipeline service, the upload queue, the two fan-outs of events and
the authorization sessions; of the web application the pages that act on them,
with their stores, their requests in flight and their event streams. What only
computes or displays is left aside.

Paths below are relative to `server/internal/` unless they start with `apps/` or
`specs/`; `web/` stands for `apps/web/src/`.

## 1. Inventory

| component | state | operations | what is hard | what makes it correct |
|---|---|---|---|---|
| pipeline run service (`pipeline/service.go`, `database/pipeline_run_repo.go`, `processor/executor.go`) | rows of `pipeline_runs`; `cancelMap` in memory | Advance, ReviewClips, Redownload, Cancel; runDownload, runExecution, runClipGeneration | several requests on one row, goroutines that outlive the state they were started in, cancellation by a map shared by all of them, disconnects between two statements, restarts | no goroutine works outside its phase or twice, ended runs stay ended, unattended phases end |
| upload queue (`uploader/worker.go`, `uploader/youtube.go`, `database/upload_repo.go`, `api/handlers/queue_handler.go`, `confirmUpload`) | rows of `uploads`, files of `upload_queue/` | confirm, schedule, upload now, retry, delete; the worker's tick | two passes of the worker on one row, retry of a running upload, deletion during an upload, a crash between the upload and the row that records it | a clip is published no more often than asked, what is published is recorded, a due row is tried |
| SSE hub (`hub/hub.go`) | listeners, histories, channels | Register, cancel, Publish | sends outside the lock, replay, a history that is bounded and deleted | order, no loss while there is room |
| log sink and viewer (`logsink/logsink.go`, `web/hooks/useLogsSSE.ts`, `web/store/logStore.ts`) | ring buffer, subscribers; the page's connection and list | Handle, Register, unregister; reconnect, show, clear | the same, and connections that break at either end | the ring is the latest entries and reaches the panel |
| OAuth sessions (`oauth/session_manager.go`) and channels page (`web/components/channels`, `web/store/channelStore.ts`, `oauthStore.ts`) | active sessions, callback listeners, ports; cards that poll | StartSession, callback, timeout; authorize, cancel, poll, revoke, delete; profiles | a replaced session cleans up after itself in a map that is not its own any more; polls beside cancellations and late answers | port and entry are released; a card stops waiting, and for a reason |
| pipeline page (`web/store/pipelineStore.ts`, `web/components/pipeline`) | the run shown, histories of states and gates, the stream | create, advance, redownload, cancel, reuse, go back, resubmit | answers and events of a run given up, events that overtake answers | what is shown is of this run; what a resubmission replays is complete |
| mode step (`StepMode.tsx`) | a form of eleven sections | fill from settings, preset or earlier submission; edit, save, submit | four sources fill one form in any order, forty PUTs of which any may fail | the form is what it was filled with; preferences survive |
| review steps (`StepThumbnailConfig`, `StepReviewMetadata`, `StepReviewClips`) | edits, spinners, the store's clips | generate, regenerate, edit, select, submit | generators report by events, requests by answers, either may come first | no spinner without cause; what is shown is what is stored |
| queue page (`web/app/queue/page.tsx`, `QueueItemCard`, `ReviewScheduleModal`, `queueStore`) | list, filters, cards, modals | retry, delete, schedule, upload now, bulk | every action fetches the list again; modals close and open under their own requests | no spinner without a request; rows as stored; times as reviewed |
| setup and tools (`configurator`, `setup_handler.go`, `web/store/setupStore.ts`, `useSetupCheck`, `SetupProvider`, tool rows) | validators, install jobs, streams; store and gate | status, install, sync, custom path, poll | installations that share a job id and a history, ends published by two goroutines | what is shown as under way is; what is shown as installed is listed |
| transcription, clip files, segmentation, previews, desktop shell and others | - | - | section 6 | not modelled |

How they interact. HTTP handlers call the pipeline service, the repositories and
the uploader directly; the service starts goroutines that call the processor and
write rows through the repositories. Progress goes one way, from goroutines
through the hub to the browser. The pages send requests, and store what the
answers and the events say, in the order in which these come; no page compares
versions. The database is the only state that survives, and `database/db.go`
opens it with **one connection**: every SQL statement is atomic and everything
else interleaves between statements. This is the grain of atomicity of the
server's models. Locks (the hub, the log sink, the session manager) give the
grain inside the server's memory; in the browser everything between two `await`s
is one step.

The components and their state of modelling are listed in `PROJECT.json`, those
that are not modelled with the reason.

## 2. Modules

| module | stands for | composes |
|---|---|---|
| `RunLifecycle` | abstract: what a run promises its user | - |
| `PipelineRun` | the pipeline service | `INSTANCE RunLifecycle` (refined) |
| `UploadLedger` | abstract: what was asked for and what was published | - |
| `UploadQueue` | confirmation, queue endpoints, worker | `INSTANCE UploadLedger` (refined) |
| `Broadcast` | abstract: what a fan-out shows its listeners | - |
| `SSEHub`, `LogSink` | the two fan-outs of the server | `INSTANCE Broadcast` (refined) |
| `LogViewer` | the page's log panel over the log sink | extends `LogSink` |
| `OAuthSessions` | the session manager | - |
| `ChannelsPage` | channels and OAuth profiles over the sessions | extends `OAuthSessions` |
| `PipelineClient` | the pipeline page over the abstract run | `INSTANCE RunLifecycle` (environment) |
| `ModeForm` | the mode step with settings and presets | - |
| `ReviewSteps` | thumbnails, metadata, choice of clips | - |
| `QueuePage` | the queue page over the queue endpoints | - |
| `Setup` | gate, tools, installations, configurator, jobs | - |
| `RangeFacts` | lemmas about the elements of a sequence and their order | - |
| `ServiceProofs` | theorems about `PipelineRun` and `SSEHub` | extends both |
| `PipelineClientProofs`, `SetupProofs` | theorems | extend the module they name |
| `LogViewerProofs` | theorems about `LogSink` and `LogViewer` | extends `LogViewer` |
| `QueueProofs` | theorems about `UploadQueue` and `QueuePage` | extends both |
| `ChannelsPageProofs` | theorems about `OAuthSessions` and `ChannelsPage` | extends `ChannelsPage` |
| `StepsProofs` | theorems about `ModeForm` and `ReviewSteps` | extends both |
| `MC...` | values, symmetry sets and constraints for TLC, nothing else | extend the module they name |

### PipelineRun

A request is a record `call[c]` whose `pc` names the next SQL statement (or map
operation) of its handler; a goroutine is a record `job[s]` likewise, and
`cancelled[s]` is its context. `Advance` reads the row and decides by the state
it read; the statement it chose runs later, against whatever the row holds by
then. `AdvanceState` is the compare-and-swap of `pipeline_run_repo.go`, `Finish`
the unconditional UPDATE to ERROR. `cancelMap[r]` is the `sync.Map` of the
service: `Launch` and `StoreEntry` store, `Signal` is `LoadAndDelete` and the call
of the function, `Exit` the deferred `Delete`, which removes the entry whoever
stored it. External programs are the two outcomes of `Fetch`, `Analyze` and
`Generate`. The default of the mode column is written `"unset"` and read as
`"ai"`, so that a mode some client submitted can be told from the default.
`RequestAborted` is a client that goes away (the context of the request ends and
its next statement fails), `Restart` a crash.

`StoreModeConfig` may fail, since `service.go:351` only logs that and goes on to
the swap: the run is then executed under the default or under what another
client has stored. Phases are control only: highlight rows, clip rows and files
are left out. Other statements that fail for another reason than a cancelled
context (a full disk, a corrupt file) are left out everywhere.

### UploadQueue

`uploads` is a function from the ids in use: ids are reused exactly as SQLite
does for a key without AUTOINCREMENT (`NextId`). `confirm`, `bulk` and `pass`
are the requests and the worker's passes in flight; a pass keeps the list it
read (`items`) and works through it in queue order. `Keyed` is the set of clips
whose id is also a key of table `clips`: `uploads.clip_id REFERENCES clips(id)`,
no code inserts into `clips`, and foreign keys are enforced, so an insert for
any other clip fails. `publish_at` is one of never, later, now. `asked`,
`videos` and `stranded` are history variables; `videos[p][k]` counts what pass
`p` has published of clip `k`, since a pass knows nothing of the others and the
ledger can promise no more than what each of them keeps.

### SSEHub, LogSink, LogViewer

One job of the hub, whose specification is `HubSpec` (`FairHubSpec` with
fairness). `Publish` is the part of the function under the lock
(append to the history, copy the listeners), `Send` one send to a listener of
the copy, made without the lock. A send to a full channel is skipped; a send to
a channel that has been closed meanwhile panics, which is modelled as the
publisher stopping (in the real server it ends the process, unless the
publisher is an HTTP handler, which `net/http` recovers). Listeners of one event
are sent to in any order, since Go's map iteration gives any. `LogSink` is the
same shape with a ring in place of the history and numbers given under the lock.

`LogViewer` puts the page over the sink: its listeners are the page's successive
connections. `Connect` opens the next one and is at the same time the sink's
`Register`; `Message` is `onmessage` with the store's `addEntry`; `StreamLost` is
`onerror`, after which what was not read is lost; the server unregisters a
connection before or after the page notices. `Console` is what the patched
`console` adds. The delay, which the code doubles, is no more than the time
until `Connect`; the search box is left out.

### OAuthSessions, ChannelsPage

`entry` is the map of the manager, `session` what each session's goroutines
share. The callback server, the timeout, a replacement and the end of a callback
all cancel the session; the goroutine that served it then deletes the entry of
its *channel*. Bound: a session handles one callback at a time.

`ChannelsPage` composes them with the page. `pending` holds its requests, each
with the server's answer once there is one (`Serve`, `Fails`, `Answered`);
`HandleAuthorize` is the click, whose answer opens a URL and starts the poll of
the card; `Tick` is one iteration of the interval, `OrphanTick` one of an
interval whose card no longer knows it. A callback that writes a token is at the
same time a step of the session it belongs to. Ids of channels and profiles are
given again as SQLite does.

### PipelineClient

A handler of the page is a job: what it does before its first `await` is the
action that starts it, what it does after an answer is an action of
`Continue(j)`. The environment is `RunLifecycle`, the abstract specification
that the service is proved to implement: the client is checked against
everything that the service may do. `queue[r]` are the events on their way,
`stream[r]` is the EventSource; `store` is the zustand store. `Remount` says
which jobs still have a component to answer to. `overlapped` notes that the user
began a run over another one or gave one up in the middle of an operation, where
the code mixes the two runs (section 4).

### ModeForm

A section of the form is `[on, num, text]`: its switch, whether its numbers are
at zero, at the default or elsewhere, and whether its text is given; the minimum
of the AI mode, which may lock the button, is a section of its own. A PUT is of
one field of one section (`Keys`).
`BuildModeConfig` and `ApplyModeConfig` are the two conversions of `StepMode`;
`ServePreferences`, `LoadPreset` and `LoadSettings` are the effect that reads the
presets and settings, `Submit` and `Submitting` the PUTs of `allSettled` and the
`/advance` after them. `isSubmitting` belongs to the component: what an unmounted
step has begun goes on (`Orphaned`), and a second submission after a remount
sends its PUTs beside those of the first. Requests to save or delete presets are
kept apart by nothing at all. The specification is `FormSpec`; `kept` and
`source` are history variables: the forms of the submissions whose PUTs go on at
one time, with the keys not yet put, and what the form was last filled from.

### ReviewSteps

`rows` are the clips on the server, `gens` the generators at work, `events` what
they have published, `clips` and `ui` the store and the step on the screen. The
texts of a clip are one version number. Requests are served and answered in any
order. The two submissions are what their handlers are: a look at the state, one
write per clip (and the selection before them), and the swap of the state, with
anything between (`busy`, `clip` of the request). `calm` is FALSE once one of
these has happened: an answer that brings
clips was overtaken or failed; a thumbnail came after the thumbnail step; a text
was generated after the metadata step, or for a clip whose text was already being
generated, or for a step that is gone, or with no result; an answer to Continue
came when the page had gone on; a submission wrote after another had advanced
the run, broke off half written, or was one of two choices written at once. The
properties about what is shown at rest speak of what goes well.

### QueuePage

Rows on the server, the store's copy, the local state of each card, of the page
and of its modals, and the requests in flight, whose place in the code after the
answer is `next`. The uploader moves rows on behind the page's back. A time is
the scheduling it comes from and the days from its start. The interval is a
field of the form and may be cleared, which sends 0. `Preview` is what the modal
shows (the page's list, the interval as it stands), `Spread` what the server
stores (its own rows, a day for an interval of 0): two computations that
`ScheduledAsReviewed` compares.

### Setup

`disk` and `custom` are what is installed and where, `known` what the validators
found last, `running` the jobs with the ends they have still to publish,
`history` and `streams` the part of the hub they share, `ui` the store and the
components of gate and settings. Two tools and a model stand for all: the
model's job has an id and a list of its own.

## 3. Runs

| run | bounds | question |
|---|---|---|
| `pipeline_safety` | 1 run, 2 clients, 3 goroutines, disconnects, mode stores that fail, 1 restart; 161 thousand states | does any interleaving make a goroutine work outside its phase or twice, cancel a run that was not ended, leave a stale cancel function, give execution and clip generation different modes, or take a step the lifecycle does not have? |
| `pipeline_liveness` | the same without disconnects and restarts, fair | do unattended phases end, and does a displayed download resolve? |
| `upload_loop` | 2 clips, 2 rows, 2 confirmations, the loop as the only pass, disconnects, 1 restart; 2.5 million states | is a row running only while it is worked on or left by a restart, does the loop publish a clip no more often than asked, has a run that is done queued all its clips? |
| `upload_passes` | loop and 1 triggered pass, 1 bulk request, 1 row, a clip that cannot be inserted, 1 restart, fair; 211 thousand states | is a due row taken up, does every upload end, does each of two passes with lists of their own publish no more than was asked? |
| `hub` | 2 publishers of 2 events, 2 listeners (one need not read), history and channels of 2, fair | no gap between replay and sends, order, no duplicates, complete replay, delivery |
| `log` | 2 loggers, 3 entries, ring of 2, channels of 1, a first connection that may break and a second, a panel of 2 lines, 2 gestures or console lines, fair; 626 thousand states | is the ring the latest entries, does a connection miss nothing it had room for and see nothing twice, does what stays in the ring reach the panel? |
| `oauth` | 2 channels, 2 profiles, 2 sessions, 2 polls, 3 acts (gestures, failures), from three databases, fair; 372 thousand states | does the map of sessions ever go back or keep a session that ended, is every port given back, does a card stop waiting, and for a reason it can show? |
| `client` | 2 runs, 6 operations of the page, 2 in flight, 1 failure (3 operations in all once two runs overlap) | is what is shown of the run on the page, are the steps to walk back through its own, is the replayed history complete? |
| `mode_form` | 1 preset name, 5 clicks, 2 edits, 1 failed request; 1.5 million states | is the form what a preset or an earlier submission put into it, and are the preferences of a submission, or of several at once, found again? |
| `review` | 1 clip, 4 clicks or failures, 3 requests in flight, until something disturbs; 5.8 million states | does every spinner and loading screen have a cause under way, and is what is shown at rest what is stored? |
| `queue` | 2 rows (one failed, one queued) of 2 channels, 3 acts, 2 requests in flight, intervals of 0, 1 and 2 days, until something disturbs; 4.8 million states | does every spinner wait for a request, are rows at rest those of the server, is no clip of a bulk published later than reviewed? |
| `setup` | 4 starting points, 3 acts, 2 requests and 2 streams, until something disturbs | is what is shown as under way really so, is what is shown as installed listed, is a missing tool asked for again? |

Every property of a run has a mutant: a version of one action with a plausible
bug, defined beside the action under a comment that says "mutant", which that
property refutes. `PROJECT.json` lists them.

### Bounds

* Runs of the pipeline do not share state except through the lookup of an
  earlier video for the same URL, which `PriorVideo` stands for; one run is
  enough for TLC, and the theorems hold for any number. Two requests are enough
  for every race between a check and a write of this code (each handler has one
  such window), and three slots let a download, a second download and an
  execution or clip generation overlap. A request is only admitted while a slot
  remains for the goroutine it may start.
* Two rows and two confirmations let ids be reused, rows of one clip be
  duplicated and confirmations fail half way; `MaxAsked = 2` allows one retry of
  each clip. With two passes one row is enough to be listed by both: the pass that
  comes second publishes it again, retries it, or finds it deleted or its id given
  to another row.
* In the hub, two events per publisher against a history and channels of two
  make the history overflow, the channel overflow and the replay fill the
  channel; the source has 128 for both, and `ReplayComplete` needs only
  `MaxHistory <= ChanCap`, which is an assumption of the module. The log sink
  keeps the opposite relation of the source (500 entries, 128 places): a ring of
  2 against channels of 1, so that a replay is cut short; the third entry evicts
  the first, and the panel of 2 lines discards one. The last connection does
  not break, since the page would need another.
* Two sessions of one channel replace each other and delete each other's entry;
  two polls are the fewest with a poll that is neither the first nor the last.
* In the client, six operations take a run from its URL to its first review and
  back, or give two runs up and begin a third attempt; two in flight are enough
  for any answer to overtake any other. Once the user has begun one run over
  another the properties that need order no longer speak, and the run stops
  growing there (`MaxMixed`).
* Five clicks show the step, submit, show it again while PUTs are still under
  way, submit something else beside them, and show what has become of the
  settings; or use presets in between. Two edits are enough for two submissions
  that differ, or for a switch and its field. After a second edit only four
  fields of the form are not default (`Few`): the mode, and one section of each
  kind. A section's number is one of zero, default, other, which is all that the
  conversions tell apart.
* Review, queue and setup stop exploring (`CONSTRAINT Bounded`) where `calm` no
  longer holds, since their properties speak of calm states; what happens after
  is in section 4. In the review three requests in flight include two submissions
  of one step, each at any place between its check and its swap. In the queue the
  bulk is over one or two rows, for a row that failed can be retried, and typing
  an interval is one of the three acts. `BusyEnds` and `GeneratingEnds`, which do not mention `calm`,
  are checked up to and including the step that ends it.

### Fairness

Each fair specification assumes what the scheduling of the code gives: a
goroutine or handler that can take its next step takes it (weak fairness of the
handlers' and goroutines' actions; no action that is a user's choice is fair).
This includes that the external programs of a phase end; `runExecution` uses a
background context without a deadline, so a program that hangs would hang its
phase, and `Videos.Insert` has no timeout either: the liveness properties are
relative to that. The ticker ticks, timeouts of contexts expire. In the hub only
the listeners in `Readers` are assumed to read; nothing is assumed of the
others. In `ChannelsPage` the oldest request is answered, timers tick while they
are there, and sessions end as in `OAuthSessions`. In `LogViewer` the server
writes and answers, the page reads, and a connection the server has ended is
noticed; that a working connection breaks is never assumed, nor that a logger
logs.

`pipeline_liveness` checks no disconnects and no restarts because the code
recovers from neither: see section 4. The page modules other than these two have
invariants instead of liveness: "nothing is shown as waiting without something
under way that ends it", which does not depend on how fast anything is.

## 4. What the runs show

All runs pass. The properties are worded so as to hold of the code as it is;
what the code does against its own documents, or what a reader would not expect,
was met while modelling and is part of the models. It is collected here.

### Server

* **A cancelled run keeps downloading.** `Cancel` looks the cancel function up
  once (`pipeline/service.go:479`), `Advance` stores it after the row has left
  `WAITING_URL`; a cancellation in between finds nothing to call.
  `specs/002` spec.md:114 says "download goroutine MUST honour context
  cancellation".
* **A clip is published twice** when a triggered pass runs beside the loop:
  `runOnce` marks the rows of a list it read earlier without comparing their
  status, although `uploader/worker.go:64` says "Mark running to prevent
  double-dispatch on overlapping ticks" and `worker.go:27` "safe to call
  concurrently". `ImplementsLedger` therefore counts what each pass has published:
  it is the worst that two passes do.
* **A row is marked uploaded with another clip's video.** A row deleted during
  its upload gives its id to the next row: the key of `database/migrations.go:136`
  has no AUTOINCREMENT, the one the tests create (`upload_repo_queue_test.go:21`)
  has.
* **A run is executed under a mode nobody chose for it.** `service.go:351` logs a
  failed store of the mode and goes on to the swap: the run then has the default
  mode, or that of another client whose store came between. What holds is that
  execution and clip generation read the same branch (`ExecutionFollowsMode`).
* **Publish panics** when a listener leaves between the copy of the listeners
  and the send, although `progress/sse_reporter.go:6` says "safe for concurrent
  use — hub.Publish is non-blocking".
* **Two live sessions of one channel.** The goroutine of a replaced session
  deletes its successor's entry, and the third session then cancels neither
  (`oauth/session_manager.go:32`, `:49`). A callback past its exchange still
  writes its tokens, under the context of its own request (`:135`); a refresh
  may write an older grant over a newer one.
* `pipeline/state_machine.go:13` says that phase entry points must call
  `ValidatePhaseInputs`; none does. The mode gate can be passed before the
  download is over, and the phase then ends in ERROR through its own check.
* `pipeline/types.go:21` places `UPLOADING` before `DONE`; `confirmUpload` goes
  from `WAITING_UPLOAD_CONFIRM` to `DONE` and nothing enters `UPLOADING`
  (`runUploadStub` is not called).
* `pipeline/service.go:619` takes a cancelled context as a sign that the run was
  cancelled and returns without a word. `CancelFollowsDatabase` shows that the
  sign can be trusted, except that a run which went to ERROR counts as well.
* `database/upload_repo.go:320` inserts a pipeline clip's id into
  `uploads.clip_id`, which references `clips`: with ids that are no keys of
  `clips` the confirmation can never succeed and the run stays at its last gate.
* `hub/hub.go:58` promises a late subscriber the events so far; past
  `maxHistory` events the history is full (`hub.go:97`) and the terminal event
  is not replayed. `logsink/logsink.go:107` replays up to 500 entries into a
  channel of 128: the latest ones are skipped.
* A client that disconnects between the statements that mark and that clear
  `active_phase` leaves a run that shows a download nobody runs, and a restart
  leaves runs in EXECUTING or GENERATING_CLIPS for ever: `DownloadResolves` and
  the progress of `ImplementsLifecycle` hold only without them, and only
  cancellation ends such a run.

### Pipeline page and mode step

* `/advance` acts on whatever gate the run waits at. `StepMode.tsx:708` tells the
  user "Re-submitting will restart the pipeline from this step."; the mode of an
  earlier submission is sent to the active run and passes whichever later gate
  it is at. A double click on Continue of the thumbnail step passes the next
  gate as well.
* A run started from the reuse card leaves the first one uncancelled and its
  stream open; what its events do to the page is why `overlapped` exists. When
  one stream ends it forgets the handle of the other; the refetch of the video
  is not tied to a run.
* After a fresh download the gate that follows publishes no event, a run that
  fails in a computing phase leaves a page without a button, and the event
  `done` that the client waits for is never published.
* `StepMode.tsx:609` speaks of "Persist all preferences (non-fatal)": a text that
  was emptied is refused by `settings_handler.go:55`, a saved 0 is read as the
  default (`parseInt(...) || fallback`), and after a failed load a submission
  saves the defaults over the settings. `Remembered` says what is left: it has the
  zeroes read as defaults and the texts come back. Settings are not restored once
  any preset exists.
* `isSubmitting` (`StepMode.tsx:150`) is forgotten with the component. A step that
  is left and shown again can be submitted while its PUTs go on; they mix, and the
  settings may then be partly of the one and partly of the other submission.
* A preset does not switch off a section it does not have, and its answer
  overwrites what was edited meanwhile; the choice of length is overwritten by
  each `video_info` event.

### Review steps, queue, setup, channels, log

* Without the command line tool the metadata step's loading screen stays, since
  no event reports that nothing was generated. After "Regenerar tudo" an effect
  consumes its flag with the clips of before; answers to `loadClips` come in any
  order, errors of it never reach the steps, and every change of the clips
  resets the edits. A second Continue passes the metadata gate too, and the answer
  to the first sets the page to the gate it has passed (`pipelineStore.ts:446`)
  even if events have led it further: the page then shows, and takes for the last
  gate of the run, a step that the run has left, and what was typed in the later
  step is lost.
* The metadata step and the choice step write clip by clip between their check of
  the state and its swap (`metadata_handler.go:167`, `service.go:187`), and
  nothing compares again: a second Continue, or the request of a step shown
  again, writes its texts after the run has moved on and the next step has loaded
  others. A write that fails leaves the clips before it written.
* With the field of the interval cleared the page sends 0 (`page.tsx:155`): the
  review shows every clip at the start, the server spreads them by a day
  (`queue_handler.go:165`). `ScheduledAsReviewed` leaves this case out.
* In the queue a late answer overwrites a newer list; one slot for the spinner
  lets a late retry requeue a row that was uploaded meanwhile; "Schedule &
  Upload Now" overwrites the schedule it has just made (`queue_handler.go:189`);
  a filter whose last row vanishes shows an empty page; a modal closed during
  its request and opened again allows a second one.
* Retrying an installation right after an error may lose the second end, although
  `hub/hub.go:25` says the buffer prevents this; ends left over are replayed to
  the next installation of the tool; a POST that fails leaves "Installing" for
  ever. A custom path is stored but the validators keep the old one until a
  restart or a sync; a sync during an installation leaves the tool "missing". A
  poll unmounts the whole application with its dialogs while it loads.
* A card's interval that was forgotten goes on and raises its timeout; cancelling
  does not end the session on the server; re-authorizing ends at the first poll,
  since the old token is listed; channel ids are given again
  (`database/migrations.go:89`).
* After a reconnect the log panel shows the entries of the ring a second time:
  the store does not compare them with what it has, and the list then has
  duplicate keys (`apps/web/src/components/LogPanel.tsx:115`). What the broken
  stream had received and the page had not read is shown only by that replay.

## 5. What is proved

The theorems hold for every value of the constants that satisfies the
assumptions of their module, which TLC evaluates in the runs: `ConstantsOK` of
`PipelineRun` (the absent values are not slots or runs, the flags are Boolean,
the bound of restarts is a natural number) and of `UploadQueue` (there is a clip,
the loop is not one of the additional passes), `HubConstants` (capacities are
numbers and `MaxHistory <= ChanCap`), `SinkConstants` (the ring has a place),
`SessionConstants`, `PageConstants` (there are finitely many channels),
`ViewerConstants`, `QueueConstants`, `SetupConstants`, `ClientConstants`,
`FormConstants` and `ReviewConstants` (the bounds are numbers, and what is given
at the start is of its type). Five assumptions say that the values which stand
for "nothing" and "refused" are none of the data: `NullIsNothing` of
`PipelineClient` and of `Setup`, `AnswersDiffer` of `QueuePage`, `NoneIsNothing`
of `ModeForm` and `NoAnswer` of `ReviewSteps`.

### The pipeline service

| theorem | statement |
|---|---|
| `TypeCorrect` | `Spec => []TypeOK` |
| `InvariantHolds` | `Spec => []IInv` |
| `PhaseFollowed` | no goroutine works on a run that has left its phase |
| `OneWorker` | one goroutine at a time executes a run or generates its clips |
| `CancellationOrdered` | a context is cancelled only after its run has ended in the database |
| `EntriesLive` | `cancelMap` holds functions of live goroutines of the right run |
| `ModeFollowed` | execution and clip generation take the same branch, whatever modes are stored or fail to be stored meanwhile |
| `LifecycleImplemented` | `Spec => Lifecycle!Safety`: the service implements the abstract lifecycle |

The properties are not inductive: that one goroutine executes a run, for
instance, is kept by `ToExecuting` only because no goroutine can be executing a
run that is still at its mode gate. `IInv` adds what program counters say about
rows:

* `Placed`: requests and goroutines belong to a run;
* `JobState`: while a goroutine executes (generates clips), its run is EXECUTING
  (GENERATING_CLIPS), or has been ended under it; a downloading run has left
  WAITING_URL;
* `CallState`: a handler about to signal has ended its run; handlers past the
  URL gate stay past it;
* `Exclusive`: two goroutines that execute or generate clips work on different
  runs;
* `CancelledOK`, `CancelMapLive`: only registered goroutines of runs that ended
  are cancelled, and entries point to live goroutines;
* `ModeOK`: what the executing goroutine has read is still the mode of the run,
  and a run under review is not longform.

The proof goes through the 33 actions once per variable and shows that each step
consists of *moves*: one goroutine begins, continues or finishes, a row passes a
gate or leaves a phase or ends, a request arrives or proceeds, an entry is
stored or removed. The conjuncts of `IInv` are then shown to be kept by moves.
The heart is `PhasePinned`: a row in a phase can only be moved on by a goroutine
that works on it, there is at most one, and this one is elsewhere. The
refinement is the same walk over the statements that write `state`; it needs
`IInv` because the unconditional `Finish` must not hit a run without a URL.

Since `PipelineClient` takes `RunLifecycle` as its environment,
`LifecycleImplemented` is also what makes the client's run speak of the real
service.

### The upload queue

| theorem | statement |
|---|---|
| `QueueTypeCorrect` | `Spec => []TypeOK` |
| `RunningHasAPass` | `Spec => []RunningIsWorked`, for any number of overlapping passes |
| `QueueKeepsLedger` | `Spec => ImplementsLedger`, for any number of overlapping passes |

`RunningIsWorked` is inductive with the types: the step that makes a row running
is the one with which a pass begins to work on it, the pass leaves it only with a
write to the row, and a restart strands what shows running. For the ledger every
step is one of seven *moves* (`Move`): rows go or stay as they are, a clip is
asked for, a pass takes its list, begins an item, publishes it, is refused, or
goes on. To the other passes a move of this one is as if rows had only gone or
left the queue (`QuietOthers`), so that each pass keeps an account of its own
(`LedgerInv`): its items are different rows (`ItemsDiffer`), and for each clip
the invariant counts the ids under which this pass may still publish it (`Open`:
a queued row or an item not yet marked, once if it is both), and apart from them
the item being uploaded, whose row a retry may have queued again: its videos,
open ids and upload in flight together are never more than what was asked for
(`Covered`). That is also why no more can be claimed: the row that another pass
has listed is in both accounts. `AskedBefore` relates a confirmation to the
clips it has passed, so that one that reaches the end has asked for all. That
the item a pass works on exists although it is the least in the order of the
queue is `FirstIn`, by the well-foundedness of the numbers.

### The fan-outs

| theorem | statement |
|---|---|
| `HubTypeCorrect` | types, and the capacities of history and channels |
| `HubNothingBetween` | `Spec => []NothingBetween` of the hub |
| `HubReplayComplete` | `Spec => ReplayComplete` |
| `RingCorrect` | the ring of the log sink is the latest entries in order |
| `SinkTypeCorrect`, `ViewerTypeCorrect` | `Spec => []TypeOK` of the sink, `ViewerSpec => []ViewerTypeOK` of the page |
| `SinkNothingBetween` | `Spec => []NothingBetween` of the sink |
| `ViewerIsSink` | `ViewerSpec => Spec`: the page drives the sink only by its operations |
| `ViewerRing`, `ViewerNothingBetween` | the two invariants of the sink under the page |
| `HubBroadcasts`, `SinkBroadcasts`, `ViewerBroadcasts` | the hub, the sink, and the sink under the page implement `Broadcast` |

`NothingBetween` of the hub is inductive with the types and the fact that an
event being sent has a number: an event enters the history in the same step that
copies the listeners, so it is underway to each of them; a send turns it into
one that was shown or dropped, or stops its publisher; a listener that joins is
given the whole history, since `MaxHistory <= ChanCap`. `ShownStays` says that
nothing a listener was shown is taken back. In the sink the argument is the same
but for two points: a viewer that joins may be given less than the ring, and the
rest counts as dropped (`Replay`); and an entry may leave the ring, which only
makes the claim weaker (`EvictedIn`). The ring itself is a case split on whether
it is full. `RangeFacts` holds what both need about sequences.

That a listener is shown nothing twice and the events of one publisher in order
is the refinement of `Broadcast`. Its invariant (`FeedInv`) relates the numbers:
what was published is numbered at most by its publisher (`PublishedBefore`,
`LoggedBefore` in the sink); the history is in order; an event that is still to
be sent to a listener is ahead of all events of its publisher in that listener's
stream (`LeftIsAhead`), so that a send appends in order; and a connection that
has not registered has an empty stream and is in no publisher's list, so that the
replay cannot repeat what a send has brought. The viewer's
theorems follow from those of the sink, since every step of the page is one of
the sink or leaves it alone.

### The sessions

| theorem | statement |
|---|---|
| `SessionsTypeCorrect`, `EntriesAdvance`, `EntriesReleased` | types, `EntryIsLatest`, `EntryNotGone` |
| `SessionsImplemented` | `PageSpec` implies the sessions' `Spec` |
| `PageEntriesAdvance`, `PageEntriesReleased` | the two invariants under the whole page |

The two invariants of the sessions and the types need each other: an entry is
never that of a session that is gone because `Cleanup` empties the entry of its
channel in the same step, and `StartSession` is the only step that fills one,
with the latest session. That the composition of page, requests, rows and
sessions implements the sessions is a walk over the page's actions: those that
answer the request for a session start one, the callback is the session's, and
all others leave the sessions' variables alone.

### The channels page

| theorem | statement |
|---|---|
| `PageTypeCorrect` | `PageSpec => []PageTypeOK` of `ChannelsPage` |
| `AuthorizingEndsForAReason` | `PageSpec => EndsForAReason` |

An answer may come when its card is no longer shown, and a card may have been
unmounted and mounted again since it asked. `MineShown` is what the page relies
on: a request whose component is still there, and which is of a card, has its
card shown. Each step that turns "Aguardando..." off is then the answer to a
request of that card, a poll, the list with its token, or the cancellation; the
other steps leave the card alone or unmount it.

### The pipeline page

| theorem | statement |
|---|---|
| `TypeCorrect` | `Spec => []TypeOK` of `PipelineClient` |
| `PageShowsItsRun` | `Spec => []RunKnown` |
| `StepsAreOfTheRun` | `Spec => []NavIsOfTheRun` |
| `ReplayIsComplete` | `Spec => []GatesRecorded` |

The invariant has two parts. `Base` holds whatever the user does at once: what
the server has answered it has done (`RepliesTrue`), a run has been where it is
and where its events say it was (`ReachedTrue`), the run on the page is a row
(`OnARow`). It is what `RunKnown` needs, since the page takes its state from an
answer or an event. `OneRunAtATime` holds until the user begins a run over
another: operations other than the requests of a step are alone (`Alone`), every
job and the open stream are of the run on the page (`JobsOfTheRun`,
`StreamOfTheRun`), what is behind it in the history are states it has reached,
and a gate is recorded no later than its request is sent: the gate that a
request in flight is about to pass has been recorded, or the run was past it
already (`AskedIsRecorded`), and every gate the run is past has been recorded
(`PassedIsRecorded`). The last two are the point of `ReplayIsComplete`: the
event of the next state may overtake the answer of the request, so that the
record cannot be explained by the answer.

### The mode step

| theorem | statement |
|---|---|
| `FormTypeCorrect` | `FormSpec => []FormTypeOK` |
| `FormStaysTheConfig` | `FormSpec => []FormIsTheConfig` |
| `SubmissionRemembered` | `FormSpec => []Remembered` |

The types carry much of it: `Configs` is the set of configs `buildModeConfig` can
make (a switch that is off leaves no section, a mode has its own section alone),
and that building, applying and reading back stay within it is the lemmas
`BuiltSection`, `AppliedForm` and `RestoredForm`, of which the properties
are consequences once the histories are known. What `FormIInv` adds is about
those: a form not yet filled has its default sections (`Untouched`); only the
form of an earlier submission was filled from one (`FromHistory`); what the
submissions under way have still to put is of one of the forms that were
submitted together (`Submitted`), and every key but those not yet put has the
value of one of them (`Kept`), so that once all are put the settings hold them
(`Holds`), also in the copy that a load has fetched and not yet shown
(`LoadHolds`). `HasField` is where a text that was emptied comes back: the server
refuses it, so that a text is only promised where all of them had one.

### The review steps

| theorem | statement |
|---|---|
| `StepsTypeCorrect` | `Spec => []TypeOK` of `ReviewSteps` |
| `GenerationIsReported` | `Spec => []GeneratingEnds` |
| `ShownWhenQuiet` | `Spec => []ShownIsStored` |
| `LoadingScreenEnds` | `Cli => (Spec => []LoadingEnds)` |

Requests and generators are looked at as sets, since any of them may be the next
to be answered or to end; events are looked at in their order, since what the
page will believe is the last one. `StepsIInv` says of what is shown by whom it
will be put right:

* `BatchEnds`: a batch that has begun is followed by its `batch_done`, and the
  page takes that for a change, because it has heard of something else before or
  will (`Primed`, `EndComes`);
* `NotAhead`, `EndIsState`: the page is never ahead of the server, and either is
  where the server is or the last `state_changed` on its way says so;
* `Early`, `Singles`: what cannot have happened yet at a gate: no text before the
  metadata, no deselection before the choice, no write of a submission that has
  not looked at the state; between the first write of a submission and its swap
  (`Midway`) the claims about what is stored pause, and the load of the next step
  takes them up again;
* `PathsCome`, `ClipsCome`: a list that the page has, or that an answer brings,
  lacks a thumbnail only if the event or answer with it is on its way; a page
  without clips has asked for them;
* `OneAtWork`: one generator of texts is past its start exactly if `generating` is
  the last status the page will have heard of (`LastStatus`);
* `MetadataShown`: each clip has its text in the editor, or the answer with this
  text is on its way, or a list with the texts will come (`TextsCome`): from a
  request not served yet, from a generator that has yet to say `done`, from a
  `done` that makes a difference (`DoneComes`), or from an answer that has them;
* `ChoiceShown`: the same for the choice of clips, whose only list is that of its
  own load;
* `TextsThere`: where the generator is installed, a run past the thumbnails has a
  text, a generator that will write one, or the status `error`.

The proof first shows that each action is one of a few *moves* (a request is made,
served or answered; a generator goes on; an event is taken; the step changes) and
then that each part is kept by moves. `LoadingScreenEnds` assumes `Cli`, that the
text generator is installed, because without it no event ever says that nothing
was generated and the screen stays (section 4). The attempt to prove
`ShownIsStored` failed at first on an answer to Continue that comes when events
have led the page further; it is now one of the disturbances that end `calm`.

### The queue page

| theorem | statement |
|---|---|
| `PageTypeCorrect` | `PageSpec => []PageTypeOK` of `QueuePage` |
| `SpinnersEnd` | `PageSpec => []BusyEnds` |
| `QueueIsShown` | `PageSpec => []ShownIsStored` |
| `BulkAsReviewed` | `PageSpec => ScheduledAsReviewed` |

Requests are answered in any order and every answer removes one from the middle
of the sequence, so that the proof looks at `pending` as the set of its requests
(`RangeFacts`), and most steps change it to one that is `Alike`. `SpinnersWait`
strengthens `BusyEnds` by the modals: a spinner inside a modal has a request that
asked from this modal, since a modal that is closed and opened again forgets. For
`QueueIsShown` the invariant says what the difference between list and rows is
while requests are in flight: the answer that fetches all rows is on its way
(`Refetch`), or each difference is *granted*, by an answered deletion, schedule
or retry of that row whose answer the store has yet to take (`Explained`).
`DeletedIsGone` keeps a deletion that was granted from explaining a row that
exists. A bulk is confirmed with the times its modal shows (`Reviewed`), which
the server computes again over its own rows. `BulkAsReviewed` then compares two
countings of the queued rows before a row, in the list that was reviewed and in
the rows as they are: fewer before it make its time earlier, the same rows make
it the same (`Reviewed` relates the times to the list).

### The setup

| theorem | statement |
|---|---|
| `TypeCorrect` | `Spec => []TypeOK` of `Setup` |
| `WaitingIsServed` | `Spec => []WaitingEnds` |
| `InstalledIsListed` | `Spec => []DoneIsSeen` |
| `MissingIsAskedFor` | `Spec => []MissingIsPolled` |

Three parts, each for one pair of actors. `PageInv` is about the page and its
requests: a dialog is open on the settings alone, a request of its own finds it
open (`PathsMine`), and one that loads has such a request (`DialogWaits`); that a
render which mounts another screen drops both at once is `PageShown`. `JobsInv`
is about jobs and streams: a stream that is not registered yet counts only on
events that the history still has (`Hears`), without which the registration
would replace its queue by less; a tool shown as being installed has a stream
with an event, or a job to come (`Waits`); and whatever says "done", a row, a
queue or the history, is of something on the disk that the validators know
(`Dones`). `SeenInv` joins the two: once a tool is shown as done, either the list
has it, or there was an error, or a request in flight will bring it, because it
has not been served or its answer has the tool (`SeenTools`, `SeenModel`). That
an answer served *before* the installation does not take it back is where `Dones`
is needed, and `calm` ends where one does (`Forgets`).

### Only model-checked

All liveness (`ImplementsLifecycle` beyond its safety part, `DownloadResolves`,
`DueIsTried`, `RunningEnds`, `HistoryReachesAll`, `RingReachesPanel`,
`PortReleased`, `AuthorizingEnds`), since fairness and ENABLED are out of the
prover's reach. Every invariant that a run checks is a theorem, and so is the
type invariant of every module that has one. The type
invariants that no run lists (`TypeOK` of each module, `PageTypeOK`,
`ViewerTypeOK`, `HubTypeOK`, `FormTypeOK`) can be checked by adding them as
INVARIANT to the module's configuration.

## 6. What is not modelled

* Statements that fail for reasons of their own, except where a property is
  about the failure (the foreign key, files that cannot be copied, disconnects).
* Transcription: audio and transcripts are named after the process
  (`processor/transcript.go:26`), so that two runs transcribed at once write the
  same files; what would show it is the content of files, which nothing in the
  code checks.
* Clip rows on the server apart from what the review steps see of them: a
  generator that answers late writes its texts
  over what the user saved (`ai/metadata.go:177`); rows are deleted by reruns and
  files are shared by the runs of one video. No document says which should win.
* `is_default` of the OAuth profiles as statements: each request of
  `ChannelsPage` is one step, so that two concurrent ones cannot leave two
  defaults (`api/handlers/oauth_handler.go:239`).
* The uploader's writing back of tokens (`uploader/youtube.go:170`) beside the
  callbacks.
* The desktop shell: it starts two processes and restarts the server when it
  ends with a code other than 0. Its exit handler takes the null of a SIGTERM
  for a failure, the restart timer is not cancelled by a kill, the count of
  restarts is never set back, `activate` during start opens a second window, and
  on macOS the servers are not started again after the last window was closed.
  Electron's events have no specification in the repository to model them from.
* The task dispatcher of the web application (a list with timers), the sheets no
  page opens (`ChannelConfigSheet`, `CommentSyncSheet`), `BulkScheduleModal`,
  `GateActionBar`, `usePipelineSSE`, and the actions no page calls.
* Segmentation, retry delays, command lines, parsing of external output,
  formatting: no state that anything else reads, and unit tests reach them.
* Quota, statistics, media library, previews, URL history: single statements or
  reads.
* Several jobs of the hub at once (except the install jobs in `Setup`), and in
  `Setup` the room of 128 events that the lines of an installation share with its
  end: past it the end is not replayed to a stream that comes late, which
  `SSEHub` has for a job of its own (section 4); keep-alive pings.

## 7. What remains

The plan ordered the server's core first, then the pages that act on it, then
proofs. What is left of it, in the order in which it would be worth doing:

1. `ClipRows`: the columns of `pipeline_clips` from cut to confirmation with the
   server's writers as statements, against "a column is what its last writer
   left"; needs a decision of the authors on who wins.
2. The tokens of a channel with all their writers, the uploader included.
3. The desktop shell, once its events are written down.
