----------------------------- MODULE ReviewSteps -----------------------------
(***************************************************************************)
(* The three steps of the web client between the cut of the clips and the  *)
(* upload: thumbnails (StepThumbnailConfig), metadata (StepReviewMetadata) *)
(* and the choice of clips (StepReviewClips), with the store's copy of the *)
(* clips, the requests they send, the generators of the server and the     *)
(* events these publish.                                                   *)
(*                                                                         *)
(* The texts of a clip are one version number: 0 as it was cut, without    *)
(* description, tags or thumbnail text; every text that the generator or   *)
(* the user writes is a new number.                                        *)
(***************************************************************************)
EXTENDS Naturals, Sequences, FiniteSets, SequencesExt

CONSTANTS
  NumClips,
  Cli,          \* the command line tool of the text generator is installed
  MaxActs,      \* what the user does, and what fails (bound)
  Null,
  Refused       \* the answer of a request that was not carried out

ASSUME ReviewConstants == /\ NumClips \in Nat \ {0}
                          /\ Cli \in BOOLEAN
                          /\ MaxActs \in Nat

VARIABLES
  state,             \* server: the gate the run waits at
  rows,              \* server: the clips of the run
  gens,              \* server: the generators that are running
  events,            \* the events on their way to the page
  live,              \* the event stream is open
  top, shown,        \* store: the gate the history ends with, the step displayed
  clips,             \* store: the clips as last heard of, <<>> before
  thumbnailProgress, \* store: the status of the last thumbnail event
  metadataProgress,  \* store: the status of the last metadata event
  recorded,          \* store: gateHistory of the two review gates
  ui,                \* the state of the step displayed
  pending,           \* the requests in flight
  count,             \* acts so far, versions of texts
  calm               \* history: none of the disturbances below so far

(* What disturbs the page: a request for the clips fails, or its answer is  *)
(* overtaken; a thumbnail arrives after the thumbnail step; a text is       *)
(* generated after the metadata step, for a clip whose text is being        *)
(* generated, or for a step that is gone; the generator answers with        *)
(* nothing; Continue is answered when the page has gone on, which takes it  *)
(* back; a submission writes after another has advanced the run, breaks off *)
(* half written, or is one of two choices that are written at once.  `calm` *)
(* is FALSE from then on.                                                   *)
server == <<state, rows, gens>>
store  == <<top, shown, clips, thumbnailProgress, metadataProgress, recorded>>
vars   == <<server, events, live, store, ui, pending, count, calm>>

Thumbnails == 1
Metadata   == 2
Choice     == 3
Confirm    == 4

Clips == 1 .. NumClips
Row   == [text : Nat, path : BOOLEAN, sel : BOOLEAN]

ASSUME NoAnswer == /\ Null # Refused
                   /\ {Null, Refused} \cap (Nat \cup BOOLEAN) = {}
                   /\ {Null, Refused} \cap [Clips -> Row] = {}

Texts(list) == [c \in DOMAIN list |-> list[c].text]

(* The local state of a step that has just been mounted.                   *)
Fresh ==
  [generating |-> FALSE,                  \* isGenerating
   slot |-> 0,                            \* regeneratingClipId
   edits |-> <<>>,
   regenned |-> FALSE, autoPending |-> FALSE, ready |-> TRUE,
   loading |-> FALSE, submitting |-> FALSE, selected |-> {},
   typed |-> {}, toggled |-> FALSE]       \* history: edited since edits, selected were set

(* `clip` is the clip that is asked for, or how much of a submission has    *)
(* been written; `busy` that the state of the run was found right for it.   *)
Request(kind, clip, body) ==
  [kind |-> kind, clip |-> clip, body |-> body, reply |-> Null, busy |-> FALSE, mine |-> TRUE]
Load == Request("load", 0, Null)

(* What the choice step submits.                                           *)
Picks == [selected : SUBSET Clips, edits : [Clips -> Nat]]

Requests ==
  LET Of(kinds, targets, bodies, replies, busy) ==
        [kind : kinds, clip : targets, body : bodies, reply : {Null} \cup replies, busy : busy, mine : BOOLEAN]
  IN
  Of({"load"}, {0}, {Null}, {Refused} \cup [Clips -> Row], {FALSE})
  \cup Of({"generate", "preview", "regenerate"}, {0}, {Null}, {}, {FALSE})
  \cup Of({"advance"}, {0}, {Null}, {Refused, Metadata, Choice}, {FALSE})
  \cup Of({"thumbnail"}, Clips, {Null}, {Refused, TRUE}, BOOLEAN)
  \cup Of({"single"}, Clips, {Null}, {Refused} \cup Nat, BOOLEAN)
  \cup Of({"metadata"}, 0 .. NumClips, [Clips -> Nat], {}, BOOLEAN)
  \cup Of({"choice"}, 0 .. NumClips + 1, Picks, {Refused, Confirm}, BOOLEAN)

Generators ==
  [kind : {"thumbnails"}, at : 0 .. NumClips, open : BOOLEAN]
  \cup [kind : {"metadata"}, stage : {"started", "generating", "generated"}]

Events ==
  [type : {"state"}, to : Thumbnails .. Confirm]
  \cup [type : {"thumbnail"}, status : {"generating", "done", "error"}, clip : Clips]
  \cup [type : {"thumbnail"}, status : {"batch_done"}, clip : {0}]
  \cup [type : {"metadata"}, status : {"generating", "done", "error"}]

Steps ==
  [generating : BOOLEAN, slot : 0 .. NumClips, edits : {<<>>} \cup [Clips -> Nat],
   regenned : BOOLEAN, autoPending : BOOLEAN, ready : BOOLEAN, loading : BOOLEAN, submitting : BOOLEAN,
   selected : SUBSET Clips, typed : SUBSET Clips, toggled : BOOLEAN]

TypeOK ==
  /\ state \in 0 .. Confirm /\ top \in 0 .. Confirm /\ shown \in 0 .. top
  /\ rows \in [Clips -> Row] /\ (clips = <<>> \/ clips \in [Clips -> Row])
  /\ gens \in Seq(Generators) /\ events \in Seq(Events) /\ pending \in Seq(Requests)
  /\ \A i \in DOMAIN gens : gens[i].kind = "thumbnails" /\ gens[i].open => gens[i].at < NumClips
  /\ {live, calm} \subseteq BOOLEAN
  /\ thumbnailProgress \in {"none", "generating", "done", "error", "batch_done"}
  /\ metadataProgress \in {"none", "generating", "done", "error"}
  /\ recorded \in [meta : BOOLEAN, choice : {Null} \cup Picks]
  /\ count \in [acts : Nat, texts : Nat]
  /\ ui \in Steps
  /\ shown \in {Metadata, Choice} /\ clips # <<>> => ui.edits \in [Clips -> Nat]
  /\ ui.ready \/ \E i \in DOMAIN pending : pending[i].kind = "preview" /\ pending[i].mine

Init ==
  /\ state = Thumbnails /\ top = Thumbnails /\ shown = Thumbnails
  /\ rows = [c \in Clips |-> [text |-> 0, path |-> FALSE, sel |-> TRUE]]
  /\ gens = <<>> /\ events = <<>> /\ live = TRUE
  /\ clips = <<>>
  /\ thumbnailProgress = "none" /\ metadataProgress = "none"
  /\ recorded = [meta |-> FALSE, choice |-> Null]
  /\ ui = Fresh /\ pending = <<Load>>
  /\ count = [acts |-> 0, texts |-> 0]
  /\ calm = TRUE

Act == count.acts < MaxActs /\ count' = [count EXCEPT !.acts = @ + 1]
NewText == count.texts + 1

Historical(gate, end) ==
  gate < end /\ CASE gate = Metadata -> recorded.meta
                  [] gate = Choice   -> recorded.choice # Null
                  [] OTHER           -> TRUE
-----------------------------------------------------------------------------
(* The effects of the steps.                                               *)

(* The previews are rendered again when the step is new or the texts have  *)
(* been generated, as soon as there are clips with a text.                 *)
RegenDue(u, list) == (u.autoPending \/ ~u.regenned) /\ \E c \in DOMAIN list : list[c].text # 0

Regen(u, list) ==
  IF RegenDue(u, list)
  THEN [u EXCEPT !.regenned = TRUE, !.autoPending = FALSE, !.ready = FALSE]
  ELSE u

(* Promise.all: the batch is one request, over when each of its previews   *)
(* has been rendered or has failed.                                        *)
Previews(u, list) == IF RegenDue(u, list) THEN <<Request("preview", 0, Null)>> ELSE <<>>

(* What the metadata step does when generation is reported as done.        *)
(* mutant: the clips are not asked for again *)
DoneAsksNoClips(u, list) == Previews([u EXCEPT !.autoPending = TRUE], list)

OnDone(u, list) == Regen([u EXCEPT !.autoPending = TRUE], list)
DoneAsks(u, list) == <<Load>> \o Previews([u EXCEPT !.autoPending = TRUE], list)

(* What a step does when the clips of the store are others.                *)
OnClips(u, list, gate, end) ==
  CASE gate = Metadata -> [Regen(u, list) EXCEPT !.edits = Texts(list), !.typed = {}]
    [] gate = Choice /\ list # <<>> ->
         IF Historical(gate, end)
         THEN [u EXCEPT !.edits = recorded.choice.edits, !.selected = recorded.choice.selected]
         ELSE [u EXCEPT !.edits = Texts(list), !.selected = {c \in DOMAIN list : list[c].sel},
                        !.typed = {}, !.toggled = FALSE]
    [] OTHER -> u
ClipsAsk(u, list, gate) == IF gate = Metadata THEN Previews(u, list) ELSE <<>>

Mounted(gate, end) ==
  LET u == OnClips([Fresh EXCEPT !.loading = gate = Choice], clips, gate, end)
  IN IF gate = Metadata /\ metadataProgress = "done" THEN OnDone(u, clips) ELSE u

(* mutant: a step asks for the clips when the store has none *)
MountAsksIfNone(gate, end) ==
  (IF gate = Metadata THEN Previews(Fresh, clips) ELSE <<>>) \o
  (IF clips = <<>> THEN <<Load>> ELSE <<>>)

MountAsks(gate, end) ==
  LET u == OnClips(Fresh, clips, gate, end)
  IN IF gate = Confirm THEN <<>>
     ELSE ClipsAsk(Fresh, clips, gate) \o <<Load>> \o
          (IF gate = Metadata /\ metadataProgress = "done" THEN DoneAsks(u, clips) ELSE <<>>)

(* The page displays `gate`; a step that is not displayed any more is      *)
(* unmounted, its requests are answered to nobody.                         *)
Disowned(reqs) == [i \in DOMAIN reqs |-> [reqs[i] EXCEPT !.mine = FALSE]]

Show(gate, end, reqs) ==
  /\ top' = end /\ shown' = gate
  /\ IF gate = shown THEN ui' = ui /\ pending' = reqs
     ELSE ui' = Mounted(gate, end) /\ pending' = Disowned(reqs) \o MountAsks(gate, end)

(* The store's clips are replaced by `list`, with the effects of this.     *)
SetClips(list, u, reqs) ==
  /\ clips' = list
  /\ ui' = OnClips(u, list, shown, top)
  /\ pending' = reqs \o ClipsAsk(u, list, shown)

Ask(request) == pending' = Append(pending, request)
-----------------------------------------------------------------------------
(* The thumbnail step.                                                     *)

CanGenerate == shown = Thumbnails /\ ~ui.generating /\ clips # <<>>

GenerateAll ==
  /\ CanGenerate
  /\ Act
  /\ ui' = [ui EXCEPT !.generating = TRUE]
  /\ Ask(Request("generate", 0, Null))
  /\ UNCHANGED <<server, events, live, store, calm>>

(* The card of a clip.                                                     *)
CanRegenerateThumbnail(c) ==
  shown = Thumbnails /\ ~ui.generating /\ c \in DOMAIN clips /\ ui.slot # c

RegenerateThumbnail(c) ==
  /\ CanRegenerateThumbnail(c)
  /\ Act
  /\ ui' = [ui EXCEPT !.slot = c]
  /\ Ask(Request("thumbnail", c, Null))
  /\ UNCHANGED <<server, events, live, store, calm>>

(* Continue and Skip.                                                      *)
CanContinue == shown = Thumbnails /\ ~ui.generating

Continue ==
  /\ CanContinue /\ ~Historical(Thumbnails, top)
  /\ Act
  /\ Ask(Request("advance", 0, Null))
  /\ UNCHANGED <<server, events, live, store, ui, calm>>

(* mutant: the batch gives up at the first clip that fails *)
ThumbnailStepGivesUp(i) ==
  /\ gens[i].kind = "thumbnails"
  /\ gens' = RemoveAt(gens, i)
  /\ events' = IF live THEN Append(events, [type |-> "thumbnail", status |-> "error", clip |-> 1])
               ELSE events
  /\ UNCHANGED <<state, rows, live, store, ui, pending, count, calm>>

(* The generator has gone through `at` clips, `open` is the one it is at.  *)
ThumbnailStep(i) ==
  LET g == gens[i]
      publish(e) == events' = IF live THEN Append(events, e) ELSE events
      event(status, c) == [type |-> "thumbnail", status |-> status, clip |-> c]
  IN
  /\ g.kind = "thumbnails"
  /\ \/ /\ ~g.open /\ g.at < NumClips
        /\ publish(event("generating", g.at + 1))
        /\ gens' = [gens EXCEPT ![i].open = TRUE]
        /\ UNCHANGED rows
     \/ /\ g.open
        /\ gens' = [gens EXCEPT ![i].open = FALSE, ![i].at = @ + 1]
        /\ \/ /\ publish(event("error", g.at + 1))
              /\ UNCHANGED rows
           \/ /\ rows' = [rows EXCEPT ![g.at + 1].path = TRUE]
              /\ publish(event("done", g.at + 1))
     \/ /\ ~g.open /\ g.at = NumClips
        /\ publish(event("batch_done", 0))
        /\ gens' = RemoveAt(gens, i)
        /\ UNCHANGED rows
  /\ UNCHANGED <<state, live, store, ui, pending, count, calm>>
-----------------------------------------------------------------------------
(* The metadata step.                                                      *)

Generating == metadataProgress = "generating"
HasMetadata == \E c \in DOMAIN clips : clips[c].text # 0

(* The loading screen; the editor is shown otherwise.                      *)
ShowLoading ==
  /\ shown = Metadata /\ ~Historical(Metadata, top)
  /\ \/ clips = <<>>
     \/ Generating
     \/ ~HasMetadata /\ metadataProgress # "error"
     \/ HasMetadata /\ ~ui.ready

Editor == shown = Metadata /\ ~ShowLoading

(* The card of a clip has a field for each of its texts.                   *)
CanEdit(c) == Editor /\ c \in DOMAIN clips /\ c \in DOMAIN ui.edits

UpdateEdit(c) ==
  /\ CanEdit(c)
  /\ count.acts < MaxActs
  /\ count' = [count EXCEPT !.acts = @ + 1, !.texts = @ + 1]
  /\ ui' = [ui EXCEPT !.edits[c] = NewText, !.typed = @ \cup {c}]
  /\ UNCHANGED <<server, events, live, store, pending, calm>>

RegenerateAll ==
  /\ Editor /\ ~Generating /\ clips # <<>>
  /\ Act
  /\ Ask(Request("regenerate", 0, Null))
  /\ UNCHANGED <<server, events, live, store, ui, calm>>

CanRegenerateMetadata(c) ==
  Editor /\ ~Generating /\ c \in DOMAIN clips /\ c \in DOMAIN ui.edits /\ ui.slot # c

RegenerateMetadata(c) ==
  /\ CanRegenerateMetadata(c)
  /\ Act
  /\ ui' = [ui EXCEPT !.slot = c]
  /\ Ask(Request("single", c, Null))
  /\ UNCHANGED <<server, events, live, store, calm>>

SubmitMetadata ==
  /\ Editor /\ ~Generating /\ clips # <<>>
  /\ Act
  /\ recorded' = [recorded EXCEPT !.meta = TRUE]
  /\ Ask(Request("metadata", 0, ui.edits))
  /\ UNCHANGED <<server, events, live, top, shown, clips, thumbnailProgress,
                 metadataProgress, ui, calm>>

(* A text is being generated for one clip.                                 *)
Singled == \E j \in DOMAIN pending : pending[j].kind = "single" /\ pending[j].busy

(* GenerateBatch and PrefillBatch.  The statuses fetching_channel,         *)
(* generating and streaming are one.  The answer holds a text for each of  *)
(* the first clips, perhaps for none.                                      *)
MetadataStep(i) ==
  LET g == gens[i]
      publish(status) ==
        events' = IF live THEN Append(events, [type |-> "metadata", status |-> status]) ELSE events
  IN
  /\ g.kind = "metadata"
  /\ \/ /\ g.stage = "started"
        /\ publish("generating")
        /\ gens' = [gens EXCEPT ![i].stage = "generating"]
        /\ calm' = (calm /\ \A j \in DOMAIN gens \ {i} : gens[j].kind # "metadata")
        /\ UNCHANGED <<rows, count>>
     \/ /\ g.stage = "generating"
        /\ publish("error")
        /\ gens' = RemoveAt(gens, i)
        /\ UNCHANGED <<rows, count, calm>>
     \/ /\ g.stage = "generating"
        /\ \E n \in 0 .. NumClips :
             /\ rows' = [c \in Clips |-> IF c <= n THEN [rows[c] EXCEPT !.text = NewText] ELSE rows[c]]
             /\ calm' = (calm /\ state = Metadata /\ n > 0 /\ ~Singled)
        /\ count' = [count EXCEPT !.texts = @ + 1]
        /\ gens' = [gens EXCEPT ![i].stage = "generated"]
        /\ UNCHANGED events
     \/ /\ g.stage = "generated"
        /\ publish("done")
        /\ gens' = RemoveAt(gens, i)
        /\ UNCHANGED <<rows, count, calm>>
  /\ UNCHANGED <<state, live, store, ui, pending>>
-----------------------------------------------------------------------------
(* The choice of the clips.                                                *)

Chooser == shown = Choice /\ ~ui.loading /\ clips # <<>>

SelectToggle(c) ==
  /\ Chooser /\ Act
  /\ ui' = [ui EXCEPT !.selected = IF c \in @ THEN @ \ {c} ELSE @ \cup {c}, !.toggled = TRUE]
  /\ UNCHANGED <<server, events, live, store, pending, calm>>

(* Select all, or none.                                                    *)
SelectBatch ==
  /\ Chooser /\ Act
  /\ \E all \in {DOMAIN clips, {}} : ui' = [ui EXCEPT !.selected = all, !.toggled = TRUE]
  /\ UNCHANGED <<server, events, live, store, pending, calm>>

(* The fields of a clip that is not selected are disabled.                 *)
CanChange(c) == Chooser /\ c \in ui.selected

ChangeText(c) ==
  /\ CanChange(c)
  /\ count.acts < MaxActs
  /\ count' = [count EXCEPT !.acts = @ + 1, !.texts = @ + 1]
  /\ ui' = [ui EXCEPT !.edits[c] = NewText, !.typed = @ \cup {c}]
  /\ UNCHANGED <<server, events, live, store, pending, calm>>

CanSubmitChoice == Chooser /\ ~ui.submitting /\ ui.selected # {}

SubmitChoice ==
  /\ CanSubmitChoice /\ ~Historical(Choice, top)
  /\ Act
  /\ LET body == [selected |-> ui.selected, edits |-> ui.edits] IN
       /\ recorded' = [recorded EXCEPT !.choice = body]
       /\ Ask(Request("choice", 0, body))
  /\ ui' = [ui EXCEPT !.submitting = TRUE]
  /\ UNCHANGED <<server, events, live, top, shown, clips, thumbnailProgress,
                 metadataProgress, calm>>
-----------------------------------------------------------------------------
(* All steps.                                                              *)

NavigateBack ==
  /\ shown > Thumbnails /\ Act
  /\ Show(shown - 1, top, pending)
  /\ UNCHANGED <<server, events, live, clips, thumbnailProgress, metadataProgress, recorded, calm>>

(* A thumbnail or a choice step that was navigated back to is submitted:   *)
(* the run is cancelled; PipelineClient has what follows.                  *)
Resubmit ==
  /\ shown \in {Thumbnails, Choice} /\ Historical(shown, top)
  /\ CanContinue \/ CanSubmitChoice
  /\ Act
  /\ state' = 0 /\ gens' = <<>> /\ events' = <<>> /\ live' = FALSE
  /\ top' = 0 /\ shown' = 0 /\ clips' = <<>>
  /\ thumbnailProgress' = "none" /\ metadataProgress' = "none"
  /\ recorded' = [meta |-> FALSE, choice |-> Null]
  /\ ui' = Fresh /\ pending' = <<>>
  /\ UNCHANGED <<rows, calm>>
-----------------------------------------------------------------------------
(* The server takes up a request.  An answer that changes nothing on the   *)
(* page, or that is all there is to a request, comes with it.              *)

Others(i) == RemoveAt(pending, i)
Mine(i, u) == IF pending[i].mine THEN u ELSE ui
Reply(i, value) == pending' = [pending EXCEPT ![i].reply = value]
TakeUp(i) == pending' = [pending EXCEPT ![i].busy = TRUE]
Advanced(gate) ==
  /\ state' = gate
  /\ events' = IF live THEN Append(events, [type |-> "state", to |-> gate]) ELSE events

ServeLoad(i) ==
  /\ pending[i].kind = "load"
  /\ Reply(i, rows)
  /\ UNCHANGED <<server, events, ui, count, calm>>

ServeGenerate(i) ==
  /\ pending[i].kind = "generate"
  /\ IF state = Thumbnails
     THEN /\ gens' = Append(gens, [kind |-> "thumbnails", at |-> 0, open |-> FALSE])
          /\ ui' = ui
     ELSE gens' = gens /\ ui' = Mine(i, [ui EXCEPT !.generating = FALSE])
  /\ pending' = Others(i)
  /\ UNCHANGED <<state, rows, events, count, calm>>

ServeThumbnail(i) ==
  /\ pending[i].kind = "thumbnail"
  /\ \/ /\ ~pending[i].busy /\ state = Thumbnails
        /\ TakeUp(i) /\ rows' = rows
     \/ /\ pending[i].busy
        /\ rows' = [rows EXCEPT ![pending[i].clip].path = TRUE]
        /\ Reply(i, TRUE)
     \/ rows' = rows /\ Reply(i, Refused)
  /\ UNCHANGED <<state, gens, events, ui, count, calm>>

(* /advance: it does what the state of the run asks for.  At Confirm it    *)
(* starts the upload, which is PipelineClient's; here it is refused.       *)
ServeAdvance(i) ==
  /\ pending[i].kind = "advance"
  /\ CASE state = Thumbnails ->
            /\ Advanced(Metadata) /\ Reply(i, Metadata)
            /\ gens' = IF Cli THEN Append(gens, [kind |-> "metadata", stage |-> "started"]) ELSE gens
       [] state = Metadata -> Advanced(Choice) /\ Reply(i, Choice) /\ gens' = gens
       [] OTHER -> Reply(i, Refused) /\ UNCHANGED <<state, events, gens>>
  /\ UNCHANGED <<rows, ui, count, calm>>

(* The first batch that is complete is enough, whichever it is.            *)
ServePreview(i) ==
  /\ pending[i].kind = "preview"
  /\ ui' = Mine(i, [ui EXCEPT !.ready = TRUE])
  /\ pending' = Others(i)
  /\ UNCHANGED <<server, events, count, calm>>

ServeRegenerate(i) ==
  /\ pending[i].kind = "regenerate"
  /\ gens' = IF state = Metadata /\ Cli
             THEN Append(gens, [kind |-> "metadata", stage |-> "started"]) ELSE gens
  /\ pending' = Others(i)
  /\ UNCHANGED <<state, rows, events, ui, count, calm>>

(* GenerateSingle: the state is looked at before the text is generated,    *)
(* the row is written after.                                               *)
ServeSingle(i) ==
  /\ pending[i].kind = "single"
  /\ \/ /\ ~pending[i].busy /\ state = Metadata /\ Cli
        /\ TakeUp(i)
        /\ UNCHANGED <<rows, count, calm>>
     \/ /\ ~pending[i].busy /\ (state # Metadata \/ ~Cli)
        /\ Reply(i, Refused)
        /\ UNCHANGED <<rows, count, calm>>
     \/ /\ pending[i].busy
        /\ rows' = [rows EXCEPT ![pending[i].clip].text = NewText]
        /\ Reply(i, NewText)
        /\ count' = [count EXCEPT !.texts = @ + 1]
        /\ calm' = (calm /\ state = Metadata /\ \A j \in DOMAIN gens : gens[j].kind # "metadata")
     \/ /\ pending[i].busy
        /\ Reply(i, Refused)
        /\ UNCHANGED <<rows, count, calm>>
  /\ UNCHANGED <<state, gens, events, ui>>

(* PostReviewMetadata and ReviewClips look at the state, write, and go on  *)
(* to the next state if it is still the same; nothing keeps two of them    *)
(* apart.  What is written before a failure stays.                         *)
WriteNext(i) == pending' = [pending EXCEPT ![i].clip = @ + 1]
BreakOff(i)  == Act /\ calm' = (calm /\ pending[i].clip = 0)

(* A clip that still has the title of the cut is refused.                  *)
ServeMetadata(i) ==
  LET texts == pending[i].body
      n     == pending[i].clip
      right == state = Metadata /\ \A c \in DOMAIN texts : texts[c] # 0
  IN
  /\ pending[i].kind = "metadata"
  /\ \/ /\ ~pending[i].busy
        /\ IF right THEN TakeUp(i) ELSE pending' = Others(i)
        /\ UNCHANGED <<rows, state, events, count, calm>>
     \/ /\ pending[i].busy /\ n < NumClips
        /\ rows' = [rows EXCEPT ![n + 1].text = texts[n + 1]]
        /\ WriteNext(i)
        /\ calm' = (calm /\ state = Metadata)
        /\ UNCHANGED <<state, events, count>>
     \/ /\ pending[i].busy /\ n = NumClips
        /\ IF state = Metadata THEN Advanced(Choice) ELSE UNCHANGED <<state, events>>
        /\ pending' = Others(i)
        /\ UNCHANGED <<rows, count, calm>>
     \/ /\ pending[i].busy
        /\ BreakOff(i)
        /\ pending' = Others(i)
        /\ UNCHANGED <<rows, state, events>>
  /\ UNCHANGED <<gens, ui>>

(* Another choice is being written.                                        *)
Rivalled(i) == \E j \in DOMAIN pending \ {i} :
                  pending[j].kind = "choice" /\ pending[j].busy /\ pending[j].reply = Null

(* The selection is one statement; a text that cannot be written is left.  *)
ServeChoice(i) ==
  LET body == pending[i].body
      n    == pending[i].clip
  IN
  /\ pending[i].kind = "choice"
  /\ \/ /\ ~pending[i].busy
        /\ IF state = Choice THEN TakeUp(i) ELSE Reply(i, Refused)
        /\ UNCHANGED <<rows, state, events, count, calm>>
     \/ /\ pending[i].busy /\ n <= NumClips
        /\ \/ /\ rows' = IF n = 0 THEN [c \in Clips |-> [rows[c] EXCEPT !.sel = c \in body.selected]]
                       ELSE [rows EXCEPT ![n].text = body.edits[n]]
              /\ count' = count
           \/ /\ n > 0 /\ Act
              /\ rows' = rows
        /\ WriteNext(i)
        /\ calm' = (calm /\ state = Choice /\ ~Rivalled(i))
        /\ UNCHANGED <<state, events>>
     \/ /\ pending[i].busy /\ n = NumClips + 1
        /\ IF state = Choice THEN Advanced(Confirm) /\ Reply(i, Confirm)
           ELSE Reply(i, Refused) /\ UNCHANGED <<state, events>>
        /\ UNCHANGED <<rows, count, calm>>
     \/ /\ pending[i].busy /\ n \in {0, NumClips + 1}
        /\ BreakOff(i)
        /\ Reply(i, Refused)
        /\ UNCHANGED <<rows, state, events>>
  /\ UNCHANGED <<gens, ui>>

Serve(i) ==
  /\ pending[i].reply = Null
  /\ \/ ServeLoad(i) \/ ServeGenerate(i) \/ ServeThumbnail(i) \/ ServeAdvance(i)
     \/ ServePreview(i) \/ ServeRegenerate(i) \/ ServeSingle(i)
     \/ ServeMetadata(i) \/ ServeChoice(i)
  /\ UNCHANGED <<live, store>>

(* A request does not reach the server.                                    *)
RequestFails(i) ==
  /\ pending[i].reply = Null /\ ~pending[i].busy
  /\ Act
  /\ CASE pending[i].kind \in {"regenerate", "metadata"} -> pending' = Others(i) /\ ui' = ui
       [] pending[i].kind = "generate" ->
            pending' = Others(i) /\ ui' = Mine(i, [ui EXCEPT !.generating = FALSE])
       [] OTHER -> pending[i].kind # "preview" /\ Reply(i, Refused) /\ ui' = ui
  /\ calm' = (calm /\ pending[i].kind # "load")
  /\ UNCHANGED <<server, events, live, store>>
-----------------------------------------------------------------------------
(* The page is answered.                                                   *)

(* An answer to loadClips that is out of date is still under way.          *)
Stale(reqs) == \E j \in DOMAIN reqs : /\ reqs[j].kind = "load"
                                       /\ reqs[j].reply \notin {Null, Refused, rows}

(* loadClips reports no failure: the step that waits for it goes on.       *)
Loaded(i) ==
  LET u == Mine(i, [ui EXCEPT !.loading = FALSE]) IN
  /\ pending[i].kind = "load"
  /\ IF pending[i].reply = Refused
     THEN ui' = u /\ pending' = Others(i) /\ UNCHANGED <<clips, calm>>
     ELSE SetClips(pending[i].reply, u, Others(i)) /\ calm' = (calm /\ ~Stale(Others(i)))
  /\ UNCHANGED <<top, shown, thumbnailProgress>>

(* A thumbnail that comes while texts are edited sets the editor back to   *)
(* the store's clips.                                                      *)
WithPath(c) == IF clips = <<>> THEN clips ELSE [clips EXCEPT ![c].path = TRUE]
Disturbs == shown > Thumbnails \/ Stale(pending)

ThumbnailGenerated(i) ==
  LET u == Mine(i, [ui EXCEPT !.slot = 0]) IN
  /\ pending[i].kind = "thumbnail"
  /\ IF pending[i].reply = Refused
     THEN ui' = u /\ pending' = Others(i) /\ UNCHANGED <<clips, calm>>
     ELSE SetClips(WithPath(pending[i].clip), u, Others(i)) /\ calm' = (calm /\ ~Disturbs)
  /\ UNCHANGED <<top, shown, thumbnailProgress>>

(* submitThumbnailConfig adds the state it is told to the history.         *)
AdvanceAnswered(i) ==
  /\ pending[i].kind = "advance"
  /\ IF pending[i].reply = Refused
     THEN pending' = Others(i) /\ UNCHANGED <<top, shown, thumbnailProgress, ui, calm>>
     ELSE /\ Show(pending[i].reply, pending[i].reply, Others(i))
          /\ thumbnailProgress' = "none"
          /\ calm' = (calm /\ pending[i].reply >= top)
  /\ clips' = clips

(* The button is disabled for the last clip it was pressed for only.       *)
AskedTwice(i) == \E j \in DOMAIN pending \ {i} :
                    pending[j].kind = "single" /\ pending[j].clip = pending[i].clip

(* The editor has the new text, the store's clips do not.                  *)
SingleGenerated(i) ==
  LET c == pending[i].clip
      u == [ui EXCEPT !.slot = 0]
  IN
  /\ pending[i].kind = "single"
  /\ ui' = Mine(i, IF pending[i].reply = Refused \/ ui.edits = <<>> THEN u
                   ELSE [u EXCEPT !.edits[c] = pending[i].reply, !.typed = @ \ {c}])
  /\ pending' = Others(i)
  /\ calm' = (calm /\ pending[i].mine /\ ~Stale(pending) /\ ~AskedTwice(i))
  /\ UNCHANGED <<top, shown, clips, thumbnailProgress>>

ChoiceAnswered(i) ==
  /\ pending[i].kind = "choice"
  /\ ui' = Mine(i, [ui EXCEPT !.submitting = FALSE])
  /\ pending' = Others(i)
  /\ UNCHANGED <<top, shown, clips, thumbnailProgress, calm>>

Answer(i) ==
  /\ pending[i].reply # Null
  /\ \/ Loaded(i) \/ ThumbnailGenerated(i) \/ AdvanceAnswered(i)
     \/ SingleGenerated(i) \/ ChoiceAnswered(i)
  /\ UNCHANGED <<server, events, live, metadataProgress, recorded, count>>
-----------------------------------------------------------------------------
(* The page receives an event.                                             *)

StateChanged(e) ==
  /\ e.type = "state"
  /\ IF e.to = top THEN UNCHANGED <<top, shown, ui, pending>> ELSE Show(e.to, e.to, pending)
  /\ UNCHANGED <<clips, thumbnailProgress, metadataProgress, calm>>

(* The effect is keyed on "is batch_done", not on the event.               *)
ThumbnailEvent(e) ==
  LET done == e.status = "batch_done" /\ thumbnailProgress # "batch_done" /\ shown = Thumbnails
      u    == IF done THEN [ui EXCEPT !.generating = FALSE] ELSE ui
  IN
  /\ e.type = "thumbnail"
  /\ thumbnailProgress' = e.status
  /\ IF e.status = "done"
     THEN /\ SetClips(WithPath(e.clip), u, pending)
          /\ calm' = (calm /\ ~Disturbs)
     ELSE ui' = u /\ UNCHANGED <<clips, pending, calm>>
  /\ UNCHANGED <<top, shown, metadataProgress>>

MetadataEvent(e) ==
  LET done == e.status = "done" /\ metadataProgress # "done" /\ shown = Metadata IN
  /\ e.type = "metadata"
  /\ metadataProgress' = e.status
  /\ ui' = IF done THEN OnDone(ui, clips) ELSE ui
  /\ pending' = IF done THEN pending \o DoneAsks(ui, clips) ELSE pending
  /\ UNCHANGED <<top, shown, clips, thumbnailProgress, calm>>

Deliver ==
  /\ live /\ events # <<>>
  /\ events' = Tail(events)
  /\ \/ StateChanged(Head(events))
     \/ ThumbnailEvent(Head(events))
     \/ MetadataEvent(Head(events))
  /\ UNCHANGED <<server, live, recorded, count>>

(* onerror closes the stream; the page does not open it again.             *)
StreamLost ==
  /\ live /\ Act
  /\ live' = FALSE /\ events' = <<>>
  /\ UNCHANGED <<server, store, ui, pending, calm>>

Next ==
  \/ GenerateAll \/ Continue
  \/ RegenerateAll \/ SubmitMetadata
  \/ SelectBatch \/ SubmitChoice \/ NavigateBack \/ Resubmit
  \/ \E c \in Clips : \/ RegenerateThumbnail(c) \/ UpdateEdit(c) \/ RegenerateMetadata(c)
                      \/ SelectToggle(c) \/ ChangeText(c)
  \/ \E i \in DOMAIN gens : ThumbnailStep(i) \/ MetadataStep(i)
  \/ \E i \in DOMAIN pending : Serve(i) \/ RequestFails(i) \/ Answer(i)
  \/ Deliver \/ StreamLost

Spec == Init /\ [][Next]_vars
-----------------------------------------------------------------------------
(* The button that generates thumbnails is disabled until the end of the   *)
(* batch is reported, and with it the way on: as long as the stream is     *)
(* open, that report is still to come.                                     *)
GeneratingEnds ==
  shown = Thumbnails /\ ui.generating /\ live =>
    \/ \E i \in DOMAIN pending : pending[i].kind = "generate" /\ pending[i].mine
    \/ \E i \in DOMAIN gens    : gens[i].kind = "thumbnails"
    \/ \E i \in DOMAIN events  : events[i].type = "thumbnail" /\ events[i].status = "batch_done"

Asked(kind) == \E i \in DOMAIN pending : pending[i].kind = kind

(* The loading screen has no button: while it is shown something is under  *)
(* way that can end it.                                                    *)
LoadingEnds ==
  calm /\ live /\ ShowLoading =>
    \/ Asked("load") \/ \E i \in DOMAIN pending : pending[i].kind = "preview" /\ pending[i].mine
    \/ gens # <<>> \/ events # <<>>

(* When nothing is under way, a step that nothing has disturbed shows what *)
(* the server has, but for what the user has edited; what is submitted     *)
(* writes nothing back that the user has not seen or typed.                *)
Quiet == pending = <<>> /\ gens = <<>> /\ events = <<>> /\ shown = top

ShownIsStored ==
  calm /\ live /\ Quiet =>
    CASE shown = Thumbnails -> clips = rows
      [] shown = Metadata   -> \A c \in Clips \ ui.typed : ui.edits[c] = rows[c].text
      [] shown = Choice     -> /\ \A c \in Clips \ ui.typed : ui.edits[c] = rows[c].text
                               /\ ui.toggled \/ ui.selected = {c \in Clips : rows[c].sel}
      [] OTHER              -> TRUE
=============================================================================
