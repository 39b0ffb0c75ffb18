------------------------------ MODULE ModeForm ------------------------------
(***************************************************************************)
(* The mode step of the web client (StepMode): a form that is filled from  *)
(* the settings of the server, from a preset or from an earlier            *)
(* submission, edited, saved key by key and sent as a ModeConfig.          *)
(*                                                                         *)
(* A section of the form is [on, num, text]: its switch, one of its        *)
(* numbers and choices, which stands for any of them, and whether its      *)
(* path, font or optional number is given.  num is 1 for the default, 0    *)
(* for a slider at zero, 2 for anything else; the minimum of the AI mode   *)
(* is a section of its own, in which 2 is longer than every target.        *)
(***************************************************************************)
EXTENDS Naturals, Sequences, FiniteSets, SequencesExt

CONSTANTS
  Durations,    \* lengths of videos, in seconds
  Names,        \* names of presets
  Earlier,      \* sections that an earlier session has switched on, with a text
  MaxClicks,    \* what the user does: shows the step, saves, submits (bound)
  MaxEdits,     \* clicks on the panels (bound)
  MaxFaults,    \* requests that fail (bound)
  None

ASSUME FormConstants ==
  /\ Durations \subseteq Nat /\ Earlier \subseteq {"captions", "music", "branding", "overlay"}
  /\ {MaxClicks, MaxEdits, MaxFaults} \subseteq Nat

VARIABLES
  settings,     \* server: app_settings, but for the presets
  stored,       \* server: the presets, newest first
  videoInfo,    \* store: the length of the video, 0 while unknown
  mounted,      \* "no", "fresh" or "historical": the step on the screen
  form,         \* the fields of the form
  isLoading,    \* isLoadingPreference
  load,         \* the answer to GET /api/settings, None before
  priorRun,     \* priorRunId is known
  presets,      \* the presets listed, newest first
  saves,        \* the preset requests in flight
  submits,      \* the submissions in flight: the form of the click, the PUTs to come
  sent,         \* the config of the last /advance: gateHistory holds it
  spent,        \* clicks, edits and faults so far
  kept,         \* history: the forms of which the settings should be made, and the
                \* keys that may still have the value of none of them
  source        \* history: the config the form was filled with, and what happened to it since

preferences == <<settings, stored>>
screen      == <<mounted, form, isLoading, load, priorRun, presets>>
formVars    == <<preferences, videoInfo, screen, saves, submits, sent, spent, kept, source>>

Toggled  == {"captions", "music", "branding", "overlay", "text"}
Modes    == {"ai", "longform"}
Sections == Toggled \cup {"ai", "minimum", "longform", "antiDup", "upload"}
Keys     == (Sections \X {"on", "num", "text"}) \cup {<<"mode", "num">>}

(* Sections with a number that can be zero and is something else by        *)
(* default, and sections with a text or a number that may be left empty.   *)
ZeroLost == {"captions", "music", "branding", "antiDup"}
WithText    == {"captions", "music", "branding", "overlay", "ai"}
Nums(s)  == IF s \in ZeroLost THEN 0 .. 2 ELSE 1 .. 2

Field(s)   == [on : BOOLEAN, num : Nums(s), text : IF s \in WithText THEN BOOLEAN ELSE {FALSE}]
Default(s) == [on |-> s \notin Toggled \cup {"antiDup"}, num |-> 1, text |-> FALSE]
Values     == [on : BOOLEAN, num : 0 .. 2, text : BOOLEAN]

ASSUME NoneIsNothing == None \notin Nat \cup Values

DefaultSections == [s \in Sections |-> Default(s)]

InitForm == [mode |-> "longform", segment |-> 600, reuse |-> FALSE, sec |-> DefaultSections]

(* segment_secs is a third of the video, or a half of a short one; Math.round *)
(* is to the nearest minute.                                               *)
Part(duration, parts) == 60 * ((2 * duration + 60 * parts) \div (120 * parts))
AutoSegment(duration) == IF Part(duration, 3) >= 480 THEN Part(duration, 3) ELSE Part(duration, 2)
Suggestions(duration) ==
  LET parts == {Part(duration, n) : n \in 1 .. 3} IN
  IF \E p \in parts : p >= 480 THEN {p \in parts : p >= 480} ELSE {1020, 1560, 3120}
-----------------------------------------------------------------------------
(* Form and config.                                                        *)

(* A section in a config; None where it is left out.                       *)
BuildSection(f, s) ==
  CASE s \in Toggled     -> IF f.sec[s].on THEN f.sec[s] ELSE None
    [] s = "antiDup"     -> IF f.sec[s].on THEN f.sec[s] ELSE [f.sec[s] EXCEPT !.num = 1]
    [] s \in Modes       -> IF f.mode = s THEN f.sec[s] ELSE None
    [] s = "minimum"     -> IF f.mode = "ai" THEN f.sec[s] ELSE None
    [] OTHER             -> f.sec[s]

BuildModeConfig(f) ==
  [mode |-> f.mode, segment |-> IF f.mode = "longform" THEN f.segment ELSE None,
   reuse |-> f.reuse, sec |-> [s \in Sections |-> BuildSection(f, s)]]

(* applyModeConfig: a section that is left out stays as it is, one that is *)
(* there brings its text only if it has one.  A config of the one mode     *)
(* brings the defaults of the other's minimum.                             *)
ApplySection(old, c, s) ==
  CASE s \in Toggled  -> IF c = None THEN old ELSE [c EXCEPT !.text = @ \/ old.text]
    [] s = "antiDup"  -> IF c.on THEN c ELSE [old EXCEPT !.on = FALSE]
    [] s = "ai"       -> IF c = None THEN old ELSE c
    [] OTHER          -> IF c = None THEN Default(s) ELSE c

ApplyModeConfig(f, cfg) ==
  [mode |-> cfg.mode, segment |-> f.segment, reuse |-> cfg.reuse,
   sec |-> [s \in Sections |-> ApplySection(f.sec[s], cfg.sec[s], s)]]

(* mutant: the texts are not read *)
RestoredTextless(f, saved) ==
  [f EXCEPT !.mode = saved.mode,
            !.sec = [s \in Sections |->
                       [saved.sec[s] EXCEPT !.num = IF s \in ZeroLost /\ @ = 0 THEN 1 ELSE @,
                                            !.text = FALSE]]]

(* The settings as they are read: parseInt(v) || fallback.                 *)
Restored(f, saved) ==
  [mode |-> saved.mode, segment |-> f.segment, reuse |-> f.reuse,
   sec |-> [s \in Sections |-> [saved.sec[s] EXCEPT !.num = IF s \in ZeroLost /\ @ = 0 THEN 1 ELSE @]]]

Forms ==
  {f \in [mode : Modes, segment : Nat, reuse : BOOLEAN, sec : [Sections -> Values]] :
     \A s \in Sections : f.sec[s] \in Field(s)}

Settings == {st \in [mode : Modes, sec : [Sections -> Values]] : \A s \in Sections : st.sec[s] \in Field(s)}

(* What BuildModeConfig can make of a form.                                *)
Configs ==
  {c \in [mode : Modes, segment : Nat \cup {None}, reuse : BOOLEAN, sec : [Sections -> Values \cup {None}]] :
     /\ (c.segment = None) = (c.mode = "ai")
     /\ \A s \in Sections : c.sec[s] \in Field(s) \cup {None}
     /\ \A s \in Toggled : c.sec[s] # None => c.sec[s].on
     /\ \A s \in Modes : (c.sec[s] = None) = (c.mode # s)
     /\ (c.sec["minimum"] = None) = (c.mode # "ai")
     /\ None \notin {c.sec["antiDup"], c.sec["upload"]}
     /\ ~c.sec["antiDup"].on => c.sec["antiDup"].num = 1}

Lists ==
  {list \in Seq([name : Names, cfg : Configs]) :
     \A i, j \in DOMAIN list : list[i].name = list[j].name => i = j}

Saves ==
  {r \in [op : {"put", "delete"}, name : Names, cfg : Configs \cup {None}, live : BOOLEAN,
          reply : {None, "answered", "lost"}] : r.op = "put" => r.cfg \in Configs}

Submissions ==
  [form : Forms, pending : SUBSET Keys, step : {"put", "advance"}, live : BOOLEAN]

FormTypeOK ==
  /\ settings \in Settings /\ form \in Forms
  /\ {stored, presets} \subseteq Lists
  /\ videoInfo \in Durations \cup {0}
  /\ mounted \in {"no", "fresh", "historical"} /\ {isLoading, priorRun} \subseteq BOOLEAN
  /\ isLoading => mounted = "fresh"
  /\ load # None => isLoading /\ load.settings \in Settings /\ load.presets \in Lists
                          /\ load.kept \subseteq Forms
  /\ sent \in Configs \cup {None}
  /\ saves \in Seq(Saves) /\ submits \in Seq(Submissions)
  /\ kept \in [forms : SUBSET Forms, open : SUBSET Keys]
  /\ source.from \in {"preset", "historical"} => source.cfg \in Configs
  /\ source.from = "settings" => source.cfg \subseteq Forms

FormInit ==
  /\ settings = [mode |-> "longform",
                 sec |-> [s \in Sections |-> IF s \in Earlier THEN [on |-> TRUE, num |-> 2, text |-> TRUE]
                                             ELSE Default(s)]]
  /\ stored = <<>>
  /\ videoInfo = 0
  /\ mounted = "no" /\ form = InitForm
  /\ isLoading = FALSE /\ load = None
  /\ priorRun = FALSE
  /\ presets = <<>>
  /\ saves = <<>> /\ submits = <<>> /\ sent = None
  /\ spent = [clicks |-> 0, edits |-> 0, faults |-> 0]
  /\ kept = [forms |-> {}, open |-> {}]
  /\ source = [from |-> "none", cfg |-> None, whole |-> TRUE]

Click == spent.clicks < MaxClicks /\ spent' = [spent EXCEPT !.clicks = @ + 1]
Fault == spent.faults < MaxFaults /\ spent' = [spent EXCEPT !.faults = @ + 1]
-----------------------------------------------------------------------------
(* The step appears and is filled.                                         *)

(* The effect on videoInfo, isLoadingPreference and isHistorical.          *)
Timed(f, duration) == IF duration = 0 THEN f ELSE [f EXCEPT !.segment = AutoSegment(duration)]

Applied(from, cfg) ==
  source' = [from |-> from, cfg |-> cfg, whole |-> source.whole /\ source.from = "none"]

MountFresh ==
  /\ mounted = "no"
  /\ Click
  /\ mounted' = "fresh" /\ isLoading' = TRUE
  /\ UNCHANGED <<preferences, videoInfo, form, load, priorRun, presets, saves, submits, sent, kept, source>>

(* Shown by going back: the config of the submission is in gateHistory.    *)
MountHistorical ==
  /\ mounted = "no" /\ sent # None
  /\ Click
  /\ mounted' = "historical"
  /\ form' = ApplyModeConfig(IF sent.segment = None THEN form ELSE [form EXCEPT !.segment = sent.segment],
                             sent)
  /\ Applied("historical", sent)
  /\ UNCHANGED <<preferences, videoInfo, isLoading, load, priorRun, presets, saves, submits, sent, kept>>

(* What is in flight goes on without the step, and is nobody's when it     *)
(* ends; a new run has no video yet.                                       *)
Orphaned(flights) == [i \in DOMAIN flights |-> [flights[i] EXCEPT !.live = FALSE]]

Unmount ==
  /\ mounted # "no"
  /\ mounted' = "no" /\ form' = InitForm
  /\ isLoading' = FALSE /\ load' = None
  /\ priorRun' = FALSE /\ presets' = <<>>
  /\ saves' = Orphaned(saves) /\ submits' = Orphaned(submits)
  /\ videoInfo' \in {0, videoInfo}
  /\ source' = [from |-> "none", cfg |-> None, whole |-> TRUE]
  /\ UNCHANGED <<preferences, sent, spent, kept>>

(* mutant: an earlier submission is not spared *)
VideoInfoAlways(d) ==
  /\ videoInfo' = d
  /\ form' = IF mounted # "no" /\ ~isLoading THEN Timed(form, d) ELSE form
  /\ UNCHANGED <<preferences, mounted, isLoading, load, priorRun, presets, saves, submits, sent, spent, kept,
                 source>>

VideoInfo(d) ==
  /\ videoInfo' = d
  /\ form' = IF mounted = "fresh" /\ ~isLoading THEN Timed(form, d) ELSE form
  /\ UNCHANGED <<preferences, mounted, isLoading, load, priorRun, presets, saves, submits, sent, spent, kept,
                 source>>

ServePreferences ==
  /\ isLoading /\ load = None
  /\ load' = [settings |-> settings, presets |-> stored,
              kept |-> IF kept.open = {} THEN kept.forms ELSE {}]
  /\ UNCHANGED <<preferences, videoInfo, mounted, form, isLoading, priorRun, presets, saves, submits, sent,
                 spent, kept, source>>

(* The newest preset, or else the settings.                                *)
LoadPreset ==
  /\ load # None /\ load.presets # <<>>
  /\ LET cfg == Head(load.presets).cfg IN
     /\ form' = Timed(ApplyModeConfig(form, cfg), videoInfo)
     /\ Applied("preset", cfg)
  /\ presets' = load.presets
  /\ isLoading' = FALSE /\ load' = None
  /\ UNCHANGED <<preferences, videoInfo, mounted, priorRun, saves, submits, sent, spent, kept>>

LoadSettings ==
  /\ load # None /\ load.presets = <<>>
  /\ form' = Timed(Restored(form, load.settings), videoInfo)
  /\ Applied("settings", load.kept)
  /\ presets' = <<>>
  /\ isLoading' = FALSE /\ load' = None
  /\ UNCHANGED <<preferences, videoInfo, mounted, priorRun, saves, submits, sent, spent, kept>>

LoadFailed ==
  /\ isLoading /\ load = None
  /\ Fault
  /\ form' = Timed([form EXCEPT !.mode = "longform"], videoInfo)
  /\ source' = [from |-> "none", cfg |-> None, whole |-> FALSE]
  /\ isLoading' = FALSE
  /\ UNCHANGED <<preferences, videoInfo, mounted, load, priorRun, presets, saves, submits, sent, kept>>

PriorClips ==
  /\ mounted = "fresh" /\ ~isLoading /\ ~priorRun
  /\ priorRun' = TRUE
  /\ UNCHANGED <<preferences, videoInfo, mounted, form, isLoading, load, presets, saves, submits, sent, spent,
                 kept, source>>
-----------------------------------------------------------------------------
(* What one click on a panel makes of the form; the fields stay enabled    *)
(* while the preferences are loading.                                      *)

Switched(f, s) == [f EXCEPT !.sec[s].on = ~@]
Chosen(f, s)   == {[f EXCEPT !.sec[s].num = n] : n \in Nums(s)}
Written(f, s)  == [f EXCEPT !.sec[s].text = ~@]

(* A panel with a switch shows its fields while it is on.                  *)
TextPanel(f)     == {Switched(f, "text")} \cup IF f.sec["text"].on THEN Chosen(f, "text") ELSE {}
AntiDupPanel(f)  == {Switched(f, "antiDup")}
                    \cup IF f.sec["antiDup"].on THEN Chosen(f, "antiDup") ELSE {}
OverlayPanel(f)  == {Switched(f, "overlay")} \cup IF f.sec["overlay"].on
                    THEN Chosen(f, "overlay") \cup {Written(f, "overlay")} ELSE {}
BrandingPanel(f) == {Switched(f, "branding")} \cup IF f.sec["branding"].on
                    THEN Chosen(f, "branding") \cup {Written(f, "branding")} ELSE {}
MusicPanel(f)    == {Switched(f, "music")} \cup IF f.sec["music"].on
                    THEN Chosen(f, "music") \cup {Written(f, "music")} ELSE {}
CaptionsPanel(f) == {Switched(f, "captions")} \cup IF f.sec["captions"].on
                    THEN Chosen(f, "captions") \cup {Written(f, "captions")} ELSE {}
UploadPanel(f)   == Chosen(f, "upload")
ReusePanel(f)    == IF priorRun THEN {[f EXCEPT !.reuse = ~@]} ELSE {}
ModeCards(f)     == {[f EXCEPT !.mode = mode] : mode \in Modes}
AiPanel(f)       == IF f.mode = "ai" THEN Chosen(f, "ai") \cup Chosen(f, "minimum") \cup {Written(f, "ai")}
                    ELSE {}
LongformPanel(f) ==
  IF f.mode = "longform"
  THEN Chosen(f, "longform") \cup {[f EXCEPT !.segment = p] : p \in Suggestions(videoInfo)}
  ELSE {}

Clicks == UNION {TextPanel(form), AntiDupPanel(form), OverlayPanel(form), BrandingPanel(form),
                 MusicPanel(form), CaptionsPanel(form), UploadPanel(form), ReusePanel(form),
                 ModeCards(form), AiPanel(form), LongformPanel(form)}

Edit ==
  /\ mounted # "no"
  /\ spent.edits < MaxEdits /\ spent' = [spent EXCEPT !.edits = @ + 1]
  /\ form' \in Clicks \ {form}
  /\ source' = [from |-> "none", cfg |-> None, whole |-> FALSE]
  /\ UNCHANGED <<preferences, videoInfo, mounted, isLoading, load, priorRun, presets, saves, submits, sent,
                 kept>>
-----------------------------------------------------------------------------
(* Presets.  The status of an answer is not looked at, and nothing keeps   *)
(* two requests apart.                                                     *)

(* The name is in a list at most once (FormTypeOK).                        *)
Without(list, name) ==
  IF \E i \in DOMAIN list : list[i].name = name
  THEN RemoveAt(list, CHOOSE i \in DOMAIN list : list[i].name = name)
  ELSE list

Listed == DOMAIN presets

SelectPreset(i) ==
  /\ Click
  /\ form' = ApplyModeConfig(form, presets[i].cfg)
  /\ Applied("preset", presets[i].cfg)
  /\ UNCHANGED <<preferences, videoInfo, mounted, isLoading, load, priorRun, presets, saves, submits, sent, kept>>

AskSave(request) ==
  /\ Click
  /\ saves' = Append(saves, request)
  /\ UNCHANGED <<preferences, videoInfo, screen, submits, sent, kept, source>>

SavePreset(name) ==
  /\ mounted # "no"
  /\ AskSave([op |-> "put", name |-> name, cfg |-> BuildModeConfig(form), live |-> TRUE, reply |-> None])

DeletePreset(i) ==
  AskSave([op |-> "delete", name |-> presets[i].name, cfg |-> None, live |-> TRUE, reply |-> None])

(* A list after the request: the preset put first, or gone.                *)
After(list, request) ==
  (IF request.op = "put" THEN <<[name |-> request.name, cfg |-> request.cfg]>> ELSE <<>>)
  \o Without(list, request.name)

ServeSave(i) ==
  /\ saves[i].reply = None
  /\ \/ /\ stored' = After(stored, saves[i])
        /\ saves' = [saves EXCEPT ![i].reply = "answered"]
        /\ UNCHANGED spent
     \/ /\ Fault
        /\ \E reply \in {"answered", "lost"} : saves' = [saves EXCEPT ![i].reply = reply]
        /\ stored' \in {stored, After(stored, saves[i])}
  /\ UNCHANGED <<settings, videoInfo, screen, submits, sent, kept, source>>

SaveAnswered(i) ==
  /\ saves[i].reply # None
  /\ presets' = IF saves[i].live /\ saves[i].reply = "answered" THEN After(presets, saves[i]) ELSE presets
  /\ saves' = RemoveAt(saves, i)
  /\ UNCHANGED <<preferences, videoInfo, mounted, form, isLoading, load, priorRun, submits, sent, spent, kept,
                 source>>
-----------------------------------------------------------------------------
(* handleSubmit.  A text that is empty is refused by PUT /api/settings,    *)
(* which wants a value.  The button waits for the submission of this       *)
(* component: one that was begun before a remount goes on beside the next. *)

Live(flights) == {i \in DOMAIN flights : flights[i].live}
SubmitDisabled == isLoading \/ Live(submits) # {} \/ (form.mode = "ai" /\ form.sec["minimum"].num = 2)

Saved(old, new, field) ==
  CASE field = "on"  -> [old EXCEPT !.on = new.on]
    [] field = "num" -> [old EXCEPT !.num = new.num]
    [] OTHER         -> [old EXCEPT !.text = @ \/ new.text]
With(old, f, k) ==
  IF k[1] = "mode" THEN [old EXCEPT !.mode = f.mode]
  ELSE [old EXCEPT !.sec[k[1]] = Saved(@, f.sec[k[1]], k[2])]

(* The keys whose PUT changes something.                                   *)
Changes(f, k)   ==
  IF k[1] = "mode" THEN settings.mode # f.mode
  ELSE LET old == settings.sec[k[1]] IN Saved(old, f.sec[k[1]], k[2]) # old
SettingPairs(f) == {k \in Keys : Changes(f, k)}

Putting == {i \in DOMAIN submits : submits[i].step = "put"}

(* The PUTs of two submissions may mix, and then the settings do.          *)
Submit ==
  /\ mounted # "no" /\ ~SubmitDisabled
  /\ Click
  /\ submits' = Append(submits, [form |-> form, pending |-> Keys, step |-> "put", live |-> TRUE])
  /\ kept' = IF Putting = {} THEN [forms |-> {form}, open |-> SettingPairs(form)]
             ELSE [kept EXCEPT !.forms = @ \cup {form}, !.open = @ \cap SettingPairs(form)]
  /\ UNCHANGED <<preferences, videoInfo, screen, saves, sent, source>>

(* A PUT that changes nothing, and of which no other submission has a      *)
(* different one to come, is answered with the last.                       *)
Differs(f, g, k) == IF k[1] = "mode" THEN f.mode # g.mode ELSE f.sec[k[1]][k[2]] # g.sec[k[1]][k[2]]
Matters(i, k) ==
  \/ Changes(submits[i].form, k)
  \/ \E j \in Putting : k \in submits[j].pending /\ Differs(submits[i].form, submits[j].form, k)

Put(i, k) ==
  /\ k \in submits[i].pending /\ Matters(i, k)
  /\ settings' = With(settings, submits[i].form, k)
  /\ submits' = [submits EXCEPT ![i].pending = @ \ {k}]
  /\ kept' = [kept EXCEPT !.open = @ \ {k}]
  /\ UNCHANGED <<stored, videoInfo, screen, saves, sent, spent, source>>

(* It may have been served all the same.                                   *)
PutFails(i, k) ==
  /\ k \in submits[i].pending /\ Matters(i, k)
  /\ Fault
  /\ settings' \in {settings, With(settings, submits[i].form, k)}
  /\ submits' = [submits EXCEPT ![i].pending = @ \ {k}]
  /\ UNCHANGED <<stored, videoInfo, screen, saves, sent, kept, source>>

(* The config of the click, however long the PUTs took; it is recorded     *)
(* before the answer, if the run on the page is at this gate.              *)
Advance(i) ==
  /\ submits[i].step = "put" /\ \A k \in submits[i].pending : ~Changes(submits[i].form, k)
  /\ \/ sent' = BuildModeConfig(submits[i].form)
     \/ ~submits[i].live /\ sent' = sent
  /\ submits' = [submits EXCEPT ![i].step = "advance", ![i].pending = {}]
  /\ UNCHANGED <<preferences, videoInfo, screen, saves, spent, kept, source>>

SubmitDone(i) ==
  /\ submits[i].step = "advance"
  /\ submits' = RemoveAt(submits, i)
  /\ UNCHANGED <<preferences, videoInfo, screen, saves, sent, spent, kept, source>>
-----------------------------------------------------------------------------
Loading    == ServePreferences \/ LoadPreset \/ LoadSettings \/ LoadFailed
Saving     == \E i \in DOMAIN saves : ServeSave(i) \/ SaveAnswered(i)
Submitting == \E i \in DOMAIN submits : \/ \E k \in Keys : Put(i, k) \/ PutFails(i, k)
                                      \/ Advance(i) \/ SubmitDone(i)

FormNext ==
  \/ MountFresh \/ MountHistorical \/ Unmount
  \/ \E d \in Durations : VideoInfo(d)
  \/ Loading \/ PriorClips
  \/ Edit
  \/ \E i \in Listed : SelectPreset(i) \/ DeletePreset(i)
  \/ \E name \in Names : SavePreset(name)
  \/ Saving
  \/ Submit \/ Submitting

FormSpec == FormInit /\ [][FormNext]_formVars
-----------------------------------------------------------------------------
(* What b says of the sections of c it says as c does; a text that is not  *)
(* in c may be left from before.                                           *)
Agrees(b, c) ==
  /\ b.mode = c.mode
  /\ \A s \in Sections :
        c.sec[s] # None => /\ b.sec[s] # None
                           /\ b.sec[s] \in {c.sec[s], [c.sec[s] EXCEPT !.text = TRUE]}

(* What a preset or an earlier submission has put into the form is what    *)
(* would be submitted, as long as nothing is edited: the sections of the   *)
(* config are all taken over, and the form as a whole is the config if it  *)
(* was the first thing to fill it.  The length of the parts follows the    *)
(* video, but that of an earlier submission is kept.                       *)
FormIsTheConfig ==
  LET b == BuildModeConfig(form)
      c == source.cfg
  IN
  source.from \in {"preset", "historical"} =>
     /\ Agrees(b, c) /\ b.reuse = c.reuse
     /\ source.whole => b.sec = c.sec
     /\ source.from = "historical" => b.segment = c.segment

(* The preferences survive a submission, the loss of the page and the next *)
(* load: if all of them were saved and none is edited, the form is what    *)
(* was submitted last, but for what this run or video decides, numbers at  *)
(* zero and texts that were emptied.  Of submissions that overlapped, as   *)
(* one does with another begun after a remount, each switch and each       *)
(* number is one of theirs, and a text that all of them had is there       *)
(* (StepMode:236-425, 592-700).                                            *)
Remembered ==
  source.from = "settings" /\ source.cfg # {} =>
     /\ \E f \in source.cfg : form.mode = f.mode
     /\ \A s \in Sections :
           /\ \E f \in source.cfg : form.sec[s].on = f.sec[s].on
           /\ \E f \in source.cfg :
                 form.sec[s].num = IF s \in ZeroLost /\ f.sec[s].num = 0 THEN 1 ELSE f.sec[s].num
           /\ (\A f \in source.cfg : f.sec[s].text) => form.sec[s].text

=============================================================================
