---------------------------- MODULE StepsProofs ----------------------------
(***************************************************************************)
(* Proofs about the steps of the web client.                               *)
(*                                                                         *)
(* ModeForm: the form is what a preset or an earlier submission has put    *)
(* into it, and a submission is found again in the settings.               *)
(*                                                                         *)
(* ReviewSteps: what is shown as being done is under way, and what is      *)
(* shown when nothing is under way is what the server has stored.          *)
(***************************************************************************)
EXTENDS ModeForm, ReviewSteps, RangeFacts, TLAPS
-----------------------------------------------------------------------------
(* The inductive invariant of the mode step.                               *)

(* A section is another one, up to a text that is left from before.        *)
Taken(v, w) == v \in {w, [w EXCEPT !.text = TRUE]}

(* The settings have a key as a form has it, or a text from before.        *)
Fields == {"on", "num", "text"}
HasField(v, w, d) == CASE d = "on" -> v.on = w.on [] d = "num" -> v.num = w.num [] OTHER -> w.text => v.text
Has(st, f, k) == IF k[1] = "mode" THEN st.mode = f.mode ELSE HasField(st.sec[k[1]], f.sec[k[1]], k[2])

(* They have a key as one of the forms has it; so they have all keys.      *)
OneOf(st, F, k) == \E f \in F : Has(st, f, k)
Holds(st, F)    == \A k \in Keys : OneOf(st, F, k)

Untouched == source.from = "none" /\ source.whole => form.sec = DefaultSections

FromHistory == source.from = "historical" => mounted = "historical"

(* What is still to be put is of one of those forms.                       *)
Submitted ==
  \A x \in Range(submits) : /\ x.step = "put" => x.form \in kept.forms
                            /\ x.step = "advance" => x.pending = {}

Kept == kept.forms # {} => \A k \in Keys \ kept.open : OneOf(settings, kept.forms, k)

LoadHolds == load # None /\ load.kept # {} => Holds(load.settings, load.kept)

FormIInv ==
  /\ FormTypeOK /\ Untouched /\ FromHistory /\ Submitted /\ Kept /\ LoadHolds
  /\ FormIsTheConfig /\ Remembered
-----------------------------------------------------------------------------
(* Forms and configs.                                                      *)

LEMMA Numbers == ASSUME NEW s \in Sections PROVE 1 \in Nums(s) /\ Nums(s) \subseteq 0 .. 2
BY DEF Nums, ZeroLost

LEMMA NumberOne ==
  ASSUME NEW s \in Sections, NEW v \in Values, v \in Field(s)
  PROVE  [v EXCEPT !.num = 1] \in Field(s) /\ [v EXCEPT !.num = 1] \in Values
<1>1. [v EXCEPT !.num = 1] = [on |-> v.on, num |-> 1, text |-> v.text] BY DEF Values
<1>. QED BY <1>1, Numbers DEF Field, Values

LEMMA DefaultField ==
  ASSUME NEW s \in Sections
  PROVE  Default(s) \in Field(s) /\ Default(s) \in Values /\ ~Default(s).text
         /\ (s \in Toggled => ~Default(s).on)
<1>1. FALSE \in IF s \in WithText THEN BOOLEAN ELSE {FALSE} OBVIOUS
<1>2. (s \notin Toggled \cup {"antiDup"}) \in BOOLEAN OBVIOUS
<1>. QED BY <1>1, <1>2, Numbers DEF Default, Field, Values

(* A section of a form is a section of the config built from it, or none.  *)
LEMMA BuiltSection ==
  ASSUME NEW f \in Forms, NEW s \in Sections
  PROVE  LET v == BuildSection(f, s) IN
         /\ v \in Field(s) \cup {None} /\ v \in Values \cup {None}
         /\ s \in Toggled => (v = None) = ~f.sec[s].on /\ (v # None => v = f.sec[s])
         /\ s \in Modes => (v = None) = (f.mode # s) /\ (v # None => v = f.sec[s])
         /\ s = "minimum" => (v = None) = (f.mode # "ai") /\ (v # None => v = f.sec[s])
         /\ s = "upload" => v = f.sec[s] /\ v # None
         /\ s = "antiDup" => v # None /\ v.on = f.sec[s].on /\ (v.on => v = f.sec[s]) /\ (~v.on => v.num = 1)
<1>. DEFINE w == f.sec[s]
<1>1. w \in Values /\ w \in Field(s) /\ w # None BY NoneIsNothing DEF Forms
<1>2. CASE s \in Toggled BY <1>1, <1>2 DEF BuildSection, Toggled, Modes
<1>3. CASE s \in Modes BY <1>1, <1>3 DEF BuildSection, Toggled, Modes
<1>4. CASE s = "upload" BY <1>1, <1>4 DEF BuildSection, Toggled, Modes
<1>5. CASE s = "antiDup"
  <2>1. BuildSection(f, s) = IF w.on THEN w ELSE [w EXCEPT !.num = 1]
    BY <1>5 DEF BuildSection, Toggled, Modes
  <2>2. [w EXCEPT !.num = 1] \in Field(s) /\ [w EXCEPT !.num = 1] \in Values
    BY <1>1, NumberOne
  <2>. QED BY <1>1, <1>5, <2>1, <2>2, NoneIsNothing DEF Values, Toggled, Modes
<1>6. CASE s = "minimum" BY <1>1, <1>6 DEF BuildSection, Toggled, Modes
<1>. QED BY <1>2, <1>3, <1>4, <1>5, <1>6 DEF Sections, Modes

LEMMA BuiltConfig == ASSUME NEW f \in Forms PROVE BuildModeConfig(f) \in Configs
<1>. DEFINE b == BuildModeConfig(f)
<1>1. /\ b.mode = f.mode /\ b.reuse = f.reuse /\ f.mode \in Modes /\ f.segment \in Nat
      /\ b.segment = IF f.mode = "longform" THEN f.segment ELSE None
      /\ b.sec = [s \in Sections |-> BuildSection(f, s)] /\ f.reuse \in BOOLEAN
  BY DEF BuildModeConfig, Forms
<1>2. \A s \in Sections : BuildSection(f, s) \in Values \cup {None} BY BuiltSection
<1>3. b \in [mode : Modes, segment : Nat \cup {None}, reuse : BOOLEAN,
             sec : [Sections -> Values \cup {None}]]
  BY <1>1, <1>2 DEF BuildModeConfig
<1>4. (b.segment = None) = (b.mode = "ai") BY <1>1, NoneIsNothing DEF Modes
<1>5. \A s \in Sections : b.sec[s] = BuildSection(f, s) BY <1>1
<1>6. \A s \in Sections : b.sec[s] \in Field(s) \cup {None} BY <1>5, BuiltSection
<1>7. \A s \in Toggled : b.sec[s] # None => b.sec[s].on BY <1>5, BuiltSection DEF Sections
<1>8. \A s \in Modes : (b.sec[s] = None) = (b.mode # s) BY <1>1, <1>5, BuiltSection DEF Sections, Modes
<1>9. /\ None \notin {b.sec["antiDup"], b.sec["upload"]}
      /\ ~b.sec["antiDup"].on => b.sec["antiDup"].num = 1
  BY <1>5, BuiltSection DEF Sections
<1>10. (b.sec["minimum"] = None) = (b.mode # "ai") BY <1>1, <1>5, BuiltSection DEF Sections
<1>11. SUFFICES b \in Configs OBVIOUS
<1>. HIDE DEF b
<1>. QED BY <1>3, <1>4, <1>6, <1>7, <1>8, <1>9, <1>10 DEF Configs

(* What applying a config makes of a section.                              *)
LEMMA AppliedSection ==
  ASSUME NEW f \in Forms, NEW c \in Configs, NEW s \in Sections
  PROVE  LET old == f.sec[s]
             v   == ApplySection(old, c.sec[s], s)
         IN
         /\ v \in Field(s) /\ v \in Values
         /\ c.sec[s] # None /\ s # "antiDup" => Taken(v, c.sec[s])
         /\ s \in Toggled /\ c.sec[s] = None => v = old
         /\ s = "antiDup" => v.on = c.sec[s].on /\ (v.on => v = c.sec[s])
         /\ c.sec[s] # None /\ s \in Toggled => v.on
         /\ c.sec[s] # None /\ s # "antiDup" /\ ~old.text => v = c.sec[s]
<1>. DEFINE old == f.sec[s]
            d == c.sec[s]
<1>1. /\ old \in Values /\ old \in Field(s) /\ d \in Field(s) \cup {None} /\ d \in Values \cup {None}
      /\ None \notin Values
  BY NoneIsNothing DEF Forms, Configs
<1>2. Default(s) \in Field(s) /\ Default(s) \in Values
  BY DefaultField
<1>3. CASE s \in Toggled
  <2>1. CASE d = None BY <1>1, <1>3, <2>1 DEF ApplySection, Toggled
  <2>2. CASE d # None
    <3>1. d \in Values /\ d \in Field(s) /\ d.on BY <1>1, <1>3, <2>2 DEF Configs
    <3>2. ApplySection(old, d, s) = [d EXCEPT !.text = @ \/ old.text]
      BY <1>3, <2>2 DEF ApplySection, Toggled, Modes
    <3>3. [d EXCEPT !.text = @ \/ old.text] \in Values /\ [d EXCEPT !.text = @ \/ old.text] \in Field(s)
      BY <1>1, <3>1 DEF Values, Field
    <3>4. [d EXCEPT !.text = @ \/ old.text] = IF old.text THEN [d EXCEPT !.text = TRUE] ELSE d
      BY <1>1, <3>1 DEF Values
    <3>. QED BY <1>1, <1>3, <2>2, <3>1, <3>2, <3>3, <3>4 DEF Taken, Toggled, Values
  <2>. QED BY <2>1, <2>2
<1>4. CASE s = "antiDup"
  <2>1. d # None /\ d \in Values /\ d \in Field(s) BY <1>1, <1>4 DEF Configs
  <2>2. ApplySection(old, d, s) = IF d.on THEN d ELSE [old EXCEPT !.on = FALSE]
    BY <1>4 DEF ApplySection, Toggled
  <2>3. [old EXCEPT !.on = FALSE] \in Values /\ [old EXCEPT !.on = FALSE] \in Field(s)
    BY <1>1 DEF Values, Field
  <2>. QED BY <1>1, <1>4, <2>1, <2>2, <2>3 DEF Toggled, Values
<1>5. CASE s \in {"longform", "minimum"} BY <1>1, <1>2, <1>5 DEF ApplySection, Toggled, Taken
<1>6. CASE s = "ai" BY <1>1, <1>6 DEF ApplySection, Toggled, Taken
<1>7. CASE s = "upload"
  <2>1. d # None BY <1>7 DEF Configs
  <2>. QED BY <1>1, <1>7, <2>1 DEF ApplySection, Toggled, Taken
<1>. QED BY <1>3, <1>4, <1>5, <1>6, <1>7 DEF Sections

LEMMA AppliedForm ==
  ASSUME NEW f \in Forms, NEW c \in Configs
  PROVE  LET g == ApplyModeConfig(f, c) IN
         /\ g \in Forms /\ g.mode = c.mode /\ g.reuse = c.reuse /\ g.segment = f.segment
         /\ \A s \in Sections : g.sec[s] = ApplySection(f.sec[s], c.sec[s], s)
<1>. DEFINE g == ApplyModeConfig(f, c)
<1>1. \A s \in Sections : /\ ApplySection(f.sec[s], c.sec[s], s) \in Values
                          /\ ApplySection(f.sec[s], c.sec[s], s) \in Field(s)
  BY AppliedSection
<1>2. /\ g.mode = c.mode /\ g.reuse = c.reuse /\ g.segment = f.segment
      /\ g.sec = [s \in Sections |-> ApplySection(f.sec[s], c.sec[s], s)]
      /\ g = [mode |-> c.mode, segment |-> f.segment, reuse |-> c.reuse, sec |-> g.sec]
      /\ c.mode \in Modes /\ c.reuse \in BOOLEAN /\ f.segment \in Nat
  <2>1. /\ f = [mode |-> f.mode, segment |-> f.segment, reuse |-> f.reuse, sec |-> f.sec]
        /\ f.segment \in Nat /\ c.mode \in Modes /\ c.reuse \in BOOLEAN
    BY DEF Forms, Configs
  <2>2. g = [mode |-> c.mode, segment |-> f.segment, reuse |-> c.reuse,
             sec |-> [s \in Sections |-> ApplySection(f.sec[s], c.sec[s], s)]]
    BY DEF ApplyModeConfig
  <2>. QED BY <2>1, <2>2
<1>3. \A s \in Sections : g.sec[s] = ApplySection(f.sec[s], c.sec[s], s) BY <1>2
<1>4. g.sec \in [Sections -> Values] BY <1>1, <1>2
<1>5. g \in [mode : Modes, segment : Nat, reuse : BOOLEAN, sec : [Sections -> Values]]
  BY <1>2, <1>4
<1>6. g \in Forms
  <2>. HIDE DEF g
  <2>. QED BY <1>1, <1>3, <1>5 DEF Forms
<1>. QED BY <1>2, <1>3, <1>6

(* A form filled with a config is the config, when it is built again.      *)
LEMMA AppliedIsTheConfig ==
  ASSUME NEW f \in Forms, NEW c \in Configs, NEW g \in Forms,
         g.mode = c.mode, g.reuse = c.reuse,
         \A s \in Sections : g.sec[s] = ApplySection(f.sec[s], c.sec[s], s)
  PROVE  LET b == BuildModeConfig(g) IN
         /\ Agrees(b, c) /\ b.reuse = c.reuse
         /\ f.sec = DefaultSections => b.sec = c.sec
<1>. DEFINE b == BuildModeConfig(g)
<1>1. /\ b.mode = c.mode /\ b.reuse = c.reuse
      /\ b.sec = [s \in Sections |-> BuildSection(g, s)]
  BY DEF BuildModeConfig
<1>2. ASSUME NEW s \in Sections
      PROVE  /\ c.sec[s] # None => b.sec[s] # None /\ Taken(b.sec[s], c.sec[s])
             /\ ~f.sec[s].text /\ (s \in Toggled => ~f.sec[s].on) => b.sec[s] = c.sec[s]
  <2>. DEFINE d == c.sec[s]
              v == g.sec[s]
              w == b.sec[s]
  <2>1. w = BuildSection(g, s) /\ v = ApplySection(f.sec[s], d, s) BY <1>1
  <2>2. /\ w \in Field(s) \cup {None} /\ w \in Values \cup {None} /\ v \in Values /\ None \notin Values
        /\ d \in Values \cup {None}
    BY <2>1, BuiltSection, NoneIsNothing DEF Forms, Configs
  <2>3. CASE s \in Toggled
    <3>1. (w = None) = ~v.on /\ (w # None => w = v) BY <2>1, <2>3, BuiltSection
    <3>2. d # None => Taken(v, d) /\ v.on /\ (~f.sec[s].text => v = d)
      BY <2>1, <2>3, AppliedSection DEF Toggled
    <3>3. d = None => v = f.sec[s] BY <2>1, <2>3, AppliedSection
    <3>. QED BY <2>2, <2>3, <3>1, <3>2, <3>3
  <2>4. CASE s \in Modes
    <3>1. (w = None) = (c.mode # s) /\ (w # None => w = v) BY <2>1, <2>4, BuiltSection
    <3>2. (d = None) = (c.mode # s) BY <2>4 DEF Configs
    <3>3. d # None => Taken(v, d) /\ (~f.sec[s].text => v = d)
      BY <2>1, <2>4, AppliedSection DEF Modes
    <3>. QED BY <2>2, <2>4, <3>1, <3>2, <3>3 DEF Modes, Toggled
  <2>7. CASE s = "minimum"
    <3>1. (w = None) = (c.mode # "ai") /\ (w # None => w = v) BY <2>1, <2>7, BuiltSection
    <3>2. (d = None) = (c.mode # "ai") BY <2>7 DEF Configs
    <3>3. d # None => Taken(v, d) /\ (~f.sec[s].text => v = d)
      BY <2>1, <2>7, AppliedSection
    <3>. QED BY <2>2, <2>7, <3>1, <3>2, <3>3
  <2>5. CASE s = "upload"
    <3>1. w = v /\ w # None BY <2>1, <2>5, BuiltSection
    <3>2. d # None BY <2>5 DEF Configs
    <3>3. Taken(v, d) /\ (~f.sec[s].text => v = d)
      BY <2>1, <2>5, <3>2, AppliedSection
    <3>. QED BY <2>2, <2>5, <3>1, <3>2, <3>3
  <2>6. CASE s = "antiDup"
    <3>1. w # None /\ w.on = v.on /\ (w.on => w = v) /\ (~w.on => w.num = 1)
      BY <2>1, <2>6, BuiltSection
    <3>2. d # None /\ d \in Field(s) /\ (~d.on => d.num = 1) BY <2>6 DEF Configs
    <3>3. v.on = d.on /\ (v.on => v = d) BY <2>1, <2>6, AppliedSection
    <3>4. w.text = FALSE /\ d.text = FALSE BY <2>2, <2>6, <3>1, <3>2 DEF Field, WithText
    <3>5. w = d BY <2>2, <3>1, <3>2, <3>3, <3>4 DEF Values
    <3>. QED BY <3>1, <3>2, <3>5 DEF Taken
  <2>. QED BY <2>3, <2>4, <2>5, <2>6, <2>7 DEF Sections, Modes
<1>3. Agrees(b, c) BY <1>1, <1>2 DEF Agrees, Taken
<1>4. ASSUME f.sec = DefaultSections PROVE b.sec = c.sec
  <2>1. \A s \in Sections : f.sec[s] = Default(s) BY <1>4 DEF DefaultSections
  <2>2. \A s \in Sections : b.sec[s] = c.sec[s] BY <1>2, <2>1, DefaultField
  <2>3. c.sec \in [Sections -> Values \cup {None}] BY DEF Configs
  <2>. QED BY <1>1, <2>2, <2>3
<1>. QED BY <1>1, <1>3, <1>4

LEMMA RestoredForm ==
  ASSUME NEW f \in Forms, NEW st \in Settings
  PROVE  LET g == Restored(f, st) IN
         /\ g \in Forms /\ g.mode = st.mode
         /\ \A s \in Sections : LET v == g.sec[s] IN
               /\ v.on = st.sec[s].on /\ v.text = st.sec[s].text
               /\ v.num = IF s \in ZeroLost /\ st.sec[s].num = 0 THEN 1 ELSE st.sec[s].num
<1>. DEFINE g == Restored(f, st)
            num(s) == IF s \in ZeroLost /\ st.sec[s].num = 0 THEN 1 ELSE st.sec[s].num
            S == [s \in Sections |-> [st.sec[s] EXCEPT !.num = num(s)]]
<1>1. ASSUME NEW s \in Sections
      PROVE  /\ [st.sec[s] EXCEPT !.num = num(s)] \in Field(s)
             /\ [st.sec[s] EXCEPT !.num = num(s)] \in Values
             /\ S[s].on = st.sec[s].on /\ S[s].text = st.sec[s].text /\ S[s].num = num(s)
  <2>1. st.sec[s] \in Values /\ st.sec[s] \in Field(s) BY DEF Settings
  <2>2. num(s) \in Nums(s) BY <2>1, Numbers DEF Field
  <2>. HIDE DEF num
  <2>3. [st.sec[s] EXCEPT !.num = num(s)] = [on |-> st.sec[s].on, num |-> num(s), text |-> st.sec[s].text]
    BY <2>1 DEF Values
  <2>4. S[s] = [st.sec[s] EXCEPT !.num = num(s)] OBVIOUS
  <2>. QED BY <2>1, <2>2, <2>3, <2>4, Numbers DEF Values, Field
<1>2. g = [mode |-> st.mode, segment |-> f.segment, reuse |-> f.reuse, sec |-> S] BY DEF Restored
<1>3. st.mode \in Modes /\ f.segment \in Nat /\ f.reuse \in BOOLEAN BY DEF Forms, Settings
<1>4. S \in [Sections -> Values] /\ \A s \in Sections : S[s] \in Field(s) BY <1>1
<1>5. g \in Forms
  <2>. HIDE DEF S, g
  <2>. QED BY <1>2, <1>3, <1>4 DEF Forms
<1>6. g.sec = S /\ g.mode = st.mode BY <1>2
<1>. QED BY <1>1, <1>5, <1>6

(* A form read from settings that have, of every key, the value of one of  *)
(* the forms is remembered.                                                *)
LEMMA RestoredIsRemembered ==
  ASSUME NEW f \in Forms, NEW st \in Settings, NEW F \in SUBSET Forms, Holds(st, F),
         NEW g \in Forms, g.mode = st.mode, g.sec = Restored(f, st).sec
  PROVE  /\ \E h \in F : g.mode = h.mode
         /\ \A s \in Sections :
               /\ \E h \in F : g.sec[s].on = h.sec[s].on
               /\ \E h \in F :
                     g.sec[s].num = IF s \in ZeroLost /\ h.sec[s].num = 0 THEN 1 ELSE h.sec[s].num
               /\ (\A h \in F : h.sec[s].text) => g.sec[s].text
<1>1. \E h \in F : g.mode = h.mode
  <2>1. <<"mode", "num">> \in Keys BY DEF Keys
  <2>. QED BY <2>1 DEF Holds, OneOf, Has
<1>2. ASSUME NEW s \in Sections
      PROVE  /\ \E h \in F : g.sec[s].on = h.sec[s].on
             /\ \E h \in F :
                   g.sec[s].num = IF s \in ZeroLost /\ h.sec[s].num = 0 THEN 1 ELSE h.sec[s].num
             /\ (\A h \in F : h.sec[s].text) => g.sec[s].text
  <2>1. /\ g.sec[s].on = st.sec[s].on /\ g.sec[s].text = st.sec[s].text
        /\ g.sec[s].num = IF s \in ZeroLost /\ st.sec[s].num = 0 THEN 1 ELSE st.sec[s].num
    BY RestoredForm
  <2>2. s # "mode" BY DEF Sections, Toggled
  <2>3. \A d \in Fields : \E h \in F : HasField(st.sec[s], h.sec[s], d)
    <3>1. \A d \in Fields : <<s, d>> \in Keys BY DEF Keys, Fields
    <3>. QED BY <2>2, <3>1 DEF Holds, OneOf, Has
  <2>4. PICK h \in F : st.sec[s].on = h.sec[s].on BY <2>3 DEF Fields, HasField
  <2>5. PICK m \in F : st.sec[s].num = m.sec[s].num BY <2>3 DEF Fields, HasField
  <2>6. PICK n \in F : n.sec[s].text => st.sec[s].text BY <2>3 DEF Fields, HasField
  <2>7. (\A x \in F : x.sec[s].text) => g.sec[s].text BY <2>1, <2>6
  <2>8. g.sec[s].num = IF s \in ZeroLost /\ m.sec[s].num = 0 THEN 1 ELSE m.sec[s].num BY <2>1, <2>5
  <2>. QED BY <2>1, <2>4, <2>5, <2>7, <2>8
<1>. QED BY <1>1, <1>2

LEMMA Division == ASSUME NEW d \in Nat PROVE \A n \in 1 .. 3 : Part(d, n) \in Nat
<1>1. Part(d, 1) \in Nat BY DEF Part
<1>2. Part(d, 2) \in Nat BY DEF Part
<1>3. Part(d, 3) \in Nat BY DEF Part
<1>. QED BY <1>1, <1>2, <1>3

LEMMA TimedForm ==
  ASSUME NEW f \in Forms, NEW d \in Nat
  PROVE  LET g == Timed(f, d) IN
         g \in Forms /\ g.mode = f.mode /\ g.reuse = f.reuse /\ g.sec = f.sec
<1>1. AutoSegment(d) \in Nat BY Division DEF AutoSegment
<1>2. f \in [mode : Modes, segment : Nat, reuse : BOOLEAN, sec : [Sections -> Values]] BY DEF Forms
<1>3. Timed(f, d) = IF d = 0 THEN f
                    ELSE [mode |-> f.mode, segment |-> AutoSegment(d), reuse |-> f.reuse, sec |-> f.sec]
  BY <1>2 DEF Timed
<1>. HIDE DEF AutoSegment
<1>4. \A s \in Sections : f.sec[s] \in Field(s) BY DEF Forms
<1>5. LET g == [mode |-> f.mode, segment |-> AutoSegment(d), reuse |-> f.reuse, sec |-> f.sec] IN
      g \in Forms /\ g.mode = f.mode /\ g.reuse = f.reuse /\ g.sec = f.sec
  BY <1>1, <1>2, <1>4 DEF Forms
<1>. QED BY <1>3, <1>5

LEMMA InitialForm == InitForm \in Forms /\ InitForm.sec = DefaultSections
<1>1. DefaultSections \in [Sections -> Values] /\ \A s \in Sections : DefaultSections[s] \in Field(s)
  BY DefaultField DEF DefaultSections
<1>. HIDE DEF DefaultSections
<1>. QED BY <1>1 DEF InitForm, Forms, Modes

(* What a click makes of a form is a form.                                 *)
LEMMA SectionChanged ==
  ASSUME NEW f \in Forms, NEW s \in Sections, NEW v \in Values, v \in Field(s)
  PROVE  [f EXCEPT !.sec[s] = v] \in Forms
<1>1. /\ f \in [mode : Modes, segment : Nat, reuse : BOOLEAN, sec : [Sections -> Values]]
      /\ \A r \in Sections : f.sec[r] \in Field(r)
  BY DEF Forms
<1>2. /\ [f.sec EXCEPT ![s] = v] \in [Sections -> Values]
      /\ \A r \in Sections : [f.sec EXCEPT ![s] = v][r] \in Field(r)
  BY <1>1
<1>3. [f EXCEPT !.sec[s] = v]
      = [mode |-> f.mode, segment |-> f.segment, reuse |-> f.reuse, sec |-> [f.sec EXCEPT ![s] = v]]
  BY <1>1
<1>. QED BY <1>1, <1>2, <1>3 DEF Forms

LEMMA PanelForms ==
  ASSUME NEW f \in Forms, NEW s \in Sections
  PROVE  /\ Switched(f, s) \in Forms /\ Chosen(f, s) \subseteq Forms
         /\ s \in WithText => Written(f, s) \in Forms
<1>. DEFINE v == f.sec[s]
<1>1. v \in Values /\ v \in Field(s) BY DEF Forms
<1>2. Switched(f, s) \in Forms
  <2>1. [v EXCEPT !.on = ~@] \in Values /\ [v EXCEPT !.on = ~@] \in Field(s) BY <1>1 DEF Values, Field
  <2>2. Switched(f, s) = [f EXCEPT !.sec[s] = [v EXCEPT !.on = ~@]] BY DEF Switched
  <2>. QED BY <2>1, <2>2, SectionChanged
<1>3. ASSUME NEW n \in Nums(s) PROVE [f EXCEPT !.sec[s].num = n] \in Forms
  <2>1. [v EXCEPT !.num = n] = [on |-> v.on, num |-> n, text |-> v.text] BY <1>1 DEF Values
  <2>2. [v EXCEPT !.num = n] \in Values /\ [v EXCEPT !.num = n] \in Field(s)
    BY <1>1, <2>1, Numbers DEF Values, Field
  <2>3. [f EXCEPT !.sec[s].num = n] = [f EXCEPT !.sec[s] = [v EXCEPT !.num = n]] OBVIOUS
  <2>. QED BY <2>2, <2>3, SectionChanged
<1>4. ASSUME s \in WithText PROVE Written(f, s) \in Forms
  <2>1. [v EXCEPT !.text = ~@] \in Values /\ [v EXCEPT !.text = ~@] \in Field(s)
    BY <1>1, <1>4 DEF Values, Field
  <2>2. Written(f, s) = [f EXCEPT !.sec[s] = [v EXCEPT !.text = ~@]] BY DEF Written
  <2>. QED BY <2>1, <2>2, SectionChanged
<1>. QED BY <1>2, <1>3, <1>4 DEF Chosen

LEMMA ClickedForm == ASSUME form \in Forms, videoInfo \in Nat PROVE Clicks \subseteq Forms
<1>1. form \in [mode : Modes, segment : Nat, reuse : BOOLEAN, sec : [Sections -> Values]]
      /\ \A s \in Sections : form.sec[s] \in Field(s)
  BY DEF Forms
<1>2. /\ TextPanel(form) \subseteq Forms /\ OverlayPanel(form) \subseteq Forms
      /\ BrandingPanel(form) \subseteq Forms /\ MusicPanel(form) \subseteq Forms
      /\ CaptionsPanel(form) \subseteq Forms
  <2>1. \A s \in Toggled : s \in Sections BY DEF Sections
  <2>2. {"overlay", "branding", "music", "captions"} \subseteq WithText /\ "text" \in Toggled
        /\ {"overlay", "branding", "music", "captions"} \subseteq Toggled
    BY DEF WithText, Toggled
  <2>. QED BY <2>1, <2>2, PanelForms DEF TextPanel, OverlayPanel, BrandingPanel, MusicPanel, CaptionsPanel
<1>3. /\ AntiDupPanel(form) \subseteq Forms /\ UploadPanel(form) \subseteq Forms
      /\ AiPanel(form) \subseteq Forms
  <2>1. {"antiDup", "upload", "ai", "minimum"} \subseteq Sections /\ "ai" \in WithText BY DEF Sections, WithText
  <2>. QED BY <2>1, PanelForms DEF AntiDupPanel, UploadPanel, AiPanel
<1>4. ReusePanel(form) \subseteq Forms
  <2>1. [form EXCEPT !.reuse = ~@] \in Forms BY <1>1 DEF Forms
  <2>. QED BY <2>1 DEF ReusePanel
<1>5. ModeCards(form) \subseteq Forms
  <2>1. \A mode \in Modes : [form EXCEPT !.mode = mode] \in Forms BY <1>1 DEF Forms
  <2>. QED BY <2>1 DEF ModeCards
<1>6. LongformPanel(form) \subseteq Forms
  <2>1. Suggestions(videoInfo) \subseteq Nat BY Division DEF Suggestions
  <2>2. \A p \in Nat : [form EXCEPT !.segment = p] \in Forms BY <1>1 DEF Forms
  <2>3. "longform" \in Sections BY DEF Sections
  <2>4. Chosen(form, "longform") \subseteq Forms BY <2>3, PanelForms
  <2>5. {[form EXCEPT !.segment = p] : p \in Suggestions(videoInfo)} \subseteq Forms BY <2>1, <2>2
  <2>. QED BY <2>4, <2>5 DEF LongformPanel
<1>. QED BY <1>2, <1>3, <1>4, <1>5, <1>6 DEF Clicks
-----------------------------------------------------------------------------
(* Lists of presets.                                                       *)

LEMMA ListWithout ==
  ASSUME NEW list \in Lists, NEW name \in Names
  PROVE  /\ Without(list, name) \in Lists
         /\ \A i \in DOMAIN Without(list, name) : Without(list, name)[i].name # name
<1>. DEFINE Entry == [name : Names, cfg : Configs]
            t == Without(list, name)
<1>1. list \in Seq(Entry) /\ \A i, j \in DOMAIN list : list[i].name = list[j].name => i = j
  BY DEF Lists
<1>2. CASE ~\E i \in DOMAIN list : list[i].name = name BY <1>2 DEF Without
<1>3. CASE \E i \in DOMAIN list : list[i].name = name
  <2>1. PICK k \in DOMAIN list : list[k].name = name /\ t = RemoveAt(list, k)
    <3>. DEFINE k == CHOOSE i \in DOMAIN list : list[i].name = name
    <3>1. k \in DOMAIN list /\ list[k].name = name BY <1>3
    <3>2. t = RemoveAt(list, k) BY <1>3 DEF Without
    <3>. QED BY <3>1, <3>2
  <2>. DEFINE at(i) == IF i < k THEN i ELSE i + 1
  <2>. HIDE DEF Entry
  <2>2. /\ t \in Seq(Entry) /\ DOMAIN t = 1 .. Len(list) - 1
        /\ \A i \in DOMAIN t : i < k => i \in DOMAIN list /\ t[i] = list[i]
        /\ \A i \in DOMAIN t : i >= k => i + 1 \in DOMAIN list /\ t[i] = list[i + 1]
    <3>1. t = SubSeq(list, 1, k - 1) \o SubSeq(list, k + 1, Len(list)) BY <2>1 DEF RemoveAt
    <3>2. list \in Seq(Entry) /\ k \in DOMAIN list /\ Len(list) \in Nat BY <1>1, <2>1
    <3>. HIDE DEF t
    <3>. QED BY <3>1, <3>2, PlacesWithout
  <2>3. k \in Nat /\ Len(list) \in Nat /\ DOMAIN list = 1 .. Len(list) BY <1>1, <2>1
  <2>. HIDE DEF t
  <2>4. \A i \in DOMAIN t : at(i) \in DOMAIN list /\ at(i) # k /\ t[i] = list[at(i)] BY <2>2, <2>3
  <2>5. \A i, j \in DOMAIN t : at(i) = at(j) => i = j BY <2>2, <2>3
  <2>. HIDE DEF at
  <2>6. \A i \in DOMAIN t : t[i].name # name BY <1>1, <2>1, <2>4
  <2>7. \A i, j \in DOMAIN t : t[i].name = t[j].name => i = j BY <1>1, <2>4, <2>5
  <2>. QED BY <2>2, <2>6, <2>7 DEF Lists, Entry, t
<1>. QED BY <1>2, <1>3

LEMMA ListAfter ==
  ASSUME NEW list \in Lists, NEW request, request.name \in Names,
         request.op = "put" => request.cfg \in Configs
  PROVE  After(list, request) \in Lists
<1>. DEFINE Entry == [name : Names, cfg : Configs]
            w == Without(list, request.name)
            e == [name |-> request.name, cfg |-> request.cfg]
<1>1. w \in Lists /\ w \in Seq(Entry) /\ (\A i \in DOMAIN w : w[i].name # request.name)
  BY ListWithout DEF Lists
<1>2. CASE request.op = "put"
  <2>1. e \in Entry /\ <<e>> \in Seq(Entry) /\ Len(<<e>>) = 1 /\ <<e>>[1] = e BY <1>2
  <2>2. After(list, request) = <<e>> \o w BY <1>2 DEF After
  <2>. DEFINE t == <<e>> \o w
  <2>. HIDE DEF e, w
  <2>3. t \in Seq(Entry) /\ DOMAIN t = 1 .. Len(w) + 1 /\ DOMAIN w = 1 .. Len(w) /\ t[1] = e
        /\ Len(w) \in Nat /\ \A i \in 1 .. Len(w) : t[i + 1] = w[i]
    BY <1>1, <2>1
  <2>4. ASSUME NEW i \in DOMAIN t PROVE i = 1 \/ (i - 1 \in DOMAIN w /\ t[i] = w[i - 1])
    <3>1. i # 1 => i - 1 \in 1 .. Len(w) /\ i = (i - 1) + 1 BY <2>3
    <3>. QED BY <2>3, <3>1
  <2>5. e.name = request.name BY DEF e
  <2>6. ASSUME NEW i \in DOMAIN t, NEW j \in DOMAIN t, t[i].name = t[j].name PROVE i = j
    <3>1. \A n \in DOMAIN t : n \in Int BY <2>3
    <3>2. \A m, n \in DOMAIN w : w[m].name = w[n].name => m = n BY <1>1 DEF Lists
    <3>. QED BY <1>1, <2>3, <2>4, <2>5, <2>6, <3>1, <3>2
  <2>7. t \in Lists BY <2>3, <2>6 DEF Lists
  <2>. QED BY <2>2, <2>7 DEF w, e
<1>3. CASE request.op # "put"
  <2>1. After(list, request) = <<>> \o w BY <1>3 DEF After
  <2>. HIDE DEF w
  <2>2. <<>> \o w = w BY <1>1
  <2>. QED BY <1>1, <2>1, <2>2
<1>. QED BY <1>2, <1>3
-----------------------------------------------------------------------------
(* The steps of ModeForm.                                                  *)

OfTheForm  == Untouched /\ FormIsTheConfig /\ Remembered
OfTheSaved == Submitted /\ Kept

LEMMA SameForm ==
  ASSUME OfTheForm, form'.sec = form.sec, form'.mode = form.mode, form'.reuse = form.reuse,
         source' = source, source.from = "historical" => form' = form,
         form \in Forms, form' \in Forms
  PROVE  OfTheForm'
<1>. DEFINE b == BuildModeConfig(form)
<1>1. \A s \in Sections : BuildSection(form', s) = BuildSection(form, s) BY DEF BuildSection
<1>2. /\ b'.mode = b.mode /\ b'.reuse = b.reuse /\ b'.sec = b.sec
      /\ source.from = "historical" => b'.segment = b.segment
  BY <1>1 DEF BuildModeConfig
<1>3. Untouched' BY DEF OfTheForm, Untouched
<1>. HIDE DEF b
<1>4. FormIsTheConfig' BY <1>2 DEF OfTheForm, FormIsTheConfig, Agrees, b
<1>5. Remembered' BY DEF OfTheForm, Remembered
<1>. QED BY <1>3, <1>4, <1>5 DEF OfTheForm

LEMMA SameSaved ==
  ASSUME OfTheSaved, settings' = settings, kept' = kept, submits' = submits
  PROVE  OfTheSaved'
BY DEF OfTheSaved, Submitted, Kept, OneOf

LEMMA AppearStep ==
  ASSUME FormIInv, MountFresh \/ PriorClips
  PROVE  FormIInv'
<1>1. FormTypeOK' BY DEF FormIInv, FormTypeOK, MountFresh, PriorClips, preferences
<1>2. form \in Forms /\ form' = form /\ source' = source
  BY DEF FormIInv, FormTypeOK, MountFresh, PriorClips
<1>3. OfTheForm' BY <1>2, SameForm DEF FormIInv, OfTheForm
<1>4. OfTheSaved' BY SameSaved DEF FormIInv, OfTheSaved, MountFresh, PriorClips, preferences
<1>5. FromHistory' /\ LoadHolds' BY DEF FormIInv, FromHistory, LoadHolds, MountFresh, PriorClips
<1>. QED BY <1>1, <1>3, <1>4, <1>5 DEF FormIInv, OfTheForm, OfTheSaved

(* A config that fills a form whose sections are the defaults, if it is    *)
(* said to be the first to fill it.                                        *)
LEMMA FilledForm ==
  ASSUME NEW c \in Configs, NEW from \in {"preset", "historical"}, NEW f \in Forms,
         form' \in Forms, form'.mode = c.mode, form'.reuse = c.reuse,
         form'.sec = ApplyModeConfig(f, c).sec,
         f.sec = form.sec, Untouched, Applied(from, c),
         from = "historical" => form'.segment = f.segment /\ c.segment \in {None, f.segment}
  PROVE  OfTheForm'
<1>. DEFINE b == BuildModeConfig(form')
<1>1. source'.from = from /\ source'.cfg = c /\ (source'.whole => form.sec = DefaultSections)
  BY DEF Applied, Untouched
<1>2. \A s \in Sections : form'.sec[s] = ApplySection(f.sec[s], c.sec[s], s) BY AppliedForm
<1>3. Agrees(b, c) /\ b.reuse = c.reuse /\ (f.sec = DefaultSections => b.sec = c.sec)
  BY <1>2, AppliedIsTheConfig
<1>4. from = "historical" => b.segment = c.segment
  BY NoneIsNothing DEF BuildModeConfig, Forms, Configs, Modes
<1>5. Untouched' /\ Remembered' BY <1>1 DEF Untouched, Remembered
<1>. HIDE DEF b
<1>6. FormIsTheConfig' BY <1>1, <1>3, <1>4 DEF FormIsTheConfig, b
<1>. QED BY <1>5, <1>6 DEF OfTheForm

LEMMA GoneBackStep ==
  ASSUME FormIInv, MountHistorical
  PROVE  FormIInv'
<1>. DEFINE f == IF sent.segment = None THEN form ELSE [form EXCEPT !.segment = sent.segment]
            g == ApplyModeConfig(f, sent)
<1>1. sent \in Configs /\ form \in Forms /\ form' = g /\ Untouched /\ Applied("historical", sent)
  BY DEF FormIInv, FormTypeOK, MountHistorical
<1>2. f \in Forms /\ f.sec = form.sec /\ sent.segment \in {None, f.segment}
  <2>1. sent.segment \in Nat \cup {None} BY <1>1 DEF Configs
  <2>2. \A n \in Nat : /\ [form EXCEPT !.segment = n] \in Forms
                       /\ [form EXCEPT !.segment = n].sec = form.sec
                       /\ [form EXCEPT !.segment = n].segment = n
    BY <1>1 DEF Forms
  <2>. QED BY <1>1, <2>1, <2>2
<1>. HIDE DEF f
<1>3. g \in Forms /\ g.mode = sent.mode /\ g.reuse = sent.reuse /\ g.segment = f.segment
  BY <1>1, <1>2, AppliedForm
<1>4. OfTheForm' BY <1>1, <1>2, <1>3, FilledForm
<1>5. mounted' = "historical" /\ source'.cfg = sent BY DEF MountHistorical, Applied
<1>6. OfTheSaved' BY SameSaved DEF FormIInv, OfTheSaved, MountHistorical, preferences
<1>7. FormTypeOK'
  <2>. HIDE DEF f, g
  <2>1. source' = [from |-> "historical", cfg |-> sent, whole |-> source.whole /\ source.from = "none"]
    BY <1>1 DEF Applied
  <2>2. /\ UNCHANGED <<settings, stored, videoInfo, isLoading, load, priorRun, presets, saves, submits, sent, kept>>
        /\ mounted = "no"
    BY DEF MountHistorical, preferences
  <2>3. ~isLoading /\ load = None BY <2>2 DEF FormIInv, FormTypeOK
  <2>4. form' \in Forms /\ source'.from = "historical" /\ source'.cfg \in Configs BY <1>1, <1>3, <2>1
  <2>. QED BY <1>5, <2>2, <2>3, <2>4 DEF FormIInv, FormTypeOK
<1>8. FromHistory' /\ LoadHolds' BY <1>5 DEF FormIInv, FromHistory, LoadHolds, MountHistorical
<1>. QED BY <1>4, <1>6, <1>7, <1>8 DEF FormIInv, OfTheForm, OfTheSaved

LEMMA EmptyList == <<>> \in Lists
BY DEF Lists

(* What is in flight is left as it is, but for its answer.                 *)
LEMMA OrphanedFlights ==
  ASSUME NEW S, NEW s \in Seq(S), \A x \in S : [x EXCEPT !.live = FALSE] \in S
  PROVE  /\ Orphaned(s) \in Seq(S)
         /\ \A x \in Range(Orphaned(s)) : \E y \in Range(s) : x = [y EXCEPT !.live = FALSE]
<1>. DEFINE t == Orphaned(s)
<1>1. t = [j \in DOMAIN s |-> t[j]] /\ \A j \in DOMAIN s : t[j] = [s[j] EXCEPT !.live = FALSE]
  BY DEF Orphaned
<1>2. \A j \in DOMAIN s : s[j] \in S /\ s[j] \in Range(s) BY DEF Range
<1>. HIDE DEF t
<1>3. \A j \in DOMAIN s : t[j] \in S BY <1>1, <1>2
<1>4. t \in Seq(S) /\ Range(t) = {t[j] : j \in DOMAIN s} BY <1>1, <1>3, SequenceOf
<1>. QED BY <1>1, <1>2, <1>4 DEF t

LEMMA OrphanedSubmits ==
  ASSUME FormIInv, Unmount
  PROVE  submits' \in Seq(Submissions) /\ Submitted' /\ Kept'
<1>1. /\ submits \in Seq(Submissions) /\ submits' = Orphaned(submits)
      /\ settings' = settings /\ kept' = kept /\ Submitted /\ Kept
  BY DEF FormIInv, FormTypeOK, Unmount, preferences
<1>2. \A x \in Submissions : /\ [x EXCEPT !.live = FALSE] \in Submissions
                             /\ [x EXCEPT !.live = FALSE].form = x.form
                             /\ [x EXCEPT !.live = FALSE].step = x.step
                             /\ [x EXCEPT !.live = FALSE].pending = x.pending
  BY DEF Submissions
<1>3. /\ submits' \in Seq(Submissions)
      /\ \A x \in Range(submits') : \E y \in Range(submits) : x = [y EXCEPT !.live = FALSE]
  BY <1>1, <1>2, OrphanedFlights
<1>4. Submitted'
  <2>1. Range(submits) \subseteq Submissions BY <1>1, RangeIn
  <2>2. ASSUME NEW x \in Range(submits')
        PROVE  /\ x.step = "put" => x.form \in kept'.forms
               /\ x.step = "advance" => x.pending = {}
    <3>1. PICK y \in Range(submits) : x = [y EXCEPT !.live = FALSE] BY <1>3
    <3>2. x.form = y.form /\ x.step = y.step /\ x.pending = y.pending BY <1>2, <2>1, <3>1
    <3>. QED BY <1>1, <3>2 DEF Submitted
  <2>. QED BY <2>2 DEF Submitted
<1>. QED BY <1>1, <1>3, <1>4 DEF Kept, OneOf

LEMMA UnmountStep ==
  ASSUME FormIInv, Unmount
  PROVE  FormIInv'
<1>1. form' = InitForm /\ source' = [from |-> "none", cfg |-> None, whole |-> TRUE]
      /\ load' = None /\ mounted' = "no" /\ presets' = <<>>
  BY DEF Unmount
<1>2. FormTypeOK'
  <2>1. videoInfo' \in Durations \cup {0} BY DEF FormIInv, FormTypeOK, Unmount
  <2>2. saves' \in Seq(Saves)
    <3>1. saves \in Seq(Saves) /\ saves' = Orphaned(saves) BY DEF FormIInv, FormTypeOK, Unmount
    <3>2. \A r \in Saves : [r EXCEPT !.live = FALSE] \in Saves BY DEF Saves
    <3>. QED BY <3>1, <3>2, OrphanedFlights
  <2>3. submits' \in Seq(Submissions) BY OrphanedSubmits
  <2>4. /\ settings' = settings /\ stored' = stored /\ sent' = sent /\ kept' = kept
        /\ isLoading' = FALSE /\ priorRun' = FALSE
    BY DEF Unmount, preferences
  <2>. QED BY <1>1, <2>1, <2>2, <2>3, <2>4, InitialForm, EmptyList DEF FormIInv, FormTypeOK
<1>3. OfTheForm' BY <1>1, InitialForm DEF OfTheForm, Untouched, FormIsTheConfig, Remembered
<1>4. OfTheSaved' BY OrphanedSubmits DEF OfTheSaved
<1>5. FromHistory' /\ LoadHolds' BY <1>1 DEF FromHistory, LoadHolds
<1>. QED BY <1>2, <1>3, <1>4, <1>5 DEF FormIInv, OfTheForm, OfTheSaved

LEMMA DurationNat == Durations \cup {0} \subseteq Nat
BY FormConstants

LEMMA VideoInfoStep ==
  ASSUME FormIInv, NEW d \in Durations, VideoInfo(d)
  PROVE  FormIInv'
<1>1. form \in Forms /\ d \in Nat /\ source' = source /\ mounted' = mounted
      /\ form' \in {form, Timed(form, d)} /\ (mounted # "fresh" => form' = form)
  BY DurationNat DEF FormIInv, FormTypeOK, VideoInfo
<1>2. form' \in Forms /\ form'.sec = form.sec /\ form'.mode = form.mode /\ form'.reuse = form.reuse
  BY <1>1, TimedForm
<1>3. source.from = "historical" => mounted # "fresh" BY DEF FormIInv, FromHistory
<1>4. OfTheForm' BY <1>1, <1>2, <1>3, SameForm DEF FormIInv, OfTheForm
<1>5. FormTypeOK' BY <1>2 DEF FormIInv, FormTypeOK, VideoInfo, preferences
<1>6. OfTheSaved' BY SameSaved DEF FormIInv, OfTheSaved, VideoInfo, preferences
<1>7. FromHistory' /\ LoadHolds' BY DEF FormIInv, FromHistory, LoadHolds, VideoInfo
<1>. QED BY <1>4, <1>5, <1>6, <1>7 DEF FormIInv, OfTheForm, OfTheSaved

LEMMA LoadingStep ==
  ASSUME FormIInv, Loading
  PROVE  FormIInv'
<1>1. CASE ServePreferences
  <2>. DEFINE F == IF kept.open = {} THEN kept.forms ELSE {}
  <2>1. load' = [settings |-> settings, presets |-> stored, kept |-> F] BY <1>1 DEF ServePreferences
  <2>2. FormTypeOK'
    <3>1. F \subseteq Forms BY DEF FormIInv, FormTypeOK
    <3>. HIDE DEF F
    <3>. QED BY <1>1, <2>1, <3>1 DEF FormIInv, FormTypeOK, ServePreferences, preferences
  <2>3. form \in Forms /\ form' = form /\ source' = source
    BY <1>1 DEF FormIInv, FormTypeOK, ServePreferences
  <2>4. OfTheForm' BY <2>3, SameForm DEF FormIInv, OfTheForm
  <2>5. OfTheSaved' BY <1>1, SameSaved DEF FormIInv, OfTheSaved, ServePreferences, preferences
  <2>6. F # {} => Holds(settings, F) BY DEF FormIInv, Kept, Holds
  <2>. HIDE DEF F
  <2>7. FromHistory' /\ LoadHolds'
    BY <1>1, <2>1, <2>6 DEF FormIInv, FromHistory, LoadHolds, ServePreferences
  <2>. QED BY <2>2, <2>4, <2>5, <2>7 DEF FormIInv, OfTheForm, OfTheSaved
<1>2. ASSUME LoadPreset \/ LoadSettings \/ LoadFailed, FormTypeOK', OfTheForm',
             source'.from # "historical"
      PROVE  FormIInv'
  <2>1. OfTheSaved'
    BY <1>2, SameSaved DEF FormIInv, OfTheSaved, LoadPreset, LoadSettings, LoadFailed, preferences
  <2>2. load' = None BY <1>2 DEF LoadPreset, LoadSettings, LoadFailed
  <2>. QED BY <1>2, <2>1, <2>2 DEF FormIInv, OfTheForm, OfTheSaved, FromHistory, LoadHolds
<1>3. CASE LoadPreset
  <2>. DEFINE cfg == Head(load.presets).cfg
              g == ApplyModeConfig(form, cfg)
  <2>1. cfg \in Configs /\ form \in Forms /\ videoInfo \in Nat
    <3>1. load.presets \in Seq([name : Names, cfg : Configs]) /\ load.presets # <<>>
      BY <1>3 DEF FormIInv, FormTypeOK, LoadPreset, Lists
    <3>2. \A S : load.presets \in Seq(S) => Head(load.presets) \in S BY <3>1
    <3>. QED BY <3>1, <3>2, DurationNat DEF FormIInv, FormTypeOK
  <2>2. form' = Timed(g, videoInfo) /\ Applied("preset", cfg) BY <1>3 DEF LoadPreset
  <2>. HIDE DEF cfg
  <2>3. g \in Forms /\ g.mode = cfg.mode /\ g.reuse = cfg.reuse BY <2>1, AppliedForm
  <2>4. form' \in Forms /\ form'.mode = cfg.mode /\ form'.reuse = cfg.reuse /\ form'.sec = g.sec
    BY <2>1, <2>2, <2>3, TimedForm
  <2>5. OfTheForm' BY <2>1, <2>2, <2>4, FilledForm DEF FormIInv
  <2>6. source'.cfg = cfg /\ source'.from = "preset" BY <2>2 DEF Applied
  <2>. HIDE DEF g
  <2>7. FormTypeOK' BY <1>3, <2>1, <2>4, <2>6 DEF FormIInv, FormTypeOK, LoadPreset, preferences
  <2>. QED BY <1>2, <1>3, <2>5, <2>6, <2>7
<1>4. CASE LoadSettings
  <2>. DEFINE st == load.settings
              g == Restored(form, st)
              c == load.kept
  <2>1. st \in Settings /\ form \in Forms /\ videoInfo \in Nat /\ c \subseteq Forms
    BY <1>4, DurationNat DEF FormIInv, FormTypeOK, LoadSettings
  <2>2. form' = Timed(g, videoInfo) /\ Applied("settings", c) BY <1>4 DEF LoadSettings
  <2>3. g \in Forms /\ g.mode = st.mode BY <2>1, RestoredForm
  <2>4. form' \in Forms /\ form'.mode = st.mode /\ form'.sec = g.sec
    BY <2>1, <2>2, <2>3, TimedForm
  <2>5. source'.cfg = c /\ source'.from = "settings" BY <2>2 DEF Applied
  <2>6. Remembered'
    <3>1. CASE c = {} BY <2>5, <3>1 DEF Remembered
    <3>2. CASE c # {}
      <4>1. Holds(st, c) BY <1>4, <2>1, <3>2 DEF FormIInv, LoadHolds, LoadSettings
      <4>. HIDE DEF c, st
      <4>. QED BY <2>1, <2>4, <2>5, <4>1, RestoredIsRemembered DEF Remembered
    <3>. QED BY <3>1, <3>2
  <2>7. OfTheForm' BY <2>5, <2>6 DEF OfTheForm, Untouched, FormIsTheConfig
  <2>. HIDE DEF g
  <2>8. FormTypeOK' BY <1>4, <2>4, <2>5, EmptyList DEF FormIInv, FormTypeOK, LoadSettings, preferences
  <2>. QED BY <1>2, <1>4, <2>5, <2>7, <2>8
<1>5. CASE LoadFailed
  <2>1. [form EXCEPT !.mode = "longform"] \in Forms BY DEF FormIInv, FormTypeOK, Forms, Modes
  <2>2. form' \in Forms BY <1>5, <2>1, TimedForm, DurationNat DEF FormIInv, FormTypeOK, LoadFailed
  <2>3. source'.from = "none" /\ ~source'.whole BY <1>5 DEF LoadFailed
  <2>4. OfTheForm' BY <2>3 DEF OfTheForm, Untouched, FormIsTheConfig, Remembered
  <2>5. FormTypeOK' BY <1>5, <2>2, <2>3 DEF FormIInv, FormTypeOK, LoadFailed, preferences
  <2>. QED BY <1>2, <1>5, <2>3, <2>4, <2>5
<1>. QED BY <1>1, <1>3, <1>4, <1>5 DEF Loading

LEMMA EditStep ==
  ASSUME FormIInv, Edit
  PROVE  FormIInv'
<1>1. form' \in Forms
  BY ClickedForm, DurationNat DEF FormIInv, FormTypeOK, Edit
<1>2. source' = [from |-> "none", cfg |-> None, whole |-> FALSE] /\ mounted' = mounted /\ load' = load
  BY DEF Edit
<1>3. FormTypeOK'
  <2>1. /\ UNCHANGED <<settings, stored, videoInfo, isLoading, priorRun, presets, saves, submits, sent, kept>>
    BY DEF Edit, preferences
  <2>. QED BY <1>1, <1>2, <2>1 DEF FormIInv, FormTypeOK
<1>4. OfTheForm' BY <1>2 DEF OfTheForm, Untouched, FormIsTheConfig, Remembered
<1>5. OfTheSaved' BY SameSaved DEF FormIInv, OfTheSaved, Edit, preferences
<1>6. FromHistory' /\ LoadHolds' BY <1>2 DEF FormIInv, FromHistory, LoadHolds
<1>. QED BY <1>3, <1>4, <1>5, <1>6 DEF FormIInv, OfTheForm, OfTheSaved

LEMMA PresetOf ==
  ASSUME FormIInv, NEW i \in Listed
  PROVE  presets[i].name \in Names /\ presets[i].cfg \in Configs
<1>1. presets \in Seq([name : Names, cfg : Configs]) BY DEF FormIInv, FormTypeOK, Lists
<1>2. \A S : presets \in Seq(S) => presets[i] \in S BY DEF Listed
<1>. QED BY <1>1, <1>2

LEMMA SelectPresetStep ==
  ASSUME FormIInv, NEW i \in Listed, SelectPreset(i)
  PROVE  FormIInv'
<1>. DEFINE c == presets[i].cfg
            g == ApplyModeConfig(form, c)
<1>1. c \in Configs /\ form \in Forms /\ form' = g /\ Applied("preset", c)
  BY PresetOf DEF FormIInv, FormTypeOK, SelectPreset
<1>. HIDE DEF c
<1>2. g \in Forms /\ g.mode = c.mode /\ g.reuse = c.reuse BY <1>1, AppliedForm
<1>3. OfTheForm' BY <1>1, <1>2, FilledForm DEF FormIInv
<1>4. source'.cfg = c /\ source'.from = "preset" BY <1>1 DEF Applied
<1>. HIDE DEF g
<1>5. FormTypeOK' BY <1>1, <1>2, <1>4 DEF FormIInv, FormTypeOK, SelectPreset, preferences
<1>6. OfTheSaved' BY SameSaved DEF FormIInv, OfTheSaved, SelectPreset, preferences
<1>7. FromHistory' /\ LoadHolds' BY <1>4 DEF FormIInv, FromHistory, LoadHolds, SelectPreset
<1>. QED BY <1>3, <1>5, <1>6, <1>7 DEF FormIInv, OfTheForm, OfTheSaved

(* Steps of the presets touch neither the form nor the settings.           *)
LEMMA SavingFrame ==
  ASSUME FormIInv, saves' \in Seq(Saves), stored' \in Lists, presets' \in Lists,
         UNCHANGED <<settings, videoInfo, mounted, form, isLoading, load, priorRun, submits, sent, kept,
                     source>>
  PROVE  FormIInv'
<1>1. FormTypeOK' BY DEF FormIInv, FormTypeOK
<1>2. form \in Forms /\ form' = form /\ source' = source BY DEF FormIInv, FormTypeOK
<1>3. OfTheForm' BY <1>2, SameForm DEF FormIInv, OfTheForm
<1>4. OfTheSaved' BY SameSaved DEF FormIInv, OfTheSaved
<1>5. FromHistory' /\ LoadHolds' BY DEF FormIInv, FromHistory, LoadHolds
<1>. QED BY <1>1, <1>3, <1>4, <1>5 DEF FormIInv, OfTheForm, OfTheSaved

LEMMA SavingStep ==
  ASSUME FormIInv, (\E i \in Listed : DeletePreset(i)) \/ (\E name \in Names : SavePreset(name)) \/ Saving
  PROVE  FormIInv'
<1>1. UNCHANGED <<settings, videoInfo, mounted, form, isLoading, load, priorRun, submits, sent, kept, source>>
  BY DEF DeletePreset, SavePreset, AskSave, Saving, ServeSave, SaveAnswered, screen, preferences
<1>2. saves \in Seq(Saves) /\ stored \in Lists /\ presets \in Lists
  BY DEF FormIInv, FormTypeOK
<1>3. CASE \E i \in Listed : DeletePreset(i)
  <2>1. PICK i \in Listed : DeletePreset(i) BY <1>3
  <2>. DEFINE r == [op |-> "delete", name |-> presets[i].name, cfg |-> None, live |-> TRUE, reply |-> None]
  <2>2. r \in Saves BY PresetOf DEF Saves
  <2>3. saves' = Append(saves, r) /\ stored' = stored /\ presets' = presets
    BY <2>1 DEF DeletePreset, AskSave, screen, preferences
  <2>. HIDE DEF r
  <2>. QED BY <1>1, <1>2, <2>2, <2>3, SavingFrame
<1>4. CASE \E name \in Names : SavePreset(name)
  <2>1. PICK name \in Names : SavePreset(name) BY <1>4
  <2>. DEFINE r == [op |-> "put", name |-> name, cfg |-> BuildModeConfig(form), live |-> TRUE, reply |-> None]
  <2>2. r \in Saves
    <3>1. BuildModeConfig(form) \in Configs BY BuiltConfig DEF FormIInv, FormTypeOK
    <3>. QED BY <3>1 DEF Saves
  <2>3. saves' = Append(saves, r) /\ stored' = stored /\ presets' = presets
    BY <2>1 DEF SavePreset, AskSave, screen, preferences
  <2>. HIDE DEF r
  <2>. QED BY <1>1, <1>2, <2>2, <2>3, SavingFrame
<1>5. ASSUME NEW i \in DOMAIN saves, ServeSave(i) PROVE FormIInv'
  <2>1. saves[i] \in Saves BY <1>2
  <2>2. After(stored, saves[i]) \in Lists BY <1>2, <2>1, ListAfter DEF Saves
  <2>3. PICK reply \in {"answered", "lost"} : saves' = [saves EXCEPT ![i].reply = reply]
    BY <1>5 DEF ServeSave
  <2>4. stored' \in {stored, After(stored, saves[i])} /\ presets' = presets BY <1>5 DEF ServeSave, screen
  <2>5. saves' \in Seq(Saves)
    <3>1. [saves[i] EXCEPT !.reply = reply] \in Saves BY <2>1 DEF Saves
    <3>. QED BY <1>2, <2>3, <3>1, RangeReplaced
  <2>. QED BY <1>1, <1>2, <2>2, <2>4, <2>5, SavingFrame
<1>6. ASSUME NEW i \in DOMAIN saves, SaveAnswered(i) PROVE FormIInv'
  <2>1. saves[i] \in Saves BY <1>2
  <2>2. After(presets, saves[i]) \in Lists BY <1>2, <2>1, ListAfter DEF Saves
  <2>3. saves' = RemoveAt(saves, i) /\ presets' \in {presets, After(presets, saves[i])} /\ stored' = stored
    BY <1>6 DEF SaveAnswered, preferences
  <2>4. saves' \in Seq(Saves) BY <1>2, <2>3, RangeWithout DEF RemoveAt
  <2>. QED BY <1>1, <1>2, <2>2, <2>3, <2>4, SavingFrame
<1>. QED BY <1>3, <1>4, <1>5, <1>6 DEF Saving

(* Submissions touch neither the screen nor what is being loaded.          *)
LEMMA SubmitFrame ==
  ASSUME FormIInv, OfTheSaved',
         UNCHANGED <<stored, videoInfo, mounted, form, isLoading, load, priorRun, presets, saves, source>>,
         settings' \in Settings, sent' \in Configs \cup {None}, submits' \in Seq(Submissions),
         kept' \in [forms : SUBSET Forms, open : SUBSET Keys]
  PROVE  FormIInv'
<1>1. FormTypeOK' BY DEF FormIInv, FormTypeOK
<1>2. form \in Forms /\ form' = form /\ source' = source BY DEF FormIInv, FormTypeOK
<1>3. OfTheForm' BY <1>2, SameForm DEF FormIInv, OfTheForm
<1>4. FromHistory' /\ LoadHolds' BY DEF FormIInv, FromHistory, LoadHolds
<1>. QED BY <1>1, <1>3, <1>4 DEF FormIInv, OfTheForm, OfTheSaved

(* A text that is empty is not saved.                                      *)
LEMMA SavedField ==
  ASSUME NEW s \in Sections, NEW old \in Values, old \in Field(s), NEW new \in Values, new \in Field(s),
         NEW d \in Fields
  PROVE  LET v == Saved(old, new, d) IN
         /\ v \in Values /\ v \in Field(s) /\ HasField(v, new, d)
         /\ \A e \in Fields \ {d}, w \in Values : HasField(old, w, e) => HasField(v, w, e)
<1>. DEFINE v    == Saved(old, new, d)
            text == old.text \/ new.text
<1>1. old = [on |-> old.on, num |-> old.num, text |-> old.text] BY DEF Values
<1>2. \/ d = "on" /\ v = [on |-> new.on, num |-> old.num, text |-> old.text]
      \/ d = "num" /\ v = [on |-> old.on, num |-> new.num, text |-> old.text]
      \/ d = "text" /\ v = [on |-> old.on, num |-> old.num, text |-> text]
  BY <1>1 DEF Saved, Fields
<1>3. text \in BOOLEAN /\ (s \notin WithText => text = FALSE) /\ (new.text => text) /\ (old.text => text)
  BY DEF Field
<1>4. \A w \in Values : w \in Field(s) <=> w.num \in Nums(s) /\ (s \notin WithText => w.text = FALSE)
  BY DEF Values, Field
<1>. HIDE DEF v, text
<1>5. v \in Values BY <1>2, <1>3 DEF Values
<1>6. v \in Field(s) BY <1>2, <1>3, <1>4, <1>5
<1>7. HasField(v, new, d) BY <1>2, <1>3 DEF HasField
<1>8. ASSUME NEW e \in Fields \ {d}, NEW w \in Values, HasField(old, w, e) PROVE HasField(v, w, e)
  BY <1>2, <1>3, <1>8 DEF HasField, Fields
<1>. QED BY <1>5, <1>6, <1>7, <1>8 DEF v

LEMMA SectionKey ==
  ASSUME NEW k \in Keys
  PROVE  /\ k[1] # "mode" => k[1] \in Sections /\ k[2] \in Fields
         /\ \A j \in Keys \ {k} : k[1] # "mode" \/ j[1] # "mode"
         /\ \A j \in Keys \ {k} : j[1] = k[1] => j[2] # k[2]
<1>1. \A j \in Keys : j = <<j[1], j[2]>> BY DEF Keys
<1>2. \A j \in Keys : \/ j[1] \in Sections /\ j[2] \in Fields
                      \/ j[1] = "mode" /\ j[2] = "num"
  BY DEF Keys, Fields
<1>3. "mode" \notin Sections BY DEF Sections, Toggled
<1>. QED BY <1>1, <1>2, <1>3

(* The settings with one key of a form.                                    *)
LEMMA WithKey ==
  ASSUME NEW st \in Settings, NEW f \in Forms, NEW k \in Keys
  PROVE  LET t == With(st, f, k) IN
         /\ t \in Settings /\ Has(t, f, k)
         /\ \A j \in Keys \ {k}, g \in Forms : Has(st, g, j) => Has(t, g, j)
<1>. DEFINE t == With(st, f, k)
<1>1. CASE k[1] = "mode"
  <2>1. t = [st EXCEPT !.mode = f.mode] BY <1>1 DEF With
  <2>2. t.mode = f.mode /\ t.sec = st.sec /\ t \in Settings BY <2>1 DEF Settings, Forms
  <2>3. \A j \in Keys \ {k} : j[1] # "mode" BY <1>1, SectionKey
  <2>. QED BY <1>1, <2>2, <2>3 DEF Has
<1>2. CASE k[1] # "mode"
  <2>. DEFINE s == k[1]
              v == Saved(st.sec[s], f.sec[s], k[2])
  <2>1. s \in Sections /\ k[2] \in Fields BY <1>2, SectionKey
  <2>2. t = [st EXCEPT !.sec[s] = v] BY <1>2 DEF With
  <2>3. /\ st.sec[s] \in Values /\ st.sec[s] \in Field(s) /\ f.sec[s] \in Values /\ f.sec[s] \in Field(s)
    BY <2>1 DEF Settings, Forms
  <2>4. /\ v \in Values /\ v \in Field(s) /\ HasField(v, f.sec[s], k[2])
        /\ \A e \in Fields \ {k[2]}, w \in Values : HasField(st.sec[s], w, e) => HasField(v, w, e)
    BY <2>1, <2>3, SavedField
  <2>. HIDE DEF v
  <2>5. t.mode = st.mode /\ t.sec = [st.sec EXCEPT ![s] = v] /\ t \in Settings
    BY <2>1, <2>2, <2>4 DEF Settings
  <2>6. st.sec \in [Sections -> Values] BY DEF Settings
  <2>. HIDE DEF t
  <2>7. t.sec[s] = v /\ \A r \in Sections \ {s} : t.sec[r] = st.sec[r] BY <2>1, <2>5, <2>6
  <2>8. Has(t, f, k) BY <1>2, <2>4, <2>7 DEF Has
  <2>9. ASSUME NEW j \in Keys \ {k}, NEW g \in Forms, Has(st, g, j) PROVE Has(t, g, j)
    <3>1. CASE j[1] = "mode" BY <2>5, <2>9, <3>1 DEF Has
    <3>2. CASE j[1] \in Sections \ {s}
      <4>1. j[1] # "mode" BY <3>2 DEF Sections, Toggled
      <4>. QED BY <2>7, <2>9, <3>2, <4>1 DEF Has
    <3>3. CASE j[1] = s
      <4>1. j[2] \in Fields \ {k[2]} /\ j[1] # "mode" BY <1>2, <3>3, SectionKey
      <4>2. g.sec[s] \in Values BY <2>1 DEF Forms
      <4>. QED BY <2>4, <2>7, <2>9, <3>3, <4>1, <4>2 DEF Has
    <3>. QED BY <3>1, <3>2, <3>3, SectionKey
  <2>. QED BY <2>5, <2>8, <2>9 DEF t
<1>. QED BY <1>1, <1>2

(* A key whose PUT changes nothing is in the settings.                     *)
LEMMA SettledKey ==
  ASSUME settings \in Settings, NEW f \in Forms, NEW k \in Keys, ~Changes(f, k)
  PROVE  Has(settings, f, k)
<1>1. CASE k[1] = "mode" BY <1>1 DEF Changes, Has
<1>2. CASE k[1] # "mode"
  <2>. DEFINE s == k[1]
  <2>1. s \in Sections /\ k[2] \in Fields BY <1>2, SectionKey
  <2>2. /\ settings.sec[s] \in Values /\ settings.sec[s] \in Field(s)
        /\ f.sec[s] \in Values /\ f.sec[s] \in Field(s)
    BY <2>1 DEF Settings, Forms
  <2>3. Saved(settings.sec[s], f.sec[s], k[2]) = settings.sec[s] BY <1>2 DEF Changes
  <2>4. HasField(settings.sec[s], f.sec[s], k[2]) BY <2>1, <2>2, <2>3, SavedField
  <2>. QED BY <1>2, <2>4 DEF Has
<1>. QED BY <1>1, <1>2

LEMMA SubmitStep ==
  ASSUME FormIInv, Submit
  PROVE  FormIInv'
<1>. DEFINE x == [form |-> form, pending |-> Keys, step |-> "put", live |-> TRUE]
            todo == SettingPairs(form)
<1>1. /\ submits' = Append(submits, x) /\ form \in Forms /\ settings \in Settings
      /\ kept' = IF Putting = {} THEN [forms |-> {form}, open |-> todo]
                 ELSE [kept EXCEPT !.forms = @ \cup {form}, !.open = @ \cap todo]
      /\ kept \in [forms : SUBSET Forms, open : SUBSET Keys] /\ submits \in Seq(Submissions)
      /\ UNCHANGED <<settings, stored, videoInfo, mounted, form, isLoading, load, priorRun, presets, saves,
                     sent, source>>
  BY DEF FormIInv, FormTypeOK, Submit, preferences, screen
<1>2. x \in Submissions BY <1>1 DEF Submissions
<1>3. submits' \in Seq(Submissions) /\ Range(submits') = Range(submits) \cup {x}
  <2>. HIDE DEF x, todo
  <2>1. Range(Append(submits, x)) = Range(submits) \cup {x} BY <1>1, <1>2, RangeAppend
  <2>. QED BY <1>1, <1>2, <2>1
<1>4. todo \subseteq Keys /\ \A k \in Keys \ todo : ~Changes(form, k) BY DEF SettingPairs
<1>5. \A k \in Keys \ todo : Has(settings, form, k)
  BY <1>1, <1>4, SettledKey
<1>. HIDE DEF todo
<1>6. x.form = form /\ x.step = "put" OBVIOUS
<1>. HIDE DEF x
<1>7. /\ kept' \in [forms : SUBSET Forms, open : SUBSET Keys] /\ form \in kept'.forms
      /\ Putting # {} => kept.forms \subseteq kept'.forms
      /\ \A k \in Keys \ kept'.open : k \notin todo \/ (Putting # {} /\ k \notin kept.open)
  <2>1. CASE Putting = {} BY <1>1, <1>4, <2>1
  <2>2. CASE Putting # {}
    <3>1. kept' = [forms |-> kept.forms \cup {form}, open |-> kept.open \cap todo] BY <1>1, <2>2
    <3>. QED BY <1>1, <2>2, <3>1
  <2>. QED BY <2>1, <2>2
<1>8. Submitted'
  <2>1. ASSUME NEW y \in Range(submits), y.step = "put" PROVE y.form \in kept'.forms
    <3>1. Putting # {} BY <2>1 DEF Putting, Range
    <3>. QED BY <1>7, <2>1, <3>1 DEF FormIInv, Submitted
  <2>. QED BY <1>3, <1>6, <1>7, <2>1 DEF FormIInv, Submitted
<1>9. Kept'
  <2>1. ASSUME NEW k \in Keys \ kept'.open PROVE OneOf(settings, kept'.forms, k)
    <3>1. CASE k \notin todo BY <1>5, <1>7, <3>1 DEF OneOf
    <3>2. CASE Putting # {} /\ k \notin kept.open
      <4>1. PICK i \in DOMAIN submits : submits[i].step = "put" BY <3>2 DEF Putting
      <4>2. kept.forms # {} BY <4>1 DEF FormIInv, Submitted, Range
      <4>3. OneOf(settings, kept.forms, k) BY <3>2, <4>2 DEF FormIInv, Kept
      <4>. QED BY <1>7, <3>2, <4>3 DEF OneOf
    <3>. QED BY <1>7, <3>1, <3>2
  <2>. QED BY <1>1, <2>1 DEF Kept, OneOf, Has
<1>10. sent' \in Configs \cup {None} BY <1>1 DEF FormIInv, FormTypeOK
<1>. QED BY <1>1, <1>3, <1>7, <1>8, <1>9, <1>10, SubmitFrame DEF OfTheSaved

(* One of the submissions in flight is at another point.                   *)
LEMMA SubmitReplaced ==
  ASSUME Submitted, submits \in Seq(Submissions), NEW i \in DOMAIN submits, NEW x \in Submissions,
         submits' = [submits EXCEPT ![i] = x], kept'.forms = kept.forms, x.form = submits[i].form,
         x.step = "put" => submits[i].step = "put", x.step = "advance" => x.pending = {}
  PROVE  submits' \in Seq(Submissions) /\ Submitted'
<1>1. /\ submits' \in Seq(Submissions)
      /\ Range(submits') = {submits[j] : j \in DOMAIN submits \ {i}} \cup {x}
  <2>. DEFINE s == submits
              t == [s EXCEPT ![i] = x]
  <2>1. s \in Seq(Submissions) /\ i \in DOMAIN s OBVIOUS
  <2>. HIDE DEF s
  <2>2. t \in Seq(Submissions) /\ Range(t) = {s[j] : j \in DOMAIN s \ {i}} \cup {x}
    BY <2>1, RangeReplaced
  <2>. QED BY <2>2 DEF s
<1>2. \A j \in DOMAIN submits : submits[j] \in Range(submits) BY DEF Range
<1>. QED BY <1>1, <1>2 DEF Submitted

(* A PUT is served, answered or not.                                       *)
LEMMA PutStep ==
  ASSUME FormIInv, NEW i \in DOMAIN submits, NEW k \in Keys, Put(i, k) \/ PutFails(i, k)
  PROVE  FormIInv'
<1>. DEFINE f == submits[i].form
            x == [submits[i] EXCEPT !.pending = @ \ {k}]
<1>1. /\ settings \in Settings /\ submits \in Seq(Submissions) /\ submits[i] \in Submissions
      /\ kept \in [forms : SUBSET Forms, open : SUBSET Keys] /\ sent \in Configs \cup {None}
      /\ k \in submits[i].pending /\ submits' = [submits EXCEPT ![i] = x]
      /\ UNCHANGED <<stored, videoInfo, mounted, form, isLoading, load, priorRun, presets, saves, sent, source>>
  BY DEF FormIInv, FormTypeOK, Put, PutFails, screen
<1>2. /\ x \in Submissions /\ x.form = f /\ x.step = submits[i].step /\ f \in Forms
      /\ submits[i].step = "put"
  <2>1. submits[i].step \in {"put", "advance"} BY <1>1 DEF Submissions
  <2>2. submits[i].step # "advance" BY <1>1 DEF FormIInv, Submitted, Range
  <2>. QED BY <1>1, <2>1, <2>2 DEF Submissions
<1>3. f \in kept.forms BY <1>2 DEF FormIInv, Submitted, Range
<1>4. /\ kept' \in [forms : SUBSET Forms, open : SUBSET Keys] /\ kept'.forms = kept.forms
      /\ \/ settings' = With(settings, f, k) /\ kept.open \ {k} \subseteq kept'.open
         \/ settings' = settings /\ kept'.open = kept.open
  BY <1>1 DEF Put, PutFails
<1>. HIDE DEF x
<1>5. submits' \in Seq(Submissions) /\ Submitted' BY <1>1, <1>2, <1>4, SubmitReplaced DEF FormIInv
<1>. HIDE DEF f
<1>6. settings' \in Settings BY <1>1, <1>2, <1>4, WithKey
<1>7. Kept'
  <2>1. ASSUME NEW j \in Keys \ kept'.open PROVE OneOf(settings', kept.forms, j)
    <3>1. CASE settings' = settings /\ kept'.open = kept.open
      BY <1>3, <2>1, <3>1 DEF FormIInv, Kept
    <3>2. CASE settings' = With(settings, f, k) /\ j = k
      BY <1>1, <1>2, <1>3, <3>2, WithKey DEF OneOf
    <3>3. CASE settings' = With(settings, f, k) /\ j # k /\ j \notin kept.open
      <4>1. OneOf(settings, kept.forms, j) BY <1>3, <2>1, <3>3 DEF FormIInv, Kept
      <4>2. kept.forms \subseteq Forms BY <1>1
      <4>. QED BY <1>1, <1>2, <3>3, <4>1, <4>2, WithKey DEF OneOf
    <3>. QED BY <1>4, <2>1, <3>1, <3>2, <3>3
  <2>. QED BY <1>4, <2>1 DEF Kept, OneOf
<1>. QED BY <1>1, <1>4, <1>5, <1>6, <1>7, SubmitFrame DEF OfTheSaved

LEMMA SubmittingStep ==
  ASSUME FormIInv, Submitting
  PROVE  FormIInv'
<1>1. PICK i \in DOMAIN submits : (\E k \in Keys : Put(i, k) \/ PutFails(i, k)) \/ Advance(i) \/ SubmitDone(i)
  BY DEF Submitting
<1>2. /\ submits \in Seq(Submissions) /\ submits[i] \in Submissions /\ settings \in Settings
      /\ kept \in [forms : SUBSET Forms, open : SUBSET Keys] /\ sent \in Configs \cup {None}
  BY DEF FormIInv, FormTypeOK
<1>3. CASE Advance(i)
  <2>. DEFINE x == [submits[i] EXCEPT !.step = "advance", !.pending = {}]
  <2>1. /\ submits' = [submits EXCEPT ![i] = x] /\ sent' \in {sent, BuildModeConfig(submits[i].form)}
        /\ UNCHANGED <<settings, stored, videoInfo, mounted, form, isLoading, load, priorRun, presets, saves,
                       kept, source>>
    BY <1>3 DEF Advance, screen, preferences
  <2>2. sent' \in Configs \cup {None} BY <1>2, <2>1, BuiltConfig DEF Submissions
  <2>3. x \in Submissions /\ x.form = submits[i].form /\ x.step = "advance" /\ x.pending = {}
    BY <1>2 DEF Submissions
  <2>. HIDE DEF x
  <2>4. submits' \in Seq(Submissions) /\ Submitted' BY <1>2, <2>1, <2>3, SubmitReplaced DEF FormIInv
  <2>5. Kept' BY <2>1 DEF FormIInv, Kept, OneOf
  <2>. QED BY <1>2, <2>1, <2>2, <2>4, <2>5, SubmitFrame DEF OfTheSaved
<1>4. CASE SubmitDone(i)
  <2>1. /\ submits' = RemoveAt(submits, i)
        /\ UNCHANGED <<settings, stored, videoInfo, mounted, form, isLoading, load, priorRun, presets, saves,
                       sent, kept, source>>
    BY <1>4 DEF SubmitDone, screen, preferences
  <2>2. /\ submits' \in Seq(Submissions)
        /\ Range(submits') = {submits[j] : j \in DOMAIN submits \ {i}}
    BY <1>2, <2>1, RangeWithout DEF RemoveAt
  <2>3. \A j \in DOMAIN submits : submits[j] \in Range(submits) BY DEF Range
  <2>4. Submitted' BY <2>1, <2>2, <2>3 DEF FormIInv, Submitted
  <2>5. Kept' BY <2>1 DEF FormIInv, Kept, OneOf
  <2>. QED BY <1>2, <2>1, <2>2, <2>4, <2>5, SubmitFrame DEF OfTheSaved
<1>. QED BY <1>1, <1>3, <1>4, PutStep

LEMMA FormInitially == ASSUME FormInit PROVE FormIInv
<1>1. settings \in Settings
  <2>. DEFINE at(s) == IF s \in Earlier THEN [on |-> TRUE, num |-> 2, text |-> TRUE] ELSE Default(s)
              S == [s \in Sections |-> at(s)]
  <2>1. ASSUME NEW s \in Sections PROVE at(s) \in Values /\ at(s) \in Field(s)
    <3>1. CASE s \in Earlier
      <4>1. s \in {"captions", "music", "branding", "overlay"} BY <3>1, FormConstants
      <4>2. s \in WithText /\ 2 \in Nums(s) BY <4>1 DEF WithText, Nums, ZeroLost
      <4>. QED BY <3>1, <4>2 DEF Values, Field
    <3>2. CASE s \notin Earlier BY <3>2, DefaultField
    <3>. QED BY <3>1, <3>2
  <2>2. settings = [mode |-> "longform", sec |-> S] BY DEF FormInit
  <2>. HIDE DEF at
  <2>3. S \in [Sections -> Values] /\ \A s \in Sections : S[s] \in Field(s) BY <2>1
  <2>. HIDE DEF S
  <2>. QED BY <2>2, <2>3 DEF Settings, Modes
<1>2. form = InitForm /\ source = [from |-> "none", cfg |-> None, whole |-> TRUE]
  BY DEF FormInit
<1>3. FormTypeOK
  <2>1. /\ stored = <<>> /\ presets = <<>> /\ videoInfo = 0 /\ mounted = "no" /\ isLoading = FALSE
        /\ priorRun = FALSE /\ load = None /\ saves = <<>> /\ submits = <<>> /\ sent = None
        /\ kept = [forms |-> {}, open |-> {}]
    BY DEF FormInit
  <2>2. \A S : <<>> \in Seq(S) OBVIOUS
  <2>3. kept \in [forms : SUBSET Forms, open : SUBSET Keys] BY <2>1
  <2>4. source.from \notin {"preset", "historical", "settings"} BY <1>2
  <2>. QED BY <1>1, <1>2, <2>1, <2>2, <2>3, <2>4, InitialForm, EmptyList DEF FormTypeOK
<1>4. Untouched /\ FormIsTheConfig /\ Remembered /\ FromHistory
  BY <1>2, InitialForm DEF Untouched, FormIsTheConfig, Remembered, FromHistory
<1>5. Submitted /\ Kept /\ LoadHolds
  <2>1. Range(submits) = {} BY DEF FormInit, Range
  <2>. QED BY <2>1 DEF FormInit, Submitted, Kept, LoadHolds
<1>. QED BY <1>3, <1>4, <1>5 DEF FormIInv

LEMMA FormStep == ASSUME FormIInv, [FormNext]_formVars PROVE FormIInv'
<1>1. CASE MountFresh \/ PriorClips BY <1>1, AppearStep
<1>2. CASE MountHistorical BY <1>2, GoneBackStep
<1>3. CASE Unmount BY <1>3, UnmountStep
<1>4. CASE \E d \in Durations : VideoInfo(d) BY <1>4, VideoInfoStep
<1>5. CASE Loading BY <1>5, LoadingStep
<1>6. CASE Edit BY <1>6, EditStep
<1>7. CASE \E i \in Listed : SelectPreset(i) BY <1>7, SelectPresetStep
<1>8. CASE (\E i \in Listed : DeletePreset(i)) \/ (\E name \in Names : SavePreset(name)) \/ Saving
  BY <1>8, SavingStep
<1>9. CASE Submit BY <1>9, SubmitStep
<1>10. CASE Submitting BY <1>10, SubmittingStep
<1>11. CASE UNCHANGED formVars
  <2>1. UNCHANGED <<settings, stored, videoInfo, mounted, form, isLoading, load, priorRun, presets, saves,
                    submits, sent, kept, source>>
    BY <1>11 DEF formVars, screen, preferences
  <2>2. OfTheSaved' BY <2>1, SameSaved DEF FormIInv, OfTheSaved
  <2>3. /\ settings' \in Settings /\ sent' \in Configs \cup {None} /\ submits' \in Seq(Submissions)
        /\ kept' \in [forms : SUBSET Forms, open : SUBSET Keys]
    BY <2>1 DEF FormIInv, FormTypeOK
  <2>. QED BY <2>1, <2>2, <2>3, SubmitFrame
<1>. QED
  BY <1>1, <1>2, <1>3, <1>4, <1>5, <1>6, <1>7, <1>8, <1>9, <1>10, <1>11 DEF FormNext

LEMMA FormInvariant == FormSpec => []FormIInv
BY FormInitially, FormStep, PTL DEF FormSpec

(* The form, the configs made of it, and the lists of presets, in which a  *)
(* name is once, are well formed: after(After), which is the filter of     *)
(* setPresets and the upsert of the server, keeps a name unique.           *)
THEOREM FormTypeCorrect == FormSpec => []FormTypeOK
BY FormInvariant, PTL DEF FormIInv

(* What a preset or an earlier submission has put into the form is what    *)
(* would be submitted, for all presets, numbers of clicks and orders of    *)
(* answers, edits and remounts.                                            *)
THEOREM FormStaysTheConfig == FormSpec => []FormIsTheConfig
BY FormInvariant, PTL DEF FormIInv

(* What was submitted is found again by the next load of the settings,     *)
(* whatever was done between: after one submission all of whose PUTs were  *)
(* answered all of it, after submissions that overlapped, as they do when  *)
(* the step is left and shown again (StepMode:150, 592-700), each switch   *)
(* and each number of one of them, and the texts that all of them had.     *)
THEOREM SubmissionRemembered == FormSpec => []Remembered
BY FormInvariant, PTL DEF FormIInv
-----------------------------------------------------------------------------
(* The inductive invariant of the review steps.  Requests and generators   *)
(* are looked at as sets, events in their order.                           *)

Asks == Range(pending)
Runs == Range(gens)

(* Generating: until the batch is over there is the request, the generator *)
(* before its first event, the generator once the page has heard of a      *)
(* clip, or the report that will make a difference.                        *)
Primed ==
  \/ thumbnailProgress # "batch_done"
  \/ \E j \in DOMAIN events : events[j].type = "thumbnail" /\ events[j].status # "batch_done"

EndComes ==
  \E k \in DOMAIN events :
     /\ events[k].type = "thumbnail" /\ events[k].status = "batch_done"
     /\ \/ thumbnailProgress # "batch_done"
        \/ \E j \in DOMAIN events :
              j < k /\ events[j].type = "thumbnail" /\ events[j].status # "batch_done"

BatchEnds ==
  shown = Thumbnails /\ ui.generating /\ live =>
    \/ \E r \in Asks : r.kind = "generate" /\ r.mine
    \/ \E g \in Runs : g.kind = "thumbnails" /\ (Primed \/ (g.at = 0 /\ ~g.open))
    \/ EndComes

(* The page is not ahead of the server, and is told of the last gate.      *)
NotAhead ==
  live => /\ top <= state
          /\ \A e \in Range(events) : e.type = "state" => e.to <= state
          /\ \A r \in Asks : r.kind = "advance" /\ r.reply \in Nat => r.reply <= state
          /\ \A r \in Asks : r.kind = "choice" => state >= Choice

EndIsState ==
  calm /\ live =>
    \/ \E k \in DOMAIN events : /\ events[k].type = "state" /\ events[k].to = state
                                /\ \A j \in DOMAIN events : events[j].type = "state" => j <= k
    \/ top = state /\ \A e \in Range(events) : e.type # "state"

(* A text that was generated for one clip is asked for by the metadata     *)
(* step, and was taken up before it is there; a submission has been looked *)
(* at before it is written.                                                *)
Singles ==
  \A r \in Asks : /\ r.kind = "single" /\ r.reply \in Nat => r.busy
                  /\ r.kind = "single" /\ r.mine => shown = Metadata
                  /\ r.kind = "metadata" /\ r.busy => \A c \in Clips : r.body[c] # 0
                  /\ r.kind = "choice" /\ ~r.busy => r.clip = 0

(* A submission is half written.                                           *)
Midway(kind) == \E r \in Asks : r.kind = kind /\ r.busy /\ r.clip > 0 /\ r.reply = Null

(* The lists of clips that the page has or is about to have.               *)
KnownLists == (IF clips = <<>> THEN {} ELSE {clips})
         \cup {r.reply : r \in {q \in Asks : q.kind = "load" /\ q.reply \notin {Null, Refused}}}

AsCut(list)  == \A c \in Clips : list[c].text = 0
Whole(list)  == \A c \in Clips : list[c].sel

Early ==
  /\ state = Thumbnails => /\ \A list \in KnownLists \cup {rows} : AsCut(list)
                           /\ \A g \in Runs : g.kind = "thumbnails"
                           /\ \A r \in Asks : r.busy => r.kind = "thumbnail"
  /\ \A r \in Asks : r.kind = "choice" /\ r.busy => state \notin {Thumbnails, Metadata}
  /\ calm /\ state \in {Thumbnails, Metadata, Choice} /\ ~Midway("choice") =>
        \A list \in KnownLists \cup {rows} : Whole(list)

PathComes(c) ==
  \/ \E r \in Asks : r.kind = "thumbnail" /\ r.clip = c /\ r.reply = TRUE
  \/ \E e \in Range(events) : e.type = "thumbnail" /\ e.status = "done" /\ e.clip = c

PathsCome ==
  /\ \A c \in Clips : PathComes(c) => rows[c].path
  /\ \A list \in KnownLists, c \in Clips :
        /\ list[c].path => rows[c].path
        /\ calm /\ live /\ rows[c].path => list[c].path \/ PathComes(c)

ClipsCome ==
  /\ calm => \A r \in Asks : r.kind = "load" => r.reply # Refused
  /\ calm /\ live /\ clips = <<>> /\ shown # Confirm => \E r \in Asks : r.kind = "load"

(* The last status of the metadata that the page will have heard of.       *)
LastStatus(v) ==
  \/ \E k \in DOMAIN events : /\ events[k].type = "metadata" /\ events[k].status = v
                              /\ \A j \in DOMAIN events : events[j].type = "metadata" => j <= k
  \/ metadataProgress = v /\ \A e \in Range(events) : e.type # "metadata"

AtWork(g) == g.kind = "metadata" /\ g.stage # "started"

OneAtWork ==
  calm /\ live =>
    /\ \A i, j \in DOMAIN gens : AtWork(gens[i]) /\ AtWork(gens[j]) => i = j
    /\ (\E g \in Runs : AtWork(g)) <=> LastStatus("generating")

(* The done event that makes a difference to the metadata step.            *)
DoneComes ==
  \E k \in DOMAIN events :
     /\ events[k].type = "metadata" /\ events[k].status = "done"
     /\ \/ metadataProgress # "done"
        \/ \E j \in DOMAIN events : j < k /\ events[j].type = "metadata" /\ events[j].status # "done"

TextComes(c) == \E r \in Asks : r.kind = "single" /\ r.clip = c /\ r.reply = rows[c].text
UpToDate(list) == \A c \in Clips : list[c].text = rows[c].text \/ TextComes(c)
LoadOf(r) == r.kind = "load"
Answered(r) == LoadOf(r) /\ r.reply \notin {Null, Refused}

TextsCome ==
  \/ \E r \in Asks : LoadOf(r) /\ r.reply = Null
  \/ \E g \in Runs : g.kind = "metadata" /\ g.stage = "generated"
  \/ DoneComes
  \/ \E r \in Asks : Answered(r) /\ UpToDate(r.reply)

MetadataShown ==
  calm /\ live /\ state = Metadata /\ ~Midway("metadata") =>
    /\ \A r \in Asks : r.kind = "single" /\ r.reply \in Nat =>
          \E q \in Asks : q.kind = "single" /\ q.clip = r.clip /\ q.reply = rows[r.clip].text
    /\ shown = Metadata =>
          /\ TextsCome \/ /\ ui.edits \in [Clips -> Nat]
                          /\ \A c \in Clips \ ui.typed : ui.edits[c] = rows[c].text \/ TextComes(c)
          /\ (\E r \in Asks : Answered(r) /\ ~UpToDate(r.reply)) => TextsCome

Exact(list) == \A c \in Clips : list[c].text = rows[c].text

ChoiceShown ==
  calm /\ live /\ state = Choice /\ shown = Choice /\ ~Midway("choice") =>
    /\ ui.typed # {} \/ ui.toggled => ~ui.loading
    /\ \/ /\ ui.loading /\ \E r \in Asks : LoadOf(r) /\ r.mine
          /\ \A r \in Asks : Answered(r) /\ r.mine => Exact(r.reply)
       \/ /\ ~ui.loading
          /\ \A r \in Asks : Answered(r) => Exact(r.reply)
          /\ clips # <<>> /\ ui.edits \in [Clips -> Nat]
          /\ \A c \in Clips : ui.edits[c] = rows[c].text \/ (c \in ui.typed /\ ui.edits[c] # 0)
          /\ ui.toggled \/ ui.selected = Clips

(* Some clip has a text.                                                   *)
HasText(list) == \E c \in Clips : list[c].text # 0

MetadataRuns == \E g \in Runs : g.kind = "metadata"

TextExpected ==
  \/ MetadataRuns \/ LastStatus("error") \/ DoneComes
  \/ \E r \in Asks : LoadOf(r) /\ (r.reply = Null \/ (Answered(r) /\ HasText(r.reply)))

(* A choice leaves no clip without a text that has one.                    *)
Fits(r) == \A c \in Clips : rows[c].text # 0 => r.body.edits[c] # 0

TextsThere ==
  calm /\ live /\ Cli =>
    /\ state >= Metadata => HasText(rows) \/ MetadataRuns \/ LastStatus("error")
    /\ (\E g \in Runs : g.kind = "metadata" /\ g.stage = "generated") => HasText(rows)
    /\ state = Choice => \A r \in Asks : r.kind = "choice" /\ r.reply = Null =>
                            Fits(r) \/ (r.clip = 0 /\ Midway("choice"))
    /\ shown = Metadata /\ clips # <<>> => HasText(clips) \/ TextExpected
    /\ shown = Metadata /\ (\E r \in Asks : Answered(r) /\ ~HasText(r.reply)) => TextExpected

StepsIInv ==
  /\ TypeOK /\ BatchEnds /\ NotAhead /\ EndIsState /\ Singles /\ Early /\ PathsCome /\ ClipsCome /\ OneAtWork
  /\ MetadataShown /\ ChoiceShown /\ TextsThere
-----------------------------------------------------------------------------
(* Requests.                                                               *)

Kinds == {"load", "generate", "preview", "regenerate", "advance", "thumbnail", "single", "metadata", "choice"}

RepliesTo(kind) ==
  CASE kind = "load"      -> {Refused} \cup [Clips -> Row]
    [] kind = "advance"   -> {Refused, Metadata, Choice}
    [] kind = "thumbnail" -> {Refused, TRUE}
    [] kind = "single"    -> {Refused} \cup Nat
    [] kind = "choice"    -> {Refused, Confirm}
    [] OTHER              -> {}

Looked == {"thumbnail", "single", "metadata", "choice"}

Places(kind) ==
  CASE kind \in {"thumbnail", "single"} -> Clips
    [] kind = "metadata" -> 0 .. NumClips
    [] kind = "choice"   -> 0 .. NumClips + 1
    [] OTHER             -> {0}

Formed(r) ==
  /\ r = [kind |-> r.kind, clip |-> r.clip, body |-> r.body, reply |-> r.reply, busy |-> r.busy,
          mine |-> r.mine]
  /\ r.kind \in Kinds /\ r.mine \in BOOLEAN
  /\ r.clip \in Places(r.kind)
  /\ r.body \in IF r.kind = "metadata" THEN [Clips -> Nat] ELSE IF r.kind = "choice" THEN Picks ELSE {Null}
  /\ r.reply \in {Null} \cup RepliesTo(r.kind)
  /\ r.busy \in IF r.kind \in Looked THEN BOOLEAN ELSE {FALSE}

LEMMA RequestFormed == ASSUME NEW r \in Requests PROVE Formed(r)
BY DEF Requests, Formed, Kinds, RepliesTo, Places, Looked

LEMMA FormedRequest == ASSUME NEW r, Formed(r) PROVE r \in Requests
<1>1. CASE r.kind = "load" BY <1>1 DEF Requests, Formed, RepliesTo, Places, Looked
<1>2. CASE r.kind \in {"generate", "preview", "regenerate"} BY <1>2 DEF Requests, Formed, RepliesTo, Places, Looked
<1>3. CASE r.kind = "advance" BY <1>3 DEF Requests, Formed, RepliesTo, Places, Looked
<1>4. CASE r.kind = "thumbnail" BY <1>4 DEF Requests, Formed, RepliesTo, Places, Looked
<1>5. CASE r.kind = "single" BY <1>5 DEF Requests, Formed, RepliesTo, Places, Looked
<1>6. CASE r.kind = "metadata" BY <1>6 DEF Requests, Formed, RepliesTo, Places, Looked
<1>7. CASE r.kind = "choice" BY <1>7 DEF Requests, Formed, RepliesTo, Places, Looked
<1>. QED BY <1>1, <1>2, <1>3, <1>4, <1>5, <1>6, <1>7 DEF Formed, Kinds

LEMMA RequestMade ==
  ASSUME NEW kind \in Kinds, NEW clip, NEW body,
         clip \in IF kind \in {"thumbnail", "single"} THEN Clips ELSE {0},
         body \in IF kind = "metadata" THEN [Clips -> Nat] ELSE IF kind = "choice" THEN Picks ELSE {Null}
  PROVE  LET r == Request(kind, clip, body) IN
         /\ r \in Requests /\ r.kind = kind /\ r.clip = clip /\ r.body = body /\ r.reply = Null
         /\ ~r.busy /\ r.mine
<1>. DEFINE r == Request(kind, clip, body)
<1>1. /\ r.kind = kind /\ r.clip = clip /\ r.body = body /\ r.reply = Null /\ r.busy = FALSE /\ r.mine = TRUE
      /\ r = [kind |-> r.kind, clip |-> r.clip, body |-> r.body, reply |-> r.reply, busy |-> r.busy,
              mine |-> r.mine]
  BY DEF Request
<1>. HIDE DEF r
<1>2. clip \in Places(kind) BY ReviewConstants DEF Places, Kinds
<1>3. Formed(r) BY <1>1, <1>2 DEF Formed
<1>. QED BY <1>1, <1>3, FormedRequest DEF r

(* The rest of a request that is answered, taken up, written or left by    *)
(* its step.                                                               *)
SameRequest(r, q) ==
  r.kind = q.kind /\ r.body = q.body /\ (r.kind \in {"thumbnail", "single"} => r.clip = q.clip)

LEMMA RequestReplied ==
  ASSUME NEW r \in Requests, NEW v \in RepliesTo(r.kind)
  PROVE  LET q == [r EXCEPT !.reply = v] IN
         q \in Requests /\ SameRequest(q, r) /\ q.clip = r.clip /\ q.reply = v /\ q.busy = r.busy /\ q.mine = r.mine
<1>. DEFINE q == [r EXCEPT !.reply = v]
<1>1. Formed(r) BY RequestFormed
<1>2. q = [kind |-> r.kind, clip |-> r.clip, body |-> r.body, reply |-> v, busy |-> r.busy, mine |-> r.mine]
  BY <1>1 DEF Formed
<1>. HIDE DEF q
<1>3. SameRequest(q, r) /\ q.clip = r.clip /\ q.reply = v /\ q.busy = r.busy /\ q.mine = r.mine
  BY <1>2 DEF SameRequest
<1>4. Formed(q) BY <1>1, <1>2, <1>3 DEF Formed, SameRequest
<1>. QED BY <1>3, <1>4, FormedRequest DEF q

LEMMA RequestBusy ==
  ASSUME NEW r \in Requests, r.kind \in Looked
  PROVE  LET q == [r EXCEPT !.busy = TRUE] IN
         q \in Requests /\ SameRequest(q, r) /\ q.clip = r.clip /\ q.reply = r.reply /\ q.busy /\ q.mine = r.mine
<1>. DEFINE q == [r EXCEPT !.busy = TRUE]
<1>1. Formed(r) BY RequestFormed
<1>2. q = [kind |-> r.kind, clip |-> r.clip, body |-> r.body, reply |-> r.reply, busy |-> TRUE, mine |-> r.mine]
  <2>1. \A x : [r EXCEPT !.busy = x] = [kind |-> r.kind, clip |-> r.clip, body |-> r.body, reply |-> r.reply,
                                        busy |-> x, mine |-> r.mine]
    BY <1>1 DEF Formed
  <2>. QED BY <2>1
<1>. HIDE DEF q
<1>3. SameRequest(q, r) /\ q.clip = r.clip /\ q.reply = r.reply /\ q.busy /\ q.mine = r.mine
  BY <1>2 DEF SameRequest
<1>4. q.busy = TRUE BY <1>2
<1>5. Formed(q) BY <1>1, <1>2, <1>3, <1>4 DEF Formed, SameRequest
<1>. QED BY <1>3, <1>5, FormedRequest DEF q

LEMMA RequestWritten ==
  ASSUME NEW r \in Requests,
         \/ r.kind = "metadata" /\ r.clip < NumClips
         \/ r.kind = "choice" /\ r.clip <= NumClips
  PROVE  LET q == [r EXCEPT !.clip = @ + 1] IN
         q \in Requests /\ SameRequest(q, r) /\ q.clip = r.clip + 1 /\ q.reply = r.reply /\ q.busy = r.busy
         /\ q.mine = r.mine
<1>. DEFINE q == [r EXCEPT !.clip = @ + 1]
<1>1. Formed(r) BY RequestFormed
<1>2. q = [kind |-> r.kind, clip |-> r.clip + 1, body |-> r.body, reply |-> r.reply, busy |-> r.busy,
           mine |-> r.mine]
  <2>1. \A x : [r EXCEPT !.clip = x] = [kind |-> r.kind, clip |-> x, body |-> r.body, reply |-> r.reply,
                                        busy |-> r.busy, mine |-> r.mine]
    BY <1>1 DEF Formed
  <2>. QED BY <2>1
<1>. HIDE DEF q
<1>3. /\ SameRequest(q, r) /\ q.clip = r.clip + 1 /\ q.reply = r.reply /\ q.busy = r.busy
      /\ q.mine = r.mine
  BY <1>2 DEF SameRequest
<1>4. r.clip + 1 \in Places(r.kind) BY <1>1, ReviewConstants DEF Formed, Places
<1>5. Formed(q) BY <1>1, <1>2, <1>3, <1>4 DEF Formed, SameRequest
<1>. QED BY <1>3, <1>5, FormedRequest DEF q

LEMMA RequestLeft ==
  ASSUME NEW r \in Requests
  PROVE  LET q == [r EXCEPT !.mine = FALSE] IN
         q \in Requests /\ SameRequest(q, r) /\ q.clip = r.clip /\ q.reply = r.reply /\ q.busy = r.busy
         /\ ~q.mine
<1>. DEFINE q == [r EXCEPT !.mine = FALSE]
<1>1. Formed(r) BY RequestFormed
<1>2. q = [kind |-> r.kind, clip |-> r.clip, body |-> r.body, reply |-> r.reply, busy |-> r.busy, mine |-> FALSE]
  <2>1. \A x : [r EXCEPT !.mine = x] = [kind |-> r.kind, clip |-> r.clip, body |-> r.body, reply |-> r.reply,
                                        busy |-> r.busy, mine |-> x]
    BY <1>1 DEF Formed
  <2>. QED BY <2>1
<1>. HIDE DEF q
<1>3. SameRequest(q, r) /\ q.clip = r.clip /\ q.reply = r.reply /\ q.busy = r.busy /\ q.mine = FALSE
  BY <1>2 DEF SameRequest
<1>4. Formed(q) BY <1>1, <1>2, <1>3 DEF Formed, SameRequest
<1>. QED BY <1>3, <1>4, FormedRequest DEF q
-----------------------------------------------------------------------------
(* The requests in flight, as a set.                                       *)

Preview == Request("preview", 0, Null)
OwnPreview(r) == r.kind = "preview" /\ r.mine

LEMMA LoadMade ==
  /\ Load \in Requests /\ Load.kind = "load" /\ Load.reply = Null /\ ~Load.busy /\ Load.mine
  /\ Preview \in Requests /\ Preview.kind = "preview" /\ Preview.reply = Null /\ ~Preview.busy /\ Preview.mine
BY RequestMade DEF Load, Preview, Kinds

RestOf(i) == {pending[j] : j \in DOMAIN pending \ {i}}

LEMMA AskedFor ==
  ASSUME pending \in Seq(Requests), NEW i \in DOMAIN pending
  PROVE  /\ pending[i] \in Requests /\ pending[i] \in Asks
         /\ Asks = RestOf(i) \cup {pending[i]} /\ RestOf(i) \subseteq Requests
         /\ Others(i) \in Seq(Requests) /\ Range(Others(i)) = RestOf(i)
<1>1. Others(i) \in Seq(Requests) /\ Range(Others(i)) = RestOf(i)
  BY RangeWithout DEF Others, RemoveAt, RestOf
<1>2. Asks = RestOf(i) \cup {pending[i]} BY RangeSplit DEF Asks, RestOf
<1>3. Asks \subseteq Requests BY RangeIn DEF Asks
<1>. QED BY <1>1, <1>2, <1>3

LEMMA AskedAlso ==
  ASSUME pending \in Seq(Requests), NEW r \in Requests, Ask(r)
  PROVE  pending' \in Seq(Requests) /\ Asks' = Asks \cup {r}
BY RangeAppend DEF Ask, Asks

LEMMA AskedReplaced ==
  ASSUME pending \in Seq(Requests), NEW i \in DOMAIN pending, NEW r \in Requests,
         pending' = [pending EXCEPT ![i] = r]
  PROVE  pending' \in Seq(Requests) /\ Asks' = RestOf(i) \cup {r}
<1>. DEFINE s == pending
            t == [s EXCEPT ![i] = r]
<1>1. s \in Seq(Requests) /\ i \in DOMAIN s OBVIOUS
<1>. HIDE DEF s
<1>2. t \in Seq(Requests) /\ Range(t) = {s[j] : j \in DOMAIN s \ {i}} \cup {r}
  BY <1>1, RangeReplaced
<1>. QED BY <1>2 DEF Asks, RestOf, s

LEMMA AskedReply ==
  ASSUME pending \in Seq(Requests), NEW i \in DOMAIN pending, NEW v \in RepliesTo(pending[i].kind),
         Reply(i, v)
  PROVE  /\ pending' \in Seq(Requests) /\ Asks' = RestOf(i) \cup {[pending[i] EXCEPT !.reply = v]}
         /\ DOMAIN pending' = DOMAIN pending
<1>. DEFINE r == pending[i]
            q == [r EXCEPT !.reply = v]
<1>1. r \in Requests BY AskedFor
<1>2. q \in Requests BY <1>1, RequestReplied
<1>3. pending' = [pending EXCEPT ![i] = q] BY DEF Reply
<1>. HIDE DEF q
<1>4. pending' \in Seq(Requests) /\ Asks' = RestOf(i) \cup {q} BY <1>2, <1>3, AskedReplaced
<1>. QED BY <1>3, <1>4 DEF q

LeftOf(S) == {[r EXCEPT !.mine = FALSE] : r \in S}

LEMMA AllLeft ==
  ASSUME NEW reqs \in Seq(Requests)
  PROVE  Disowned(reqs) \in Seq(Requests) /\ Range(Disowned(reqs)) = LeftOf(Range(reqs))
<1>. DEFINE t == Disowned(reqs)
<1>1. t = [i \in DOMAIN reqs |-> t[i]] /\ DOMAIN t = DOMAIN reqs
      /\ \A i \in DOMAIN reqs : t[i] = [reqs[i] EXCEPT !.mine = FALSE]
  BY DEF Disowned
<1>2. \A i \in DOMAIN reqs : reqs[i] \in Requests OBVIOUS
<1>3. \A i \in DOMAIN reqs : t[i] \in Requests BY <1>1, <1>2, RequestLeft
<1>. HIDE DEF t
<1>4. t \in Seq(Requests) /\ Range(t) = {t[i] : i \in DOMAIN reqs} BY <1>1, <1>3, SequenceOf
<1>5. Range(t) = LeftOf(Range(reqs))
  <2>1. Range(t) = {[reqs[i] EXCEPT !.mine = FALSE] : i \in DOMAIN reqs} BY <1>1, <1>4
  <2>2. Range(reqs) = {reqs[i] : i \in DOMAIN reqs} BY DEF Range
  <2>. QED BY <2>1, <2>2 DEF LeftOf
<1>. QED BY <1>4, <1>5 DEF t
-----------------------------------------------------------------------------
(* The effects of the steps.                                               *)

ClipLists == {<<>>} \cup [Clips -> Row]

LEMMA ClipsAreThere ==
  /\ 1 \in Clips
  /\ \A list \in [Clips -> Row] : list # <<>> /\ DOMAIN list = Clips
<1>1. 1 \in Clips BY ReviewConstants DEF Clips
<1>2. ASSUME NEW list \in [Clips -> Row] PROVE list # <<>> /\ DOMAIN list = Clips
  <2>1. DOMAIN list = Clips OBVIOUS
  <2>2. DOMAIN <<>> = {} OBVIOUS
  <2>. QED BY <1>1, <2>1, <2>2
<1>. QED BY <1>1, <1>2

LEMMA TextsOf ==
  /\ Texts(<<>>) = <<>>
  /\ \A list \in [Clips -> Row] : /\ Texts(list) \in [Clips -> Nat]
                                  /\ \A c \in Clips : Texts(list)[c] = list[c].text
<1>1. Texts(<<>>) = <<>> BY DEF Texts
<1>2. ASSUME NEW list \in [Clips -> Row]
      PROVE  Texts(list) \in [Clips -> Nat] /\ \A c \in Clips : Texts(list)[c] = list[c].text
  BY DEF Texts, Row
<1>. QED BY <1>1, <1>2

(* What the effects leave alone.                                           *)
Beside(v, u) ==
  v.generating = u.generating /\ v.slot = u.slot /\ v.loading = u.loading /\ v.submitting = u.submitting
  /\ v.autoPending \in BOOLEAN

(* An effect that makes the previews wait asks for them.                   *)
Renders(v, u, reqs) ==
  /\ reqs \in Seq(Requests) /\ Range(reqs) \subseteq {Load, Preview}
  /\ v.ready = u.ready \/ Preview \in Range(reqs)

LEMMA RegenEffect ==
  ASSUME NEW u \in Steps, NEW list \in ClipLists
  PROVE  LET v == Regen(u, list) IN
         /\ v \in Steps /\ Beside(v, u) /\ Renders(v, u, Previews(u, list))
         /\ v.edits = u.edits /\ v.typed = u.typed /\ v.selected = u.selected /\ v.toggled = u.toggled
         /\ Range(Previews(u, list)) \subseteq {Preview}
<1>1. CASE RegenDue(u, list)
  <2>. DEFINE v == [u EXCEPT !.regenned = TRUE, !.autoPending = FALSE, !.ready = FALSE]
  <2>1. v \in Steps /\ Beside(v, u)
        /\ v.edits = u.edits /\ v.typed = u.typed /\ v.selected = u.selected /\ v.toggled = u.toggled
    BY DEF Steps, Beside
  <2>2. Regen(u, list) = v /\ Previews(u, list) = <<Preview>> BY <1>1 DEF Regen, Previews, Preview
  <2>3. <<Preview>> \in Seq(Requests) /\ Range(<<Preview>>) = {Preview} BY LoadMade DEF Range
  <2>. HIDE DEF v
  <2>. QED BY <2>1, <2>2, <2>3 DEF Renders
<1>2. CASE ~RegenDue(u, list)
  <2>1. Regen(u, list) = u /\ Previews(u, list) = <<>> BY <1>2 DEF Regen, Previews
  <2>2. <<>> \in Seq(Requests) /\ Range(<<>>) = {} BY DEF Range
  <2>. QED BY <2>1, <2>2 DEF Renders, Beside, Steps
<1>. QED BY <1>1, <1>2

LEMMA DoneEffect ==
  ASSUME NEW u \in Steps, NEW list \in ClipLists
  PROVE  LET v == OnDone(u, list) IN
         /\ v \in Steps /\ Beside(v, u) /\ Renders(v, u, DoneAsks(u, list))
         /\ v.edits = u.edits /\ v.typed = u.typed /\ v.selected = u.selected /\ v.toggled = u.toggled
         /\ Load \in Range(DoneAsks(u, list))
<1>. DEFINE w == [u EXCEPT !.autoPending = TRUE]
            p == Previews(w, list)
<1>1. /\ w \in Steps /\ Beside(w, u) /\ w.ready = u.ready
      /\ w.edits = u.edits /\ w.typed = u.typed /\ w.selected = u.selected /\ w.toggled = u.toggled
  BY DEF Steps, Beside
<1>2. OnDone(u, list) = Regen(w, list) /\ DoneAsks(u, list) = <<Load>> \o p BY DEF OnDone, DoneAsks
<1>. HIDE DEF w
<1>3. /\ p \in Seq(Requests) /\ Range(p) \subseteq {Preview}
      /\ Regen(w, list).ready = w.ready \/ Preview \in Range(p)
  BY <1>1, RegenEffect DEF Renders
<1>4. <<Load>> \in Seq(Requests) /\ Range(<<Load>>) = {Load} BY LoadMade DEF Range
<1>. HIDE DEF p
<1>5. <<Load>> \o p \in Seq(Requests) /\ Range(<<Load>> \o p) = {Load} \cup Range(p)
  <2>. DEFINE s == <<Load>>
  <2>. HIDE DEF s
  <2>1. s \in Seq(Requests) /\ Range(s) = {Load} BY <1>4 DEF s
  <2>2. s \o p \in Seq(Requests) BY <1>3, <2>1
  <2>3. Range(s \o p) = {Load} \cup Range(p) BY <1>3, <2>1, RangeConcat
  <2>. QED BY <2>2, <2>3 DEF s
<1>6. Renders(Regen(w, list), u, DoneAsks(u, list)) /\ Load \in Range(DoneAsks(u, list))
  BY <1>1, <1>2, <1>3, <1>5 DEF Renders
<1>. QED BY <1>1, <1>2, <1>6, RegenEffect DEF Beside

RecordedOK == recorded \in [meta : BOOLEAN, choice : {Null} \cup Picks]

LEMMA ClipsEffect ==
  ASSUME NEW u \in Steps, NEW list \in ClipLists, NEW gate, NEW end, RecordedOK
  PROVE  LET v == OnClips(u, list, gate, end) IN
         /\ v \in Steps /\ Beside(v, u) /\ Renders(v, u, ClipsAsk(u, list, gate))
         /\ Range(ClipsAsk(u, list, gate)) \subseteq {Preview}
         /\ gate = Metadata => v.edits = Texts(list) /\ v.typed = {}
         /\ gate \in {Metadata, Choice} /\ list # <<>> => v.edits \in [Clips -> Nat]
         /\ gate = Choice /\ list # <<>> /\ ~Historical(gate, end) =>
               /\ v.edits = Texts(list) /\ v.selected = {c \in Clips : list[c].sel}
               /\ v.typed = {} /\ ~v.toggled
         /\ gate = Choice => v.typed \subseteq u.typed /\ (v.toggled => u.toggled)
         /\ gate # Metadata /\ (gate # Choice \/ list = <<>>) => v = u
<1>. DEFINE v == OnClips(u, list, gate, end)
<1>0. Metadata # Choice /\ <<>> \in Seq(Requests) /\ Range(<<>>) = {} BY DEF Metadata, Choice, Range
<1>1. CASE gate = Metadata
  <2>. DEFINE w == Regen(u, list)
  <2>1. v = [w EXCEPT !.edits = Texts(list), !.typed = {}] /\ ClipsAsk(u, list, gate) = Previews(u, list)
    BY <1>0, <1>1 DEF OnClips, ClipsAsk
  <2>2. /\ w \in Steps /\ Beside(w, u) /\ Renders(w, u, Previews(u, list))
        /\ Range(Previews(u, list)) \subseteq {Preview}
    BY RegenEffect
  <2>3. Texts(list) \in {<<>>} \cup [Clips -> Nat] /\ (list # <<>> => Texts(list) \in [Clips -> Nat])
    BY TextsOf DEF ClipLists
  <2>. HIDE DEF w
  <2>4. /\ [w EXCEPT !.edits = Texts(list), !.typed = {}] \in Steps
        /\ Beside([w EXCEPT !.edits = Texts(list), !.typed = {}], w)
        /\ [w EXCEPT !.edits = Texts(list), !.typed = {}].ready = w.ready
        /\ [w EXCEPT !.edits = Texts(list), !.typed = {}].edits = Texts(list)
        /\ [w EXCEPT !.edits = Texts(list), !.typed = {}].typed = {}
    BY <2>2, <2>3 DEF Steps, Beside
  <2>. HIDE DEF v
  <2>5. v \in Steps /\ Beside(v, w) /\ v.ready = w.ready /\ v.edits = Texts(list) /\ v.typed = {}
    BY <2>1, <2>4
  <2>6. Beside(v, u) BY <2>2, <2>5 DEF Beside
  <2>7. Renders(v, u, ClipsAsk(u, list, gate)) BY <2>1, <2>2, <2>5 DEF Renders
  <2>. QED BY <1>0, <1>1, <2>1, <2>2, <2>3, <2>5, <2>6, <2>7 DEF v
<1>2. CASE gate = Choice /\ list # <<>>
  <2>1. ClipsAsk(u, list, gate) = <<>> BY <1>0, <1>2 DEF ClipsAsk
  <2>2. list \in [Clips -> Row] /\ DOMAIN list = Clips BY <1>2 DEF ClipLists
  <2>3. Texts(list) \in [Clips -> Nat] BY <2>2, TextsOf
  <2>4. CASE Historical(gate, end)
    <3>. DEFINE b == recorded.choice
                w == [u EXCEPT !.edits = b.edits, !.selected = b.selected]
    <3>1. b # Null BY <1>0, <1>2, <2>4 DEF Historical
    <3>2. b.edits \in [Clips -> Nat] /\ b.selected \in SUBSET Clips BY <3>1 DEF RecordedOK, Picks
    <3>3. v = w BY <1>0, <1>2, <2>4 DEF OnClips
    <3>. HIDE DEF b
    <3>4. w \in Steps /\ Beside(w, u) /\ w.ready = u.ready /\ w.edits \in [Clips -> Nat]
          /\ w.typed = u.typed /\ w.toggled = u.toggled
      BY <3>2 DEF Steps, Beside
    <3>. HIDE DEF w, v
    <3>. QED BY <1>0, <1>2, <2>1, <2>4, <3>3, <3>4 DEF Renders, v
  <2>5. CASE ~Historical(gate, end)
    <3>. DEFINE S == {c \in Clips : list[c].sel}
                w == [u EXCEPT !.edits = Texts(list), !.selected = S, !.typed = {}, !.toggled = FALSE]
    <3>1. v = w BY <1>0, <1>2, <2>2, <2>5 DEF OnClips
    <3>2. S \in SUBSET Clips OBVIOUS
    <3>. HIDE DEF S
    <3>3. w \in Steps /\ Beside(w, u) /\ w.ready = u.ready /\ w.edits = Texts(list) /\ w.selected = S
          /\ w.typed = {} /\ w.toggled = FALSE
      BY <2>3, <3>2 DEF Steps, Beside
    <3>. HIDE DEF w, v
    <3>. QED BY <1>0, <1>2, <2>1, <2>3, <2>5, <3>1, <3>3 DEF Renders, v, S
  <2>. QED BY <2>4, <2>5
<1>3. CASE gate # Metadata /\ (gate # Choice \/ list = <<>>)
  <2>1. v = u /\ ClipsAsk(u, list, gate) = <<>> BY <1>3 DEF OnClips, ClipsAsk
  <2>2. Beside(u, u) BY DEF Beside, Steps
  <2>. HIDE DEF v
  <2>. QED BY <1>0, <1>3, <2>1, <2>2 DEF Renders, v
<1>. QED BY <1>1, <1>2, <1>3

LEMMA FreshStep == /\ Fresh \in Steps /\ ~Fresh.generating /\ ~Fresh.submitting /\ ~Fresh.loading /\ Fresh.ready
                   /\ Fresh.typed = {} /\ ~Fresh.toggled /\ Fresh.slot = 0
<1>1. /\ Fresh.typed = {} /\ Fresh.slot = 0 /\ ~Fresh.generating /\ ~Fresh.submitting /\ ~Fresh.loading
      /\ Fresh.ready /\ ~Fresh.toggled
  BY DEF Fresh
<1>2. <<>> \in {<<>>} \cup [Clips -> Nat] /\ 0 \in 0 .. NumClips BY ReviewConstants
<1>. DEFINE E == {<<>>} \cup [Clips -> Nat]
            e == <<>>
<1>3. e \in E BY <1>2
<1>. HIDE DEF e, E
<1>4. [generating |-> FALSE, slot |-> 0, edits |-> e, regenned |-> FALSE, autoPending |-> FALSE, ready |-> TRUE,
       loading |-> FALSE, submitting |-> FALSE, selected |-> {}, typed |-> {}, toggled |-> FALSE]
      \in [generating : BOOLEAN, slot : 0 .. NumClips, edits : E, regenned : BOOLEAN, autoPending : BOOLEAN,
           ready : BOOLEAN, loading : BOOLEAN, submitting : BOOLEAN, selected : SUBSET Clips,
           typed : SUBSET Clips, toggled : BOOLEAN]
  BY <1>2, <1>3
<1>5. Fresh \in Steps BY <1>4 DEF Fresh, Steps, e, E
<1>. QED BY <1>1, <1>5

Mounts(v, gate, reqs) ==
  /\ v \in Steps /\ ~v.generating /\ ~v.submitting /\ (v.loading = (gate = Choice)) /\ v.slot = 0
  /\ gate = Choice => v.typed = {} /\ ~v.toggled
  /\ gate \in {Metadata, Choice} /\ clips # <<>> => v.edits \in [Clips -> Nat]
  /\ reqs \in Seq(Requests) /\ Range(reqs) \subseteq {Load, Preview}
  /\ gate # Confirm => Load \in Range(reqs)
  /\ v.ready \/ Preview \in Range(reqs)

LEMMA MountEffect ==
  ASSUME NEW gate, NEW end, clips \in ClipLists, RecordedOK
  PROVE  Mounts(Mounted(gate, end), gate, MountAsks(gate, end))
<1>. DEFINE f == [Fresh EXCEPT !.loading = gate = Choice]
            u == OnClips(f, clips, gate, end)
            w == OnClips(Fresh, clips, gate, end)
            a == ClipsAsk(Fresh, clips, gate)
            d == DoneAsks(w, clips)
<1>0. /\ Metadata # Choice /\ Metadata # Confirm /\ <<>> \in Seq(Requests) /\ Range(<<>>) = {}
      /\ <<Load>> \in Seq(Requests) /\ Range(<<Load>>) = {Load}
  BY LoadMade DEF Metadata, Choice, Confirm, Range
<1>1. /\ f \in Steps /\ ~f.generating /\ ~f.submitting /\ f.loading = (gate = Choice) /\ f.ready
      /\ f.typed = {} /\ ~f.toggled /\ f.slot = 0
  BY FreshStep DEF Steps
<1>2. gate = Metadata => f = Fresh
  <2>. SUFFICES ASSUME gate = Metadata PROVE f = Fresh OBVIOUS
  <2>1. (gate = Choice) = FALSE BY <1>0
  <2>2. \A r \in Steps : \A x :
           [r EXCEPT !.loading = x] =
             [generating |-> r.generating, slot |-> r.slot, edits |-> r.edits, regenned |-> r.regenned,
              autoPending |-> r.autoPending, ready |-> r.ready, loading |-> x, submitting |-> r.submitting,
              selected |-> r.selected, typed |-> r.typed, toggled |-> r.toggled]
    BY DEF Steps
  <2>3. \A r \in Steps :
           r = [generating |-> r.generating, slot |-> r.slot, edits |-> r.edits, regenned |-> r.regenned,
                autoPending |-> r.autoPending, ready |-> r.ready, loading |-> r.loading,
                submitting |-> r.submitting, selected |-> r.selected, typed |-> r.typed, toggled |-> r.toggled]
    BY DEF Steps
  <2>4. Fresh \in Steps /\ Fresh.loading = FALSE BY FreshStep DEF Fresh
  <2>5. \A r \in Steps : [r EXCEPT !.loading = r.loading] = r BY <2>2, <2>3
  <2>6. [Fresh EXCEPT !.loading = Fresh.loading] = Fresh BY <2>4, <2>5
  <2>7. f = [Fresh EXCEPT !.loading = FALSE] BY <2>1
  <2>. QED BY <2>4, <2>6, <2>7
<1>. HIDE DEF f
<1>3. /\ u \in Steps /\ Beside(u, f) /\ Renders(u, f, ClipsAsk(f, clips, gate))
      /\ gate = Metadata => u.typed = {}
      /\ gate \in {Metadata, Choice} /\ clips # <<>> => u.edits \in [Clips -> Nat]
      /\ gate = Choice => u.typed \subseteq f.typed /\ (u.toggled => f.toggled)
  BY <1>1, ClipsEffect
<1>4. a \in Seq(Requests) /\ Range(a) \subseteq {Preview} /\ (gate # Metadata => a = <<>> /\ u.ready)
  <2>1. gate # Metadata => ClipsAsk(f, clips, gate) = <<>> /\ a = <<>> BY DEF ClipsAsk
  <2>2. a \in Seq(Requests) /\ Range(a) \subseteq {Preview} BY FreshStep, ClipsEffect DEF Renders
  <2>. QED BY <1>0, <1>1, <1>3, <2>1, <2>2 DEF Renders
<1>5. w \in Steps BY FreshStep, ClipsEffect
<1>6. d \in Seq(Requests) /\ Range(d) \subseteq {Load, Preview} BY <1>5, DoneEffect DEF Renders
<1>7. CASE gate = Confirm
  <2>1. MountAsks(gate, end) = <<>> /\ Mounted(gate, end) = u BY <1>0, <1>7 DEF MountAsks, Mounted, f
  <2>2. u = f BY <1>1, <1>7, ClipsEffect DEF Metadata, Choice, Confirm
  <2>3. gate # Choice BY <1>7 DEF Choice, Confirm
  <2>. HIDE DEF u
  <2>. QED BY <1>0, <1>1, <1>7, <2>1, <2>2, <2>3 DEF Mounts
<1>8. CASE gate # Confirm /\ ~(gate = Metadata /\ metadataProgress = "done")
  <2>1. Mounted(gate, end) = u BY <1>8 DEF Mounted, f
  <2>2. MountAsks(gate, end) = a \o <<Load>> \o <<>> BY <1>8 DEF MountAsks
  <2>. HIDE DEF a, u
  <2>3. a \o <<Load>> \in Seq(Requests) /\ Range(a \o <<Load>>) = Range(a) \cup {Load}
    <3>. DEFINE s == <<Load>>
    <3>1. s \in Seq(Requests) /\ Range(s) = {Load} BY <1>0
    <3>. HIDE DEF s
    <3>2. a \o s \in Seq(Requests) /\ Range(a \o s) = Range(a) \cup Range(s) BY <1>4, <3>1, RangeConcat
    <3>. QED BY <3>1, <3>2 DEF s
  <2>4. a \o <<Load>> \o <<>> = a \o <<Load>>
    <3>. DEFINE s == a \o <<Load>>
    <3>. HIDE DEF s
    <3>1. s \in Seq(Requests) BY <2>3 DEF s
    <3>2. s \o <<>> = s BY <3>1
    <3>. QED BY <3>2 DEF s
  <2>5. u.ready \/ Preview \in Range(a)
    BY <1>1, <1>2, <1>3, <1>4 DEF Renders, a
  <2>6. Beside(u, f) /\ u \in Steps BY <1>3
  <2>. QED BY <1>1, <1>3, <1>4, <1>8, <2>1, <2>2, <2>3, <2>4, <2>5, <2>6 DEF Mounts, Beside
<1>9. CASE gate = Metadata /\ metadataProgress = "done"
  <2>1. gate # Confirm /\ u = w /\ gate # Choice BY <1>0, <1>2, <1>9
  <2>2. Mounted(gate, end) = OnDone(w, clips) BY <1>9, <2>1 DEF Mounted, f
  <2>3. MountAsks(gate, end) = a \o <<Load>> \o d BY <1>9, <2>1 DEF MountAsks
  <2>4. /\ OnDone(w, clips) \in Steps /\ Beside(OnDone(w, clips), w) /\ OnDone(w, clips).edits = w.edits
        /\ OnDone(w, clips).ready = w.ready \/ Preview \in Range(d)
    BY <1>5, DoneEffect DEF Renders
  <2>5. w.ready \/ Preview \in Range(a) BY FreshStep, ClipsEffect DEF Renders
  <2>6. Beside(w, f) /\ (clips # <<>> => w.edits \in [Clips -> Nat]) BY <1>3, <1>9, <2>1
  <2>. HIDE DEF a, d, w
  <2>7. a \o <<Load>> \o d \in Seq(Requests) /\ Range(a \o <<Load>> \o d) = Range(a) \cup {Load} \cup Range(d)
    <3>. DEFINE s == <<Load>>
    <3>1. s \in Seq(Requests) /\ Range(s) = {Load} BY <1>0
    <3>. HIDE DEF s
    <3>2. a \o s \in Seq(Requests) /\ Range(a \o s) = Range(a) \cup Range(s) BY <1>4, <3>1, RangeConcat
    <3>. DEFINE t == a \o s
    <3>. HIDE DEF t
    <3>3. t \in Seq(Requests) /\ Range(t) = Range(a) \cup {Load} BY <3>1, <3>2 DEF t
    <3>4. t \o d \in Seq(Requests) /\ Range(t \o d) = Range(t) \cup Range(d) BY <1>6, <3>3, RangeConcat
    <3>. QED BY <3>3, <3>4 DEF s, t
  <2>. QED BY <1>1, <1>4, <1>6, <2>1, <2>2, <2>3, <2>4, <2>5, <2>6, <2>7 DEF Mounts, Beside
<1>. QED BY <1>7, <1>8, <1>9

LEMMA ShowEffect ==
  ASSUME ui \in Steps, clips \in ClipLists, RecordedOK, NEW reqs \in Seq(Requests),
         NEW gate, NEW end, Show(gate, end, reqs)
  PROVE  /\ ui' \in Steps /\ pending' \in Seq(Requests)
         /\ top' = end /\ shown' = gate
         /\ gate = shown => ui' = ui /\ Asks' = Range(reqs)
         /\ gate # shown =>
              /\ Asks' \subseteq LeftOf(Range(reqs)) \cup {Load, Preview} /\ LeftOf(Range(reqs)) \subseteq Asks'
              /\ gate # Confirm => Load \in Asks'
              /\ ~ui'.generating /\ ~ui'.submitting /\ (ui'.loading = (gate = Choice)) /\ ui'.slot = 0
              /\ gate = Choice => ui'.typed = {} /\ ~ui'.toggled
              /\ gate \in {Metadata, Choice} /\ clips # <<>> => ui'.edits \in [Clips -> Nat]
              /\ ui'.ready \/ Preview \in Asks'
<1>1. CASE gate = shown BY <1>1 DEF Show, Asks
<1>2. CASE gate # shown
  <2>. DEFINE v == Mounted(gate, end)
              a == Disowned(reqs)
              m == MountAsks(gate, end)
  <2>1. ui' = v /\ pending' = a \o m /\ top' = end /\ shown' = gate BY <1>2 DEF Show
  <2>2. Mounts(v, gate, m) BY MountEffect
  <2>3. a \in Seq(Requests) /\ Range(a) = LeftOf(Range(reqs)) BY AllLeft
  <2>. HIDE DEF v, a, m
  <2>4. a \o m \in Seq(Requests) /\ Range(a \o m) = Range(a) \cup Range(m)
    BY <2>2, <2>3, RangeConcat DEF Mounts
  <2>5. pending' \in Seq(Requests) /\ Asks' = LeftOf(Range(reqs)) \cup Range(m)
    BY <2>1, <2>3, <2>4 DEF Asks
  <2>. QED BY <1>2, <2>1, <2>2, <2>5 DEF Mounts
<1>. QED BY <1>1, <1>2

LEMMA SetClipsEffect ==
  ASSUME NEW u \in Steps, NEW list \in ClipLists, RecordedOK, NEW reqs \in Seq(Requests),
         SetClips(list, u, reqs)
  PROVE  /\ clips' = list /\ ui' = OnClips(u, list, shown, top) /\ ui' \in Steps /\ Beside(ui', u)
         /\ pending' \in Seq(Requests) /\ Asks' \subseteq Range(reqs) \cup {Preview}
         /\ Range(reqs) \subseteq Asks'
         /\ ui'.ready = u.ready \/ Preview \in Asks'
<1>. DEFINE a == ClipsAsk(u, list, shown)
            v == OnClips(u, list, shown, top)
<1>1. clips' = list /\ ui' = v /\ pending' = reqs \o a BY DEF SetClips
<1>2. /\ v \in Steps /\ Beside(v, u) /\ Range(a) \subseteq {Preview} /\ a \in Seq(Requests)
      /\ v.ready = u.ready \/ Preview \in Range(a)
  BY ClipsEffect DEF Renders
<1>. HIDE DEF a, v
<1>3. reqs \o a \in Seq(Requests) /\ Range(reqs \o a) = Range(reqs) \cup Range(a) BY <1>2, RangeConcat
<1>4. pending' \in Seq(Requests) /\ Asks' = Range(reqs) \cup Range(a) BY <1>1, <1>3 DEF Asks
<1>. QED BY <1>1, <1>2, <1>4 DEF v
-----------------------------------------------------------------------------
(* The types, in three parts: the server's, the page's and the rest.       *)

Opened(seq) == \A i \in DOMAIN seq : seq[i].kind = "thumbnails" /\ seq[i].open => seq[i].at < NumClips

ServerOK ==
  /\ state \in 0 .. Confirm /\ rows \in [Clips -> Row]
  /\ gens \in Seq(Generators) /\ events \in Seq(Events) /\ Opened(gens)

EditsThere == shown \in {Metadata, Choice} /\ clips # <<>> => ui.edits \in [Clips -> Nat]
ReadyComes == ui.ready \/ \E r \in Asks : OwnPreview(r)

PageOK ==
  /\ top \in 0 .. Confirm /\ shown \in 0 .. top /\ clips \in ClipLists
  /\ thumbnailProgress \in {"none", "generating", "done", "error", "batch_done"}
  /\ metadataProgress \in {"none", "generating", "done", "error"}
  /\ RecordedOK /\ ui \in Steps /\ pending \in Seq(Requests) /\ EditsThere /\ ReadyComes

RestOK == live \in BOOLEAN /\ calm \in BOOLEAN /\ count \in [acts : Nat, texts : Nat]

LEMMA TypesSplit == TypeOK => ServerOK /\ PageOK /\ RestOK
<1>. SUFFICES ASSUME TypeOK PROVE ServerOK /\ PageOK /\ RestOK OBVIOUS
<1>1. ServerOK BY DEF TypeOK, ServerOK, Opened
<1>2. ReadyComes BY DEF TypeOK, ReadyComes, Asks, OwnPreview, Range
<1>3. PageOK BY <1>2 DEF TypeOK, PageOK, EditsThere, RecordedOK, ClipLists
<1>4. RestOK BY DEF TypeOK, RestOK
<1>. QED BY <1>1, <1>3, <1>4

LEMMA TypesMade == ASSUME ServerOK', PageOK', RestOK' PROVE TypeOK'
<1>1. ui.ready' \/ \E i \in DOMAIN pending' : pending'[i].kind = "preview" /\ pending'[i].mine
  BY DEF PageOK, ReadyComes, Asks, OwnPreview, Range
<1>. QED BY <1>1 DEF TypeOK, ServerOK, PageOK, RestOK, Opened, EditsThere, RecordedOK, ClipLists

LEMMA SameServer ==
  ASSUME ServerOK, UNCHANGED <<server, events>>
  PROVE  ServerOK' /\ Runs' = Runs
BY DEF ServerOK, Opened, server, Runs

LEMMA SameRest ==
  ASSUME RestOK, live' = live, calm' \in BOOLEAN, UNCHANGED count
  PROVE  RestOK'
BY DEF RestOK

LEMMA CountedRest ==
  ASSUME RestOK, live' = live, calm' \in BOOLEAN,
         Act \/ count' = [count EXCEPT !.acts = @ + 1, !.texts = @ + 1] \/ count' = [count EXCEPT !.texts = @ + 1]
  PROVE  RestOK'
<1>1. CASE Act BY <1>1 DEF RestOK, Act
<1>2. CASE count' = [count EXCEPT !.acts = @ + 1, !.texts = @ + 1]
  <2>1. count \in [acts : Nat, texts : Nat] /\ count.acts + 1 \in Nat /\ count.texts + 1 \in Nat
    BY DEF RestOK
  <2>2. \A x, y \in Nat : [count EXCEPT !.acts = x, !.texts = y] \in [acts : Nat, texts : Nat] BY <2>1
  <2>3. [count EXCEPT !.acts = count.acts + 1, !.texts = count.texts + 1] \in [acts : Nat, texts : Nat]
    BY <2>1, <2>2
  <2>4. count' = [count EXCEPT !.acts = count.acts + 1, !.texts = count.texts + 1] BY <1>2
  <2>. QED BY <2>3, <2>4 DEF RestOK
<1>3. CASE count' = [count EXCEPT !.texts = @ + 1] BY <1>3 DEF RestOK
<1>. QED BY <1>1, <1>2, <1>3
-----------------------------------------------------------------------------
(* The events.                                                             *)

StateEvent(gate)       == [type |-> "state", to |-> gate]
ThumbEvent(status, c)  == [type |-> "thumbnail", status |-> status, clip |-> c]
MetaEvent(status)      == [type |-> "metadata", status |-> status]

Published(e) == events' = IF live THEN Append(events, e) ELSE events

LEMMA EventsMade ==
  /\ \A gate \in Thumbnails .. Confirm : StateEvent(gate) \in Events
  /\ \A status \in {"generating", "done", "error"}, c \in Clips : ThumbEvent(status, c) \in Events
  /\ ThumbEvent("batch_done", 0) \in Events
  /\ \A status \in {"generating", "done", "error"} : MetaEvent(status) \in Events
BY DEF Events, StateEvent, ThumbEvent, MetaEvent

(* The type, and by it the rest of an event.                               *)
EventForm(e) ==
  \/ e.type = "state" /\ e.to \in Thumbnails .. Confirm
  \/ e.type = "thumbnail" /\ e.status \in {"generating", "done", "error"} /\ e.clip \in Clips
  \/ e.type = "thumbnail" /\ e.status = "batch_done"
  \/ e.type = "metadata" /\ e.status \in {"generating", "done", "error"}

LEMMA EventFormed == ASSUME NEW e \in Events PROVE EventForm(e)
BY DEF Events, EventForm

LEMMA PublishedEffect ==
  ASSUME events \in Seq(Events), NEW e \in Events, Published(e)
  PROVE  /\ events' \in Seq(Events)
         /\ ~live => events' = events
         /\ live => /\ Range(events') = Range(events) \cup {e}
                    /\ Len(events) \in Nat /\ DOMAIN events = 1 .. Len(events)
                    /\ DOMAIN events' = 1 .. Len(events) + 1
                    /\ \A k \in DOMAIN events : k \in DOMAIN events' /\ events'[k] = events[k]
                    /\ events'[Len(events) + 1] = e
<1>1. CASE ~live BY <1>1 DEF Published
<1>2. CASE live
  <2>1. events' = Append(events, e) BY <1>2 DEF Published
  <2>2. Range(Append(events, e)) = Range(events) \cup {e} BY RangeAppend
  <2>. QED BY <1>2, <2>1, <2>2
<1>. QED BY <1>1, <1>2
-----------------------------------------------------------------------------
(* The generators.                                                         *)

Batch(at, open) == [kind |-> "thumbnails", at |-> at, open |-> open]
Writer(stage)   == [kind |-> "metadata", stage |-> stage]
Stages == {"started", "generating", "generated"}

RunsBut(i) == {gens[j] : j \in DOMAIN gens \ {i}}

LEMMA GeneratorsMade ==
  /\ \A at \in 0 .. NumClips, open \in BOOLEAN :
        Batch(at, open) \in Generators /\ Batch(at, open).kind = "thumbnails"
        /\ Batch(at, open).at = at /\ Batch(at, open).open = open
  /\ \A stage \in Stages : Writer(stage) \in Generators /\ Writer(stage).kind = "metadata"
                           /\ Writer(stage).stage = stage
BY DEF Generators, Batch, Writer, Stages

LEMMA GeneratorFormed ==
  ASSUME NEW g \in Generators
  PROVE  \/ g.kind = "thumbnails" /\ g.at \in 0 .. NumClips /\ g.open \in BOOLEAN /\ g = Batch(g.at, g.open)
         \/ g.kind = "metadata" /\ g.stage \in Stages /\ g = Writer(g.stage)
BY DEF Generators, Batch, Writer, Stages

LEMMA GensSplit ==
  ASSUME gens \in Seq(Generators), NEW i \in DOMAIN gens
  PROVE  gens[i] \in Generators /\ Runs = RunsBut(i) \cup {gens[i]} /\ RunsBut(i) \subseteq Generators
<1>1. Runs = RunsBut(i) \cup {gens[i]} BY RangeSplit DEF Runs, RunsBut
<1>2. Runs \subseteq Generators BY RangeIn DEF Runs
<1>. QED BY <1>1, <1>2

LEMMA GensAppended ==
  ASSUME gens \in Seq(Generators), Opened(gens), NEW g \in Generators,
         g.kind = "thumbnails" => ~g.open, gens' = Append(gens, g)
  PROVE  /\ gens' \in Seq(Generators) /\ Opened(gens') /\ Runs' = Runs \cup {g}
         /\ Len(gens) \in Nat /\ DOMAIN gens = 1 .. Len(gens) /\ DOMAIN gens' = 1 .. Len(gens) + 1
         /\ \A j \in DOMAIN gens : gens'[j] = gens[j]
         /\ gens'[Len(gens) + 1] = g
<1>1. Range(Append(gens, g)) = Range(gens) \cup {g} BY RangeAppend
<1>2. /\ gens' \in Seq(Generators)
      /\ Len(gens) \in Nat /\ DOMAIN gens = 1 .. Len(gens) /\ DOMAIN gens' = 1 .. Len(gens) + 1
      /\ \A j \in DOMAIN gens : gens'[j] = gens[j]
      /\ gens'[Len(gens) + 1] = g
  OBVIOUS
<1>3. Opened(gens')
  <2>. SUFFICES ASSUME NEW j \in DOMAIN gens', gens'[j].kind = "thumbnails", gens'[j].open
                PROVE  gens'[j].at < NumClips
    BY DEF Opened
  <2>1. j = Len(gens) + 1 \/ j \in DOMAIN gens BY <1>2
  <2>. QED BY <1>2, <2>1 DEF Opened
<1>. QED BY <1>1, <1>2, <1>3 DEF Runs

LEMMA GensReplaced ==
  ASSUME gens \in Seq(Generators), Opened(gens), NEW i \in DOMAIN gens, NEW g \in Generators,
         g.kind = "thumbnails" /\ g.open => g.at < NumClips, gens' = [gens EXCEPT ![i] = g]
  PROVE  /\ gens' \in Seq(Generators) /\ Opened(gens') /\ Runs' = RunsBut(i) \cup {g}
         /\ DOMAIN gens' = DOMAIN gens /\ gens'[i] = g /\ \A j \in DOMAIN gens \ {i} : gens'[j] = gens[j]
<1>. DEFINE s == gens
            t == [s EXCEPT ![i] = g]
<1>1. s \in Seq(Generators) /\ i \in DOMAIN s OBVIOUS
<1>. HIDE DEF s
<1>2. t \in Seq(Generators) /\ Range(t) = {s[j] : j \in DOMAIN s \ {i}} \cup {g}
  BY <1>1, RangeReplaced
<1>3. DOMAIN t = DOMAIN s /\ t[i] = g /\ \A j \in DOMAIN s \ {i} : t[j] = s[j] BY <1>1
<1>4. gens' = t BY DEF s
<1>5. Opened(t) BY <1>3 DEF Opened, s
<1>. QED BY <1>2, <1>3, <1>4, <1>5 DEF Runs, RunsBut, s

LEMMA GensWithout ==
  ASSUME gens \in Seq(Generators), Opened(gens), NEW i \in DOMAIN gens, gens' = RemoveAt(gens, i)
  PROVE  /\ gens' \in Seq(Generators) /\ Opened(gens') /\ Runs' = RunsBut(i)
         /\ Len(gens) \in Nat /\ DOMAIN gens = 1 .. Len(gens) /\ DOMAIN gens' = 1 .. Len(gens) - 1
         /\ \A j \in DOMAIN gens' : j < i => j \in DOMAIN gens /\ gens'[j] = gens[j]
         /\ \A j \in DOMAIN gens' : j >= i => j + 1 \in DOMAIN gens /\ gens'[j] = gens[j + 1]
<1>1. gens' = SubSeq(gens, 1, i - 1) \o SubSeq(gens, i + 1, Len(gens)) BY DEF RemoveAt
<1>2. gens' \in Seq(Generators) /\ Runs' = RunsBut(i) BY <1>1, RangeWithout DEF Runs, RunsBut
<1>3. Len(gens) \in Nat /\ DOMAIN gens = 1 .. Len(gens) OBVIOUS
<1>4. /\ DOMAIN gens' = 1 .. Len(gens) - 1
      /\ \A j \in DOMAIN gens' : j < i => j \in DOMAIN gens /\ gens'[j] = gens[j]
      /\ \A j \in DOMAIN gens' : j >= i => j + 1 \in DOMAIN gens /\ gens'[j] = gens[j + 1]
  <2>. DEFINE s == gens
              t == SubSeq(s, 1, i - 1) \o SubSeq(s, i + 1, Len(s))
  <2>1. s \in Seq(Generators) /\ i \in DOMAIN s /\ gens' = t BY <1>1
  <2>. HIDE DEF s
  <2>2. /\ t \in Seq(Generators) /\ Len(t) = Len(s) - 1 /\ DOMAIN t = 1 .. Len(s) - 1
        /\ \A j \in DOMAIN t : j < i => j \in DOMAIN s /\ t[j] = s[j]
        /\ \A j \in DOMAIN t : j >= i => j + 1 \in DOMAIN s /\ t[j] = s[j + 1]
    BY <2>1, PlacesWithout
  <2>. HIDE DEF t
  <2>. QED BY <2>1, <2>2 DEF s
<1>5. Opened(gens') BY <1>3, <1>4 DEF Opened
<1>. QED BY <1>2, <1>3, <1>4, <1>5
-----------------------------------------------------------------------------
(* What the steps of the generators do.                                    *)

Behind == <<state, live, store, ui, pending>>

LEMMA PathWritten ==
  ASSUME rows \in [Clips -> Row], NEW c \in Clips, rows' = [rows EXCEPT ![c].path = TRUE]
  PROVE  /\ rows' \in [Clips -> Row]
         /\ \A d \in Clips : rows'[d].text = rows[d].text /\ rows'[d].sel = rows[d].sel
                             /\ (rows'[d].path = (rows[d].path \/ d = c))
BY DEF Row

LEMMA ThumbnailStepCases ==
  ASSUME ServerOK, NEW i \in DOMAIN gens, ThumbnailStep(i)
  PROVE  LET g == gens[i] IN
         /\ g \in Runs /\ g.kind = "thumbnails" /\ g.at \in 0 .. NumClips /\ g.open \in BOOLEAN
         /\ UNCHANGED Behind /\ UNCHANGED <<count, calm>>
         /\ rows' \in [Clips -> Row] /\ gens' \in Seq(Generators) /\ Opened(gens')
         /\ g.open \/ g.at < NumClips => g.at + 1 \in Clips
         /\ \/ /\ ~g.open /\ g.at < NumClips
               /\ rows' = rows /\ Published(ThumbEvent("generating", g.at + 1))
               /\ gens' = [gens EXCEPT ![i] = Batch(g.at, TRUE)] /\ Runs' = RunsBut(i) \cup {Batch(g.at, TRUE)}
            \/ /\ g.open /\ rows' = rows /\ Published(ThumbEvent("error", g.at + 1))
               /\ gens' = [gens EXCEPT ![i] = Batch(g.at + 1, FALSE)]
               /\ Runs' = RunsBut(i) \cup {Batch(g.at + 1, FALSE)}
            \/ /\ g.open /\ rows' = [rows EXCEPT ![g.at + 1].path = TRUE]
               /\ Published(ThumbEvent("done", g.at + 1))
               /\ gens' = [gens EXCEPT ![i] = Batch(g.at + 1, FALSE)]
               /\ Runs' = RunsBut(i) \cup {Batch(g.at + 1, FALSE)}
            \/ /\ ~g.open /\ g.at = NumClips /\ rows' = rows /\ Published(ThumbEvent("batch_done", 0))
               /\ gens' = RemoveAt(gens, i) /\ Runs' = RunsBut(i)
<1>. DEFINE g == gens[i]
<1>1. /\ gens \in Seq(Generators) /\ Opened(gens) /\ rows \in [Clips -> Row]
      /\ g.kind = "thumbnails" /\ UNCHANGED Behind /\ UNCHANGED <<count, calm>>
  BY DEF ServerOK, ThumbnailStep, Behind
<1>2. g \in Generators /\ g \in Runs BY <1>1, GensSplit
<1>3. g.at \in 0 .. NumClips /\ g.open \in BOOLEAN /\ g = Batch(g.at, g.open) BY <1>1, <1>2, GeneratorFormed
<1>4. (g.open => g.at < NumClips) /\ (g.open \/ g.at < NumClips => g.at + 1 \in Clips)
      /\ NumClips \in Nat
  BY <1>1, <1>3, ReviewConstants DEF Opened, Clips
<1>5. CASE /\ ~g.open /\ g.at < NumClips /\ rows' = rows /\ Published(ThumbEvent("generating", g.at + 1))
           /\ gens' = [gens EXCEPT ![i].open = TRUE]
  <2>1. gens' = [gens EXCEPT ![i] = Batch(g.at, TRUE)]
    <3>. DEFINE h == [g EXCEPT !.open = TRUE]
    <3>1. \A x : [g EXCEPT !.open = x] = [kind |-> g.kind, at |-> g.at, open |-> x] BY <1>3 DEF Batch
    <3>2. h = Batch(g.at, TRUE) BY <1>1, <3>1 DEF Batch
    <3>3. gens' = [gens EXCEPT ![i] = h] BY <1>5
    <3>. QED BY <3>2, <3>3
  <2>2. Batch(g.at, TRUE) \in Generators /\ Batch(g.at, TRUE).at = g.at BY <1>3, GeneratorsMade
  <2>3. gens' \in Seq(Generators) /\ Opened(gens') /\ Runs' = RunsBut(i) \cup {Batch(g.at, TRUE)}
    BY <1>1, <1>5, <2>1, <2>2, GensReplaced
  <2>. QED BY <1>1, <1>2, <1>3, <1>4, <1>5, <2>1, <2>3
<1>6. CASE /\ g.open /\ gens' = [gens EXCEPT ![i].open = FALSE, ![i].at = @ + 1]
           /\ \/ rows' = rows /\ Published(ThumbEvent("error", g.at + 1))
              \/ rows' = [rows EXCEPT ![g.at + 1].path = TRUE] /\ Published(ThumbEvent("done", g.at + 1))
  <2>0. g.at + 1 \in 0 .. NumClips /\ g.at + 1 \in Clips BY <1>3, <1>4, <1>6
  <2>1. gens' = [gens EXCEPT ![i] = Batch(g.at + 1, FALSE)]
    <3>. DEFINE h == [[g EXCEPT !.open = FALSE] EXCEPT !.at = @ + 1]
    <3>1. \A x : [g EXCEPT !.open = x] = [kind |-> g.kind, at |-> g.at, open |-> x] BY <1>3 DEF Batch
    <3>2. [g EXCEPT !.open = FALSE] = Batch(g.at, FALSE) BY <1>1, <3>1 DEF Batch
    <3>3. h = [Batch(g.at, FALSE) EXCEPT !.at = @ + 1] BY <3>2
    <3>4. Batch(g.at, FALSE).at = g.at BY DEF Batch
    <3>5. \A b : b \in Generators /\ b.kind = "thumbnails" =>
             \A x : [b EXCEPT !.at = x] = [kind |-> b.kind, at |-> x, open |-> b.open]
      BY DEF Generators
    <3>6. h = Batch(g.at + 1, FALSE)
      <4>. DEFINE b == Batch(g.at, FALSE)
      <4>1. b \in Generators /\ b.kind = "thumbnails" /\ b.open = FALSE /\ b.at = g.at
        BY <1>3, GeneratorsMade
      <4>. HIDE DEF b
      <4>2. [b EXCEPT !.at = g.at + 1] = [kind |-> b.kind, at |-> g.at + 1, open |-> b.open] BY <3>5, <4>1
      <4>3. h = [b EXCEPT !.at = g.at + 1] BY <3>3, <3>4 DEF b
      <4>. QED BY <4>1, <4>2, <4>3 DEF Batch
    <3>7. gens' = [gens EXCEPT ![i] = h] BY <1>6
    <3>. QED BY <3>6, <3>7
  <2>2. /\ Batch(g.at + 1, FALSE) \in Generators /\ Batch(g.at + 1, FALSE).open = FALSE
    BY <2>0, GeneratorsMade
  <2>3. gens' \in Seq(Generators) /\ Opened(gens') /\ Runs' = RunsBut(i) \cup {Batch(g.at + 1, FALSE)}
    BY <1>1, <2>1, <2>2, GensReplaced
  <2>4. rows' \in [Clips -> Row] BY <1>1, <1>6, <2>0, PathWritten
  <2>. QED BY <1>1, <1>2, <1>3, <1>4, <1>6, <2>1, <2>3, <2>4
<1>7. CASE /\ ~g.open /\ g.at = NumClips /\ rows' = rows /\ Published(ThumbEvent("batch_done", 0))
           /\ gens' = RemoveAt(gens, i)
  <2>1. gens' \in Seq(Generators) /\ Opened(gens') /\ Runs' = RunsBut(i) BY <1>1, <1>7, GensWithout
  <2>. QED BY <1>1, <1>2, <1>3, <1>4, <1>7, <2>1
<1>. QED BY <1>5, <1>6, <1>7 DEF ThumbnailStep, Published, ThumbEvent

LEMMA TextsWritten ==
  ASSUME rows \in [Clips -> Row], RestOK, NEW n \in 0 .. NumClips,
         rows' = [c \in Clips |-> IF c <= n THEN [rows[c] EXCEPT !.text = NewText] ELSE rows[c]]
  PROVE  /\ rows' \in [Clips -> Row] /\ NewText \in Nat \ {0}
         /\ \A c \in Clips : /\ rows'[c].text = IF c <= n THEN NewText ELSE rows[c].text
                             /\ rows'[c].path = rows[c].path /\ rows'[c].sel = rows[c].sel
<1>1. NewText \in Nat \ {0} BY DEF NewText, RestOK
<1>2. \A c \in Clips : /\ [rows[c] EXCEPT !.text = NewText] \in Row
                       /\ [rows[c] EXCEPT !.text = NewText].text = NewText
                       /\ [rows[c] EXCEPT !.text = NewText].path = rows[c].path
                       /\ [rows[c] EXCEPT !.text = NewText].sel = rows[c].sel
  BY <1>1 DEF Row
<1>. QED BY <1>1, <1>2

LEMMA MetadataStepCases ==
  ASSUME ServerOK, RestOK, NEW i \in DOMAIN gens, MetadataStep(i)
  PROVE  LET g == gens[i] IN
         /\ g \in Runs /\ g.kind = "metadata" /\ g.stage \in Stages
         /\ UNCHANGED Behind /\ rows' \in [Clips -> Row] /\ gens' \in Seq(Generators) /\ Opened(gens')
         /\ calm' \in BOOLEAN
         /\ \/ /\ g.stage = "started" /\ Published(MetaEvent("generating"))
               /\ gens' = [gens EXCEPT ![i] = Writer("generating")] /\ Runs' = RunsBut(i) \cup {Writer("generating")}
               /\ calm' = (calm /\ \A j \in DOMAIN gens \ {i} : gens[j].kind # "metadata")
               /\ UNCHANGED <<rows, count>>
            \/ /\ g.stage = "generating" /\ Published(MetaEvent("error"))
               /\ gens' = RemoveAt(gens, i) /\ Runs' = RunsBut(i)
               /\ UNCHANGED <<rows, count, calm>>
            \/ /\ g.stage = "generating" /\ UNCHANGED events
               /\ \E n \in 0 .. NumClips :
                     /\ rows' = [c \in Clips |-> IF c <= n THEN [rows[c] EXCEPT !.text = NewText] ELSE rows[c]]
                     /\ calm' = (calm /\ state = Metadata /\ n > 0 /\ ~Singled)
               /\ count' = [count EXCEPT !.texts = @ + 1]
               /\ gens' = [gens EXCEPT ![i] = Writer("generated")] /\ Runs' = RunsBut(i) \cup {Writer("generated")}
            \/ /\ g.stage = "generated" /\ Published(MetaEvent("done"))
               /\ gens' = RemoveAt(gens, i) /\ Runs' = RunsBut(i)
               /\ UNCHANGED <<rows, count, calm>>
<1>. DEFINE g == gens[i]
<1>1. /\ gens \in Seq(Generators) /\ Opened(gens) /\ rows \in [Clips -> Row] /\ calm \in BOOLEAN
      /\ g.kind = "metadata" /\ UNCHANGED Behind
  BY DEF ServerOK, RestOK, MetadataStep, Behind, store
<1>2. g \in Generators /\ g \in Runs BY <1>1, GensSplit
<1>3. g.stage \in Stages /\ g = Writer(g.stage) BY <1>1, <1>2, GeneratorFormed
<1>4. \A x : [g EXCEPT !.stage = x] = Writer(x) BY <1>3 DEF Writer
<1>5. ASSUME NEW stage \in Stages, gens' = [gens EXCEPT ![i] = Writer(stage)]
      PROVE  gens' \in Seq(Generators) /\ Opened(gens') /\ Runs' = RunsBut(i) \cup {Writer(stage)}
  <2>1. Writer(stage) \in Generators /\ Writer(stage).kind # "thumbnails" BY GeneratorsMade
  <2>. QED BY <1>1, <1>5, <2>1, GensReplaced
<1>6. gens' = RemoveAt(gens, i) => gens' \in Seq(Generators) /\ Opened(gens') /\ Runs' = RunsBut(i)
  BY <1>1, GensWithout
<1>7. CASE /\ g.stage = "started" /\ Published(MetaEvent("generating")) /\ gens' = [gens EXCEPT ![i].stage = "generating"]
           /\ calm' = (calm /\ \A j \in DOMAIN gens \ {i} : gens[j].kind # "metadata") /\ UNCHANGED <<rows, count>>
  <2>1. gens' = [gens EXCEPT ![i] = Writer("generating")] BY <1>4, <1>7
  <2>. QED BY <1>1, <1>2, <1>3, <1>5, <1>7, <2>1 DEF Stages
<1>8. CASE /\ g.stage = "generating" /\ Published(MetaEvent("error")) /\ gens' = RemoveAt(gens, i)
           /\ UNCHANGED <<rows, count, calm>>
  BY <1>1, <1>2, <1>3, <1>6, <1>8
<1>9. CASE /\ g.stage = "generating" /\ UNCHANGED events /\ gens' = [gens EXCEPT ![i].stage = "generated"]
           /\ \E n \in 0 .. NumClips :
                 /\ rows' = [c \in Clips |-> IF c <= n THEN [rows[c] EXCEPT !.text = NewText] ELSE rows[c]]
                 /\ calm' = (calm /\ state = Metadata /\ n > 0 /\ ~Singled)
           /\ count' = [count EXCEPT !.texts = @ + 1]
  <2>1. gens' = [gens EXCEPT ![i] = Writer("generated")] BY <1>4, <1>9
  <2>2. rows' \in [Clips -> Row] /\ calm' \in BOOLEAN BY <1>1, <1>9, TextsWritten
  <2>. QED BY <1>1, <1>2, <1>3, <1>5, <1>9, <2>1, <2>2 DEF Stages
<1>10. CASE /\ g.stage = "generated" /\ Published(MetaEvent("done")) /\ gens' = RemoveAt(gens, i)
            /\ UNCHANGED <<rows, count, calm>>
  BY <1>1, <1>2, <1>3, <1>6, <1>10
<1>. QED BY <1>7, <1>8, <1>9, <1>10 DEF MetadataStep, Published, MetaEvent
-----------------------------------------------------------------------------
(* What the acts of the user do that stay at the step: at most a request,  *)
(* and at most a text, or another choice.                                  *)

UserAct ==
  \/ GenerateAll \/ Continue \/ RegenerateAll \/ SubmitMetadata \/ SelectBatch \/ SubmitChoice
  \/ \E c \in Clips : \/ RegenerateThumbnail(c) \/ UpdateEdit(c) \/ RegenerateMetadata(c)
                      \/ SelectToggle(c) \/ ChangeText(c)

ActFrame == UNCHANGED <<server, events, live, top, shown, clips, thumbnailProgress, metadataProgress, calm>>

NewRequest(r) ==
  /\ r.kind \in Kinds \ {"load", "preview"} /\ r.reply = Null /\ ~r.busy /\ r.mine
  /\ r.kind = "choice" => Chooser /\ r.body.edits = ui.edits /\ r.clip = 0
  /\ r.kind = "single" => shown = Metadata

SameTexts  == ui'.edits = ui.edits /\ ui'.typed = ui.typed
SameChoice == ui'.selected = ui.selected /\ ui'.toggled = ui.toggled

TypedText ==
  /\ shown = Metadata \/ Chooser
  /\ clips # <<>> /\ ui.edits \in [Clips -> Nat]
  /\ \E c \in Clips, text \in Nat \ {0} :
        ui'.edits = [ui.edits EXCEPT ![c] = text] /\ ui'.typed = ui.typed \cup {c}

ActEffect ==
  /\ ActFrame /\ RecordedOK' /\ count' \in [acts : Nat, texts : Nat]
  /\ ui' \in Steps /\ ui'.ready = ui.ready /\ ui'.loading = ui.loading
  /\ pending' \in Seq(Requests) /\ Asks \subseteq Asks'
  /\ \A r \in Asks' \ Asks : NewRequest(r)
  /\ ui'.generating = ui.generating \/ \E r \in Asks' : r.kind = "generate" /\ r.mine
  /\ SameTexts \/ TypedText
  /\ SameChoice \/ (Chooser /\ SameTexts /\ ui'.toggled = TRUE /\ ui'.selected \subseteq Clips)

LEMMA NothingAsked ==
  ASSUME PageOK, UNCHANGED pending
  PROVE  pending' \in Seq(Requests) /\ Asks' = Asks
BY DEF PageOK, Asks

LEMMA OneAsked ==
  ASSUME PageOK, NEW r \in Requests, NewRequest(r), Ask(r)
  PROVE  /\ pending' \in Seq(Requests) /\ Asks \subseteq Asks' /\ r \in Asks'
         /\ \A q \in Asks' \ Asks : NewRequest(q)
<1>1. pending' \in Seq(Requests) /\ Asks' = Asks \cup {r} BY AskedAlso DEF PageOK
<1>. QED BY <1>1

LEMMA Acted == ASSUME RestOK, Act PROVE count' \in [acts : Nat, texts : Nat]
BY DEF RestOK, Act

LEMMA Texted ==
  ASSUME RestOK, count' = [count EXCEPT !.acts = @ + 1, !.texts = @ + 1]
  PROVE  count' \in [acts : Nat, texts : Nat] /\ NewText \in Nat \ {0}
<1>1. count \in [acts : Nat, texts : Nat] /\ count.acts + 1 \in Nat /\ count.texts + 1 \in Nat \ {0}
  BY DEF RestOK
<1>2. \A x, y \in Nat : [count EXCEPT !.acts = x, !.texts = y] \in [acts : Nat, texts : Nat] BY <1>1
<1>3. [count EXCEPT !.acts = count.acts + 1, !.texts = count.texts + 1] \in [acts : Nat, texts : Nat]
  BY <1>1, <1>2
<1>4. count' = [count EXCEPT !.acts = count.acts + 1, !.texts = count.texts + 1] OBVIOUS
<1>. QED BY <1>1, <1>3, <1>4 DEF NewText

LEMMA AskingActs ==
  ASSUME PageOK, RestOK, GenerateAll \/ Continue \/ RegenerateAll
  PROVE  ActEffect
<1>1. PICK kind \in {"generate", "advance", "regenerate"} :
         /\ Ask(Request(kind, 0, Null)) /\ Act /\ ActFrame /\ UNCHANGED recorded
         /\ \/ kind = "generate" /\ ui' = [ui EXCEPT !.generating = TRUE]
            \/ ui' = ui
  BY DEF GenerateAll, Continue, RegenerateAll, ActFrame, store
<1>. DEFINE r == Request(kind, 0, Null)
<1>2. /\ r \in Requests /\ r.kind = kind /\ r.reply = Null /\ ~r.busy /\ r.mine
  BY RequestMade DEF Kinds
<1>. HIDE DEF r
<1>3. NewRequest(r) BY <1>2 DEF NewRequest, Kinds
<1>4. pending' \in Seq(Requests) /\ Asks \subseteq Asks' /\ r \in Asks' /\ \A q \in Asks' \ Asks : NewRequest(q)
  BY <1>1, <1>2, <1>3, OneAsked DEF r
<1>5. ui \in Steps BY DEF PageOK
<1>6. /\ ui' \in Steps /\ ui'.ready = ui.ready /\ ui'.loading = ui.loading /\ SameTexts /\ SameChoice
      /\ ui'.generating = ui.generating \/ kind = "generate"
  BY <1>1, <1>5 DEF Steps, SameTexts, SameChoice
<1>7. RecordedOK' BY <1>1 DEF PageOK, RecordedOK
<1>. QED BY <1>1, <1>2, <1>4, <1>6, <1>7, Acted DEF ActEffect

LEMMA CardActs ==
  ASSUME PageOK, RestOK, NEW c \in Clips, RegenerateThumbnail(c) \/ RegenerateMetadata(c)
  PROVE  ActEffect
<1>1. PICK kind \in {"thumbnail", "single"} :
         /\ Ask(Request(kind, c, Null)) /\ Act /\ ActFrame /\ UNCHANGED recorded
         /\ ui' = [ui EXCEPT !.slot = c]
         /\ kind = "single" => shown = Metadata
  BY DEF RegenerateThumbnail, RegenerateMetadata, CanRegenerateMetadata, Editor, ActFrame, store
<1>. DEFINE r == Request(kind, c, Null)
<1>2. /\ r \in Requests /\ r.kind = kind /\ r.reply = Null /\ ~r.busy /\ r.mine
  BY RequestMade DEF Kinds
<1>. HIDE DEF r
<1>3. NewRequest(r) BY <1>1, <1>2 DEF NewRequest, Kinds
<1>4. pending' \in Seq(Requests) /\ Asks \subseteq Asks' /\ r \in Asks' /\ \A q \in Asks' \ Asks : NewRequest(q)
  BY <1>1, <1>2, <1>3, OneAsked DEF r
<1>5. ui \in Steps /\ c \in 0 .. NumClips BY DEF PageOK, Clips
<1>6. /\ ui' \in Steps /\ ui'.ready = ui.ready /\ ui'.loading = ui.loading /\ SameTexts /\ SameChoice
      /\ ui'.generating = ui.generating
  BY <1>1, <1>5 DEF Steps, SameTexts, SameChoice
<1>7. RecordedOK' BY <1>1 DEF PageOK, RecordedOK
<1>. QED BY <1>1, <1>4, <1>6, <1>7, Acted DEF ActEffect

LEMMA TypingActs ==
  ASSUME PageOK, RestOK, NEW c \in Clips, UpdateEdit(c) \/ ChangeText(c)
  PROVE  ActEffect
<1>1. /\ shown = Metadata \/ Chooser
      /\ clips # <<>>
      /\ count' = [count EXCEPT !.acts = @ + 1, !.texts = @ + 1]
      /\ ui' = [ui EXCEPT !.edits[c] = NewText, !.typed = @ \cup {c}]
      /\ ActFrame /\ UNCHANGED <<recorded, pending>>
  BY DEF UpdateEdit, ChangeText, CanEdit, Editor, CanChange, Chooser, ActFrame, store
<1>2. ui.edits \in [Clips -> Nat] BY <1>1 DEF PageOK, EditsThere, Chooser
<1>3. ui \in Steps /\ ui.typed \cup {c} \in SUBSET Clips BY DEF PageOK, Steps
<1>4. NewText \in Nat \ {0} /\ count' \in [acts : Nat, texts : Nat] BY <1>1, Texted
<1>. DEFINE e == [ui.edits EXCEPT ![c] = NewText]
            t == ui.typed \cup {c}
<1>5. e \in [Clips -> Nat] /\ t \in SUBSET Clips BY <1>2, <1>3, <1>4
<1>6. ui' = [ui EXCEPT !.edits = e, !.typed = t] BY <1>1
<1>. HIDE DEF e, t
<1>7. /\ ui' \in Steps /\ ui'.ready = ui.ready /\ ui'.loading = ui.loading /\ SameChoice
      /\ ui'.generating = ui.generating /\ ui'.edits = e /\ ui'.typed = t
  BY <1>3, <1>5, <1>6 DEF Steps, SameChoice
<1>8. TypedText BY <1>1, <1>2, <1>4, <1>7 DEF TypedText, e, t
<1>9. RecordedOK' BY <1>1 DEF PageOK, RecordedOK
<1>. QED BY <1>1, <1>4, <1>7, <1>8, <1>9, NothingAsked DEF ActEffect

LEMMA SelectingActs ==
  ASSUME PageOK, RestOK, SelectBatch \/ \E c \in Clips : SelectToggle(c)
  PROVE  ActEffect
<1>1. PICK S \in SUBSET Clips :
         /\ ui' = [ui EXCEPT !.selected = S, !.toggled = TRUE]
         /\ Chooser /\ Act /\ ActFrame /\ UNCHANGED <<recorded, pending>>
  <2>1. CASE SelectBatch
    <3>1. PICK all \in {DOMAIN clips, {}} : ui' = [ui EXCEPT !.selected = all, !.toggled = TRUE]
      BY <2>1 DEF SelectBatch
    <3>2. Chooser /\ Act /\ ActFrame /\ UNCHANGED <<recorded, pending>>
      BY <2>1 DEF SelectBatch, ActFrame, store
    <3>3. clips \in [Clips -> Row] BY <3>2 DEF PageOK, ClipLists, Chooser
    <3>4. all \in SUBSET Clips BY <3>1, <3>3
    <3>. QED BY <3>1, <3>2, <3>4
  <2>2. CASE \E c \in Clips : SelectToggle(c)
    <3>1. PICK c \in Clips : SelectToggle(c) BY <2>2
    <3>. DEFINE S == IF c \in ui.selected THEN ui.selected \ {c} ELSE ui.selected \cup {c}
    <3>2. S \in SUBSET Clips BY DEF PageOK, Steps
    <3>3. ui' = [ui EXCEPT !.selected = S, !.toggled = TRUE] BY <3>1 DEF SelectToggle
    <3>4. Chooser /\ Act /\ ActFrame /\ UNCHANGED <<recorded, pending>>
      BY <3>1 DEF SelectToggle, ActFrame, store
    <3>. QED BY <3>2, <3>3, <3>4
  <2>. QED BY <2>1, <2>2
<1>2. ui \in Steps BY DEF PageOK
<1>3. /\ ui' \in Steps /\ ui'.ready = ui.ready /\ ui'.loading = ui.loading /\ SameTexts
      /\ ui'.generating = ui.generating /\ ui'.toggled = TRUE /\ ui'.selected \subseteq Clips
  BY <1>1, <1>2 DEF Steps, SameTexts
<1>4. RecordedOK' BY <1>1 DEF PageOK, RecordedOK
<1>. QED BY <1>1, <1>3, <1>4, Acted, NothingAsked DEF ActEffect

LEMMA SubmittingActs ==
  ASSUME PageOK, RestOK, SubmitMetadata \/ SubmitChoice
  PROVE  ActEffect
<1>0. ui \in Steps /\ RecordedOK /\ clips \in ClipLists BY DEF PageOK
<1>1. CASE SubmitMetadata
  <2>. DEFINE r == Request("metadata", 0, ui.edits)
  <2>1. /\ shown = Metadata /\ clips # <<>> /\ Act /\ ui' = ui /\ ActFrame /\ Ask(r)
        /\ recorded' = [recorded EXCEPT !.meta = TRUE]
    BY <1>1 DEF SubmitMetadata, Editor, ActFrame
  <2>2. ui.edits \in [Clips -> Nat] BY <2>1 DEF PageOK, EditsThere
  <2>3. /\ r \in Requests /\ r.kind = "metadata" /\ r.reply = Null /\ ~r.busy /\ r.mine
    BY <2>2, RequestMade DEF Kinds
  <2>. HIDE DEF r
  <2>4. NewRequest(r) BY <2>3 DEF NewRequest, Kinds
  <2>5. pending' \in Seq(Requests) /\ Asks \subseteq Asks' /\ \A q \in Asks' \ Asks : NewRequest(q)
    BY <2>1, <2>3, <2>4, OneAsked
  <2>6. RecordedOK' BY <1>0, <2>1 DEF RecordedOK
  <2>. QED BY <1>0, <2>1, <2>5, <2>6, Acted DEF ActEffect, SameTexts, SameChoice
<1>2. CASE SubmitChoice
  <2>. DEFINE b == [selected |-> ui.selected, edits |-> ui.edits]
              r == Request("choice", 0, b)
  <2>1. /\ Chooser /\ Act /\ ui' = [ui EXCEPT !.submitting = TRUE] /\ ActFrame /\ Ask(r)
        /\ recorded' = [recorded EXCEPT !.choice = b]
    BY <1>2 DEF SubmitChoice, CanSubmitChoice, ActFrame
  <2>2. ui.edits \in [Clips -> Nat] /\ ui.selected \in SUBSET Clips
    BY <1>0, <2>1 DEF PageOK, EditsThere, Chooser, Steps
  <2>3. b \in Picks /\ b.edits = ui.edits BY <2>2 DEF Picks
  <2>. HIDE DEF b
  <2>4. /\ r \in Requests /\ r.kind = "choice" /\ r.reply = Null /\ ~r.busy /\ r.mine /\ r.body = b /\ r.clip = 0
    BY <2>3, RequestMade DEF Kinds
  <2>. HIDE DEF r
  <2>5. NewRequest(r) BY <2>1, <2>3, <2>4 DEF NewRequest, Kinds
  <2>6. pending' \in Seq(Requests) /\ Asks \subseteq Asks' /\ \A q \in Asks' \ Asks : NewRequest(q)
    BY <2>1, <2>4, <2>5, OneAsked
  <2>7. RecordedOK' BY <1>0, <2>1, <2>3 DEF RecordedOK
  <2>8. /\ ui' \in Steps /\ ui'.ready = ui.ready /\ ui'.loading = ui.loading /\ SameTexts /\ SameChoice
        /\ ui'.generating = ui.generating
    BY <1>0, <2>1 DEF Steps, SameTexts, SameChoice
  <2>. QED BY <2>1, <2>6, <2>7, <2>8, Acted DEF ActEffect
<1>. QED BY <1>1, <1>2

LEMMA UserActs == ASSUME PageOK, RestOK, UserAct PROVE ActEffect
BY AskingActs, CardActs, TypingActs, SelectingActs, SubmittingActs DEF UserAct

LEMMA UserActTypes == ASSUME ServerOK, PageOK, RestOK, UserAct PROVE TypeOK'
<1>1. ActEffect BY UserActs
<1>2. ServerOK' BY <1>1, SameServer DEF ActEffect, ActFrame
<1>3. EditsThere'
  <2>1. CASE SameTexts BY <1>1, <2>1 DEF SameTexts, ActEffect, ActFrame, PageOK, EditsThere
  <2>2. CASE TypedText BY <2>2 DEF TypedText, EditsThere
  <2>. QED BY <1>1, <2>1, <2>2 DEF ActEffect
<1>4. ReadyComes' BY <1>1 DEF PageOK, ReadyComes, ActEffect
<1>5. PageOK' BY <1>1, <1>3, <1>4 DEF PageOK, ActEffect, ActFrame
<1>6. RestOK' BY <1>1 DEF RestOK, ActEffect, ActFrame
<1>. QED BY <1>2, <1>5, <1>6, TypesMade
-----------------------------------------------------------------------------
(* What it does to take up a request, and to fail to.                      *)

Gone(i) == pending' \in Seq(Requests) /\ Asks' = RestOf(i)

AnswerTo(q, r, value) ==
  q \in Requests /\ SameRequest(q, r) /\ q.clip = r.clip /\ q.reply = value /\ q.busy = r.busy /\ q.mine = r.mine

RepliedWith(i, value) ==
  /\ pending' \in Seq(Requests)
  /\ \E q : Asks' = RestOf(i) \cup {q} /\ AnswerTo(q, pending[i], value)

StoreFrame == UNCHANGED <<live, top, shown, clips, thumbnailProgress, metadataProgress, recorded>>

(* A submission that has begun to write, and could still advance the run.  *)
HalfDone(r) ==
  /\ r.busy /\ r.clip # 0
  /\ (r.kind = "metadata" /\ state = Metadata) \/ (r.kind = "choice" /\ state = Choice)

(* Nothing comes of the request, or nothing more.                          *)
InVain(i) ==
  LET r == pending[i] IN
  /\ r.reply = Null /\ StoreFrame /\ UNCHANGED <<server, events>>
  /\ calm' \in BOOLEAN /\ (calm' => calm /\ r.kind # "load" /\ ~HalfDone(r))
  /\ count' \in [acts : Nat, texts : Nat]
  /\ \/ Gone(i) /\ r.kind \in {"generate", "regenerate", "metadata", "preview"}
     \/ RepliedWith(i, Refused) /\ r.kind \in {"load", "thumbnail", "advance", "single", "choice"}
  /\ ui' \in Steps /\ SameTexts /\ SameChoice /\ ui'.loading = ui.loading
  /\ ui'.generating => ui.generating /\ ~(r.kind = "generate" /\ r.mine)
  /\ ui'.ready = ui.ready \/ ui'.ready = TRUE
  /\ r.kind = "preview" /\ r.mine => ui'.ready

(* The state of the run has been found right for it.                       *)
TakenUp(i) ==
  LET r == pending[i] IN
  /\ StoreFrame /\ UNCHANGED <<server, events, ui, count, calm>>
  /\ ~r.busy /\ r.reply = Null
  /\ \/ r.kind = "single" /\ state = Metadata /\ Cli
     \/ r.kind = "thumbnail" /\ state = Thumbnails
     \/ r.kind = "metadata" /\ state = Metadata /\ \A c \in Clips : r.body[c] # 0
     \/ r.kind = "choice" /\ state = Choice
  /\ pending' \in Seq(Requests)
  /\ \E q \in Requests : /\ Asks' = RestOf(i) \cup {q} /\ SameRequest(q, r) /\ q.clip = r.clip
                         /\ q.reply = Null /\ q.busy /\ q.mine = r.mine

(* One more write of a submission.                                         *)
Sole(i) == \A q \in RestOf(i) : ~(q.kind = "choice" /\ q.busy /\ q.reply = Null)

WritesOn(i) ==
  LET r == pending[i]
      n == pending[i].clip
  IN
  /\ r.busy /\ r.reply = Null /\ StoreFrame /\ UNCHANGED <<state, gens, events, ui>>
  /\ pending' \in Seq(Requests)
  /\ \E q \in Requests : /\ Asks' = RestOf(i) \cup {q} /\ SameRequest(q, r) /\ q.clip = n + 1
                         /\ q.reply = Null /\ q.busy /\ q.mine = r.mine
  /\ n \in Nat /\ calm' \in BOOLEAN /\ count' \in [acts : Nat, texts : Nat]
  /\ \/ /\ r.kind = "metadata" /\ n + 1 \in Clips /\ r.body \in [Clips -> Nat]
        /\ rows' = [rows EXCEPT ![n + 1].text = r.body[n + 1]]
        /\ calm' => calm /\ state = Metadata
     \/ /\ r.kind = "choice" /\ r.body \in Picks
        /\ \/ n = 0 /\ rows' = [c \in Clips |-> [rows[c] EXCEPT !.sel = c \in r.body.selected]]
           \/ n \in Clips /\ rows' = [rows EXCEPT ![n].text = r.body.edits[n]]
           \/ n \in Clips /\ rows' = rows
        /\ calm' => calm /\ state = Choice /\ Sole(i)

LEMMA OneGone == ASSUME PageOK, NEW i \in DOMAIN pending, pending' = Others(i) PROVE Gone(i)
BY AskedFor DEF Gone, PageOK, Asks

LEMMA OneReplied ==
  ASSUME PageOK, NEW i \in DOMAIN pending, NEW value \in RepliesTo(pending[i].kind), Reply(i, value)
  PROVE  RepliedWith(i, value)
<1>1. pending' \in Seq(Requests) /\ Asks' = RestOf(i) \cup {[pending[i] EXCEPT !.reply = value]}
  BY AskedReply DEF PageOK
<1>2. pending[i] \in Requests BY AskedFor DEF PageOK
<1>3. AnswerTo([pending[i] EXCEPT !.reply = value], pending[i], value)
  BY <1>2, RequestReplied DEF AnswerTo
<1>. QED BY <1>1, <1>3 DEF RepliedWith

LEMMA VainReplies ==
  Refused \in RepliesTo("load") /\ Refused \in RepliesTo("thumbnail") /\ Refused \in RepliesTo("advance")
  /\ Refused \in RepliesTo("single") /\ Refused \in RepliesTo("choice")
BY DEF RepliesTo

(* What is told on the way, at most, to the step.                          *)
LEMMA ToldStep ==
  ASSUME PageOK, NEW i \in DOMAIN pending,
         \/ ui' = ui /\ pending[i].kind \notin {"generate", "preview"}
         \/ pending[i].kind = "generate" /\ ui' = Mine(i, [ui EXCEPT !.generating = FALSE])
         \/ pending[i].kind = "preview" /\ ui' = Mine(i, [ui EXCEPT !.ready = TRUE])
  PROVE  /\ ui' \in Steps /\ SameTexts /\ SameChoice /\ ui'.loading = ui.loading
         /\ ui'.generating => ui.generating /\ ~(pending[i].kind = "generate" /\ pending[i].mine)
         /\ ui'.ready = ui.ready \/ ui'.ready = TRUE
         /\ pending[i].kind = "preview" /\ pending[i].mine => ui'.ready
<1>1. ui \in Steps BY DEF PageOK
<1>2. CASE ui' = ui /\ pending[i].kind \notin {"generate", "preview"}
  BY <1>1, <1>2 DEF SameTexts, SameChoice
<1>3. CASE pending[i].kind = "generate" /\ ui' = Mine(i, [ui EXCEPT !.generating = FALSE])
  BY <1>1, <1>3 DEF SameTexts, SameChoice, Mine, Steps
<1>4. CASE pending[i].kind = "preview" /\ ui' = Mine(i, [ui EXCEPT !.ready = TRUE])
  BY <1>1, <1>4 DEF SameTexts, SameChoice, Mine, Steps
<1>. QED BY <1>2, <1>3, <1>4

LEMMA FailsInVain ==
  ASSUME PageOK, RestOK, NEW i \in DOMAIN pending, RequestFails(i)
  PROVE  InVain(i)
<1>. DEFINE r == pending[i]
<1>1. /\ r \in Requests /\ r.kind \in Kinds /\ r.reply = Null
      /\ StoreFrame /\ UNCHANGED <<server, events>> /\ Act
      /\ calm' = (calm /\ r.kind # "load") /\ r.kind # "preview"
  BY AskedFor, RequestFormed DEF PageOK, Formed, RequestFails, StoreFrame, store
<1>6. ~HalfDone(r) BY DEF RequestFails, HalfDone
<1>2. \/ Gone(i) /\ r.kind \in {"generate", "regenerate", "metadata", "preview"}
      \/ RepliedWith(i, Refused) /\ r.kind \in {"load", "thumbnail", "advance", "single", "choice"}
  BY <1>1, OneGone, OneReplied, VainReplies DEF RequestFails, Kinds
<1>3. \/ ui' = ui /\ r.kind \notin {"generate", "preview"}
      \/ r.kind = "generate" /\ ui' = Mine(i, [ui EXCEPT !.generating = FALSE])
  BY <1>1 DEF RequestFails
<1>4. /\ ui' \in Steps /\ SameTexts /\ SameChoice /\ ui'.loading = ui.loading
      /\ ui'.generating => ui.generating /\ ~(r.kind = "generate" /\ r.mine)
      /\ ui'.ready = ui.ready \/ ui'.ready = TRUE
  BY <1>3, ToldStep
<1>5. count' \in [acts : Nat, texts : Nat] BY <1>1, Acted
<1>. QED BY <1>1, <1>2, <1>4, <1>5, <1>6 DEF InVain, RestOK

Told == UNCHANGED <<ui, count, calm>>
NewWriter == Append(gens, Writer("started"))

ServedLoad(i) ==
  /\ pending[i].kind = "load" /\ RepliedWith(i, rows) /\ Told /\ UNCHANGED <<server, events>>

ServedGenerate(i) ==
  /\ pending[i].kind = "generate" /\ state = Thumbnails /\ Gone(i) /\ Told
  /\ gens' = Append(gens, Batch(0, FALSE)) /\ Runs' = Runs \cup {Batch(0, FALSE)}
  /\ UNCHANGED <<state, rows, events>>

ServedThumbnail(i) ==
  /\ pending[i].kind = "thumbnail" /\ pending[i].busy /\ RepliedWith(i, TRUE) /\ Told
  /\ pending[i].clip \in Clips /\ rows' = [rows EXCEPT ![pending[i].clip].path = TRUE]
  /\ UNCHANGED <<state, gens, events>>

ServedAdvance(i) ==
  /\ pending[i].kind = "advance" /\ state \in {Thumbnails, Metadata} /\ state' = state + 1
  /\ RepliedWith(i, state') /\ Published(StateEvent(state')) /\ Told
  /\ \/ state = Thumbnails /\ Cli /\ gens' = NewWriter /\ Runs' = Runs \cup {Writer("started")}
     \/ (state = Metadata \/ ~Cli) /\ gens' = gens
  /\ UNCHANGED rows

ServedRegenerate(i) ==
  /\ pending[i].kind = "regenerate" /\ state = Metadata /\ Cli /\ Gone(i) /\ Told
  /\ gens' = NewWriter /\ Runs' = Runs \cup {Writer("started")}
  /\ UNCHANGED <<state, rows, events>>

ServedSingle(i) ==
  /\ pending[i].kind = "single" /\ pending[i].busy /\ pending[i].clip \in Clips /\ RepliedWith(i, NewText)
  /\ rows' = [rows EXCEPT ![pending[i].clip].text = NewText] /\ UNCHANGED ui
  /\ count' = [count EXCEPT !.texts = @ + 1]
  /\ calm' = (calm /\ state = Metadata /\ \A g \in Runs : g.kind # "metadata")
  /\ UNCHANGED <<state, gens, events>>

ServedMetadata(i) ==
  /\ pending[i].kind = "metadata" /\ state = Metadata /\ Gone(i) /\ Told
  /\ state' = Choice /\ Published(StateEvent(Choice)) /\ UNCHANGED <<rows, gens>>

ServedChoice(i) ==
  /\ pending[i].kind = "choice" /\ state = Choice /\ RepliedWith(i, Confirm) /\ Told
  /\ state' = Confirm /\ Published(StateEvent(Confirm)) /\ UNCHANGED <<rows, gens>>

Served(i) ==
  /\ pending[i].reply = Null /\ StoreFrame
  /\ \/ ServedLoad(i) \/ ServedGenerate(i) \/ ServedThumbnail(i) \/ ServedAdvance(i) \/ ServedRegenerate(i)
     \/ ServedSingle(i) \/ ServedMetadata(i) \/ ServedChoice(i)
     \/ InVain(i) \/ TakenUp(i) \/ WritesOn(i)

LEMMA VainlyEnded ==
  ASSUME PageOK, RestOK, NEW i \in DOMAIN pending, StoreFrame, UNCHANGED <<server, events>>,
         calm' \in BOOLEAN, calm' => calm /\ ~HalfDone(pending[i]), count' \in [acts : Nat, texts : Nat],
         pending[i].reply = Null,
         \/ pending[i].kind \in {"generate", "regenerate", "metadata", "preview"} /\ pending' = Others(i)
         \/ pending[i].kind \in {"thumbnail", "advance", "single", "choice"} /\ Reply(i, Refused),
         \/ ui' = ui /\ pending[i].kind \notin {"generate", "preview"}
         \/ pending[i].kind = "generate" /\ ui' = Mine(i, [ui EXCEPT !.generating = FALSE])
         \/ pending[i].kind = "preview" /\ ui' = Mine(i, [ui EXCEPT !.ready = TRUE])
  PROVE  InVain(i)
<1>1. \/ Gone(i) /\ pending[i].kind \in {"generate", "regenerate", "metadata", "preview"}
      \/ RepliedWith(i, Refused) /\ pending[i].kind \in {"thumbnail", "advance", "single", "choice"}
  BY OneGone, OneReplied, VainReplies
<1>. QED BY <1>1, ToldStep DEF InVain

LEMMA VainlyServed ==
  ASSUME PageOK, RestOK, NEW i \in DOMAIN pending, StoreFrame, UNCHANGED <<server, events, count, calm>>,
         pending[i].reply = Null,
         \/ pending[i].kind \in {"generate", "regenerate", "preview"} /\ pending' = Others(i)
         \/ pending[i].kind \in {"thumbnail", "advance", "single"} /\ Reply(i, Refused),
         \/ ui' = ui /\ pending[i].kind \notin {"generate", "preview"}
         \/ pending[i].kind = "generate" /\ ui' = Mine(i, [ui EXCEPT !.generating = FALSE])
         \/ pending[i].kind = "preview" /\ ui' = Mine(i, [ui EXCEPT !.ready = TRUE])
  PROVE  InVain(i)
<1>1. ~HalfDone(pending[i]) /\ calm' \in BOOLEAN /\ (calm' => calm) /\ count' \in [acts : Nat, texts : Nat]
  BY DEF HalfDone, RestOK
<1>. QED BY <1>1, VainlyEnded

LEMMA OneTakenUp ==
  ASSUME PageOK, NEW i \in DOMAIN pending, pending[i].kind \in Looked, pending[i].reply = Null, TakeUp(i)
  PROVE  /\ pending' \in Seq(Requests)
         /\ \E q \in Requests : /\ Asks' = RestOf(i) \cup {q} /\ SameRequest(q, pending[i])
                                /\ q.clip = pending[i].clip /\ q.reply = Null /\ q.busy
                                /\ q.mine = pending[i].mine
<1>. DEFINE r == pending[i]
            q == [r EXCEPT !.busy = TRUE]
<1>0. r \in Requests BY AskedFor DEF PageOK
<1>1. /\ q \in Requests /\ SameRequest(q, r) /\ q.clip = r.clip /\ q.reply = r.reply /\ q.busy
      /\ q.mine = r.mine
  BY <1>0, RequestBusy
<1>2. pending' = [pending EXCEPT ![i] = q] BY DEF TakeUp
<1>. HIDE DEF q
<1>3. pending' \in Seq(Requests) /\ Asks' = RestOf(i) \cup {q} BY <1>1, <1>2, AskedReplaced DEF PageOK
<1>. QED BY <1>1, <1>3

LEMMA OneWritten ==
  ASSUME PageOK, NEW i \in DOMAIN pending, pending[i].reply = Null, pending[i].busy, WriteNext(i),
         \/ pending[i].kind = "metadata" /\ pending[i].clip < NumClips
         \/ pending[i].kind = "choice" /\ pending[i].clip <= NumClips
  PROVE  /\ pending' \in Seq(Requests) /\ pending[i].clip \in Nat
         /\ \E q \in Requests : /\ Asks' = RestOf(i) \cup {q} /\ SameRequest(q, pending[i])
                                /\ q.clip = pending[i].clip + 1 /\ q.reply = Null /\ q.busy
                                /\ q.mine = pending[i].mine
<1>. DEFINE r == pending[i]
            q == [r EXCEPT !.clip = @ + 1]
<1>0. r \in Requests /\ Formed(r) BY AskedFor, RequestFormed DEF PageOK
<1>1. /\ q \in Requests /\ SameRequest(q, r) /\ q.clip = r.clip + 1 /\ q.reply = r.reply /\ q.busy = r.busy
      /\ q.mine = r.mine
  BY <1>0, RequestWritten
<1>2. pending' = [pending EXCEPT ![i] = q] BY DEF WriteNext
<1>4. r.clip \in Nat BY <1>0, ReviewConstants DEF Formed, Places
<1>. HIDE DEF q
<1>3. pending' \in Seq(Requests) /\ Asks' = RestOf(i) \cup {q} BY <1>1, <1>2, AskedReplaced DEF PageOK
<1>. QED BY <1>1, <1>3, <1>4

LEMMA ServeEffect ==
  ASSUME ServerOK, PageOK, RestOK, NEW i \in DOMAIN pending, Serve(i)
  PROVE  Served(i)
<1>. DEFINE r == pending[i]
<1>0. /\ r.reply = Null /\ StoreFrame /\ r \in Requests /\ Formed(r)
      /\ gens \in Seq(Generators) /\ Opened(gens)
  BY AskedFor, RequestFormed DEF PageOK, ServerOK, Serve, StoreFrame, store
<1>1. CASE ServeLoad(i)
  <2>1. rows \in RepliesTo(r.kind) BY <1>1 DEF ServeLoad, RepliesTo, ServerOK
  <2>2. RepliedWith(i, rows) BY <1>1, <2>1, OneReplied DEF ServeLoad
  <2>. QED BY <1>0, <1>1, <2>2 DEF ServeLoad, Served, ServedLoad, Told
<1>2. CASE ServeGenerate(i)
  <2>1. CASE state = Thumbnails
    <3>1. Gone(i) BY <1>2, OneGone DEF ServeGenerate
    <3>2. 0 \in 0 .. NumClips BY ReviewConstants
    <3>3. Batch(0, FALSE) \in Generators /\ Batch(0, FALSE).open = FALSE BY <3>2, GeneratorsMade
    <3>4. gens' = Append(gens, Batch(0, FALSE)) BY <1>2, <2>1 DEF ServeGenerate, Batch
    <3>5. Runs' = Runs \cup {Batch(0, FALSE)} BY <1>0, <3>3, <3>4, GensAppended
    <3>. QED BY <1>0, <1>2, <2>1, <3>1, <3>4, <3>5 DEF ServeGenerate, Served, ServedGenerate, Told
  <2>2. CASE state # Thumbnails
    <3>1. InVain(i) BY <1>0, <1>2, <2>2, VainlyServed DEF ServeGenerate, server
    <3>. QED BY <1>0, <1>2, <3>1 DEF Served, ServeGenerate
  <2>. QED BY <2>1, <2>2
<1>3. CASE ServeThumbnail(i)
  <2>0. r.kind = "thumbnail" BY <1>3 DEF ServeThumbnail
  <2>1. r.clip \in Clips /\ TRUE \in RepliesTo(r.kind)
    <3>1. r.clip \in Places(r.kind) BY <1>0 DEF Formed
    <3>2. r.clip \in Clips BY <2>0, <3>1 DEF Places
    <3>3. TRUE \in RepliesTo(r.kind) BY <2>0 DEF RepliesTo
    <3>. QED BY <3>2, <3>3
  <2>2. CASE rows' = rows /\ Reply(i, Refused)
    <3>1. InVain(i) BY <1>0, <1>3, <2>2, VainlyServed DEF ServeThumbnail, server
    <3>. QED BY <1>0, <1>3, <3>1 DEF Served, ServeThumbnail
  <2>3. CASE r.busy /\ rows' = [rows EXCEPT ![r.clip].path = TRUE] /\ Reply(i, TRUE)
    <3>1. RepliedWith(i, TRUE) BY <2>1, <2>3, OneReplied
    <3>. QED BY <1>0, <1>3, <2>1, <2>3, <3>1 DEF ServeThumbnail, Served, ServedThumbnail, Told
  <2>4. CASE ~r.busy /\ state = Thumbnails /\ TakeUp(i) /\ rows' = rows
    <3>1. r.kind = "thumbnail" /\ r.kind \in Looked BY <1>3 DEF ServeThumbnail, Looked
    <3>. QED BY <1>0, <1>3, <2>4, <3>1, OneTakenUp DEF ServeThumbnail, Served, TakenUp, server
  <2>. QED BY <1>3, <2>2, <2>3, <2>4 DEF ServeThumbnail
<1>4. CASE ServeAdvance(i)
  <2>0. Metadata = Thumbnails + 1 /\ Choice = Metadata + 1 /\ Thumbnails # Metadata
    BY DEF Thumbnails, Metadata, Choice
  <2>1. Metadata \in RepliesTo(r.kind) /\ Choice \in RepliesTo(r.kind) BY <1>4 DEF ServeAdvance, RepliesTo
  <2>2. CASE state = Thumbnails
    <3>1. Reply(i, Metadata) /\ Advanced(Metadata)
          /\ gens' = IF Cli THEN Append(gens, [kind |-> "metadata", stage |-> "started"]) ELSE gens
      BY <1>4, <2>2 DEF ServeAdvance, Thumbnails, Metadata
    <3>2. RepliedWith(i, Metadata) BY <2>1, <3>1, OneReplied
    <3>3. Writer("started") \in Generators /\ Writer("started").kind # "thumbnails" BY GeneratorsMade DEF Stages
    <3>4. \/ Cli /\ gens' = NewWriter /\ Runs' = Runs \cup {Writer("started")}
          \/ ~Cli /\ gens' = gens
      BY <1>0, <3>1, <3>3, GensAppended DEF NewWriter, Writer
    <3>5. state' = Metadata /\ Published(StateEvent(Metadata)) BY <3>1 DEF Advanced, Published, StateEvent
    <3>. QED BY <1>0, <1>4, <2>0, <2>2, <3>2, <3>4, <3>5 DEF ServeAdvance, Served, ServedAdvance, Told
  <2>3. CASE state = Metadata
    <3>1. Reply(i, Choice) /\ Advanced(Choice) /\ gens' = gens BY <1>4, <2>0, <2>3 DEF ServeAdvance
    <3>2. RepliedWith(i, Choice) BY <2>1, <3>1, OneReplied
    <3>3. state' = Choice /\ Published(StateEvent(Choice)) BY <3>1 DEF Advanced, Published, StateEvent
    <3>. QED BY <1>0, <1>4, <2>0, <2>3, <3>1, <3>2, <3>3 DEF ServeAdvance, Served, ServedAdvance, Told
  <2>4. CASE state \notin {Thumbnails, Metadata}
    <3>1. Reply(i, Refused) /\ UNCHANGED <<state, events, gens, rows, ui, count, calm>> /\ r.kind = "advance"
      BY <1>4, <2>4 DEF ServeAdvance
    <3>2. InVain(i) BY <1>0, <3>1, VainlyServed DEF server
    <3>. QED BY <1>0, <3>1, <3>2 DEF Served
  <2>. QED BY <2>2, <2>3, <2>4
<1>5. CASE ServePreview(i)
  <2>1. InVain(i) BY <1>0, <1>5, VainlyServed DEF ServePreview
  <2>. QED BY <1>0, <1>5, <2>1 DEF Served, ServePreview
<1>6. CASE ServeRegenerate(i)
  <2>1. CASE state = Metadata /\ Cli
    <3>1. Gone(i) BY <1>6, OneGone DEF ServeRegenerate
    <3>2. Writer("started") \in Generators /\ Writer("started").kind # "thumbnails" BY GeneratorsMade DEF Stages
    <3>3. gens' = NewWriter BY <1>6, <2>1 DEF ServeRegenerate, NewWriter, Writer
    <3>4. Runs' = Runs \cup {Writer("started")} BY <1>0, <3>2, <3>3, GensAppended DEF NewWriter
    <3>. QED BY <1>0, <1>6, <2>1, <3>1, <3>3, <3>4 DEF ServeRegenerate, Served, ServedRegenerate, Told
  <2>2. CASE ~(state = Metadata /\ Cli)
    <3>1. gens' = gens BY <1>6, <2>2 DEF ServeRegenerate
    <3>2. InVain(i) BY <1>0, <1>6, <3>1, VainlyServed DEF ServeRegenerate, server
    <3>. QED BY <1>0, <1>6, <3>2 DEF Served, ServeRegenerate
  <2>. QED BY <2>1, <2>2
<1>7. CASE ServeSingle(i)
  <2>0. /\ r.kind = "single" /\ r.clip \in Clips /\ UNCHANGED <<state, gens, events, ui>>
    <3>1. r.kind = "single" /\ UNCHANGED <<state, gens, events, ui>> BY <1>7 DEF ServeSingle
    <3>2. r.clip \in Places(r.kind) BY <1>0 DEF Formed
    <3>3. r.clip \in Clips BY <3>1, <3>2 DEF Places
    <3>. QED BY <3>1, <3>3
  <2>1. CASE ~r.busy /\ state = Metadata /\ Cli /\ TakeUp(i) /\ UNCHANGED <<rows, count, calm>>
    <3>1. r.kind \in Looked BY <2>0 DEF Looked
    <3>. QED BY <1>0, <2>0, <2>1, <3>1, OneTakenUp DEF Served, TakenUp, server
  <2>2. CASE Reply(i, Refused) /\ UNCHANGED <<rows, count, calm>>
    <3>1. InVain(i) BY <1>0, <2>0, <2>2, VainlyServed DEF server
    <3>. QED BY <1>0, <2>2, <3>1 DEF Served
  <2>3. CASE /\ r.busy /\ rows' = [rows EXCEPT ![r.clip].text = NewText] /\ Reply(i, NewText)
             /\ count' = [count EXCEPT !.texts = @ + 1]
             /\ calm' = (calm /\ state = Metadata /\ \A j \in DOMAIN gens : gens[j].kind # "metadata")
    <3>1. NewText \in RepliesTo(r.kind) BY <2>0 DEF NewText, RestOK, RepliesTo
    <3>2. RepliedWith(i, NewText) BY <2>3, <3>1, OneReplied
    <3>3. calm' = (calm /\ state = Metadata /\ \A g \in Runs : g.kind # "metadata") BY <2>3 DEF Runs, Range
    <3>. QED BY <1>0, <2>0, <2>3, <3>2, <3>3 DEF Served, ServedSingle
  <2>. QED BY <1>7, <2>1, <2>2, <2>3 DEF ServeSingle
<1>8. CASE ServeMetadata(i)
  <2>. DEFINE n == r.clip
  <2>0. /\ r.kind = "metadata" /\ r.body \in [Clips -> Nat] /\ DOMAIN r.body = Clips /\ r.kind \in Looked
        /\ n \in 0 .. NumClips /\ UNCHANGED <<gens, ui>>
    BY <1>0, <1>8 DEF ServeMetadata, Formed, Looked, Places
  <2>1. CASE ~r.busy /\ state = Metadata /\ (\A c \in Clips : r.body[c] # 0) /\ TakeUp(i)
             /\ UNCHANGED <<rows, state, events, count, calm>>
    BY <1>0, <2>0, <2>1, OneTakenUp DEF Served, TakenUp, server
  <2>2. CASE ~r.busy /\ pending' = Others(i) /\ UNCHANGED <<rows, state, events, count, calm>>
    <3>1. ~HalfDone(r) BY <2>2 DEF HalfDone
    <3>2. InVain(i) BY <1>0, <2>0, <2>2, <3>1, VainlyEnded DEF server, RestOK
    <3>. QED BY <1>0, <3>2 DEF Served
  <2>3. CASE r.busy /\ n < NumClips /\ rows' = [rows EXCEPT ![n + 1].text = r.body[n + 1]] /\ WriteNext(i)
             /\ calm' = (calm /\ state = Metadata) /\ UNCHANGED <<state, events, count>>
    <3>1. n + 1 \in Clips BY <2>0, <2>3, ReviewConstants DEF Clips
    <3>2. calm' \in BOOLEAN /\ (calm' => calm /\ state = Metadata) /\ count' \in [acts : Nat, texts : Nat]
      BY <2>3 DEF RestOK
    <3>3. WritesOn(i) BY <1>0, <2>0, <2>3, <3>1, <3>2, OneWritten DEF WritesOn
    <3>. QED BY <1>0, <3>3 DEF Served
  <2>4. CASE r.busy /\ n = NumClips /\ pending' = Others(i) /\ UNCHANGED <<rows, count, calm>>
             /\ state = Metadata /\ Advanced(Choice)
    <3>1. Gone(i) BY <2>4, OneGone
    <3>. QED BY <1>0, <2>0, <2>4, <3>1 DEF Served, ServedMetadata, Advanced, Published, StateEvent, Told
  <2>5. CASE r.busy /\ n = NumClips /\ pending' = Others(i) /\ UNCHANGED <<rows, count, calm>>
             /\ state # Metadata /\ UNCHANGED <<state, events>>
    <3>1. ~HalfDone(r) BY <2>0, <2>5 DEF HalfDone
    <3>2. InVain(i) BY <1>0, <2>0, <2>5, <3>1, VainlyEnded DEF server, RestOK
    <3>. QED BY <1>0, <3>2 DEF Served
  <2>6. CASE r.busy /\ BreakOff(i) /\ pending' = Others(i) /\ UNCHANGED <<rows, state, events>>
    <3>1. calm' = (calm /\ n = 0) BY <2>6 DEF BreakOff
    <3>0. calm' \in BOOLEAN /\ (calm' => calm /\ ~HalfDone(r)) BY <3>1 DEF HalfDone, RestOK
    <3>2. count' \in [acts : Nat, texts : Nat] BY <2>6, Acted DEF BreakOff
    <3>3. InVain(i) BY <1>0, <2>0, <2>6, <3>0, <3>2, VainlyEnded DEF server
    <3>. QED BY <1>0, <3>3 DEF Served
  <2>. QED BY <1>8, <2>0, <2>1, <2>2, <2>3, <2>4, <2>5, <2>6 DEF ServeMetadata
<1>9. CASE ServeChoice(i)
  <2>. DEFINE n == r.clip
  <2>0. /\ r.kind = "choice" /\ r.body \in Picks /\ UNCHANGED <<gens, ui>> /\ Confirm \in RepliesTo(r.kind)
        /\ r.kind \in Looked /\ n \in 0 .. NumClips + 1
    BY <1>0, <1>9 DEF ServeChoice, Formed, RepliesTo, Looked, Places
  <2>1. CASE ~r.busy /\ state = Choice /\ TakeUp(i) /\ UNCHANGED <<rows, state, events, count, calm>>
    BY <1>0, <2>0, <2>1, OneTakenUp DEF Served, TakenUp, server
  <2>2. CASE ~r.busy /\ Reply(i, Refused) /\ UNCHANGED <<rows, state, events, count, calm>>
    <3>1. ~HalfDone(r) BY <2>2 DEF HalfDone
    <3>2. InVain(i) BY <1>0, <2>0, <2>2, <3>1, VainlyEnded DEF server, RestOK
    <3>. QED BY <1>0, <3>2 DEF Served
  <2>3. CASE /\ r.busy /\ n <= NumClips /\ WriteNext(i)
             /\ \/ /\ rows' = IF n = 0 THEN [c \in Clips |-> [rows[c] EXCEPT !.sel = c \in r.body.selected]]
                            ELSE [rows EXCEPT ![n].text = r.body.edits[n]]
                   /\ count' = count
                \/ n > 0 /\ Act /\ rows' = rows
             /\ calm' = (calm /\ state = Choice /\ ~Rivalled(i)) /\ UNCHANGED <<state, events>>
    <3>1. n = 0 \/ n \in Clips BY <2>0, <2>3, ReviewConstants DEF Clips
    <3>2. calm' \in BOOLEAN /\ (calm' => calm /\ state = Choice /\ Sole(i))
      BY <2>3 DEF RestOK, Rivalled, Sole, RestOf
    <3>3. count' \in [acts : Nat, texts : Nat] BY <2>3, Acted DEF RestOK
    <3>4. \/ n = 0 /\ rows' = [c \in Clips |-> [rows[c] EXCEPT !.sel = c \in r.body.selected]]
          \/ n \in Clips /\ rows' = [rows EXCEPT ![n].text = r.body.edits[n]]
          \/ n \in Clips /\ rows' = rows
      BY <2>0, <2>3, <3>1
    <3>5. WritesOn(i) BY <1>0, <2>0, <2>3, <3>2, <3>3, <3>4, OneWritten DEF WritesOn
    <3>. QED BY <1>0, <3>5 DEF Served
  <2>4. CASE r.busy /\ n = NumClips + 1 /\ state = Choice /\ Advanced(Confirm) /\ Reply(i, Confirm)
             /\ UNCHANGED <<rows, count, calm>>
    <3>1. RepliedWith(i, Confirm) BY <2>0, <2>4, OneReplied
    <3>. QED BY <1>0, <2>0, <2>4, <3>1 DEF Served, ServedChoice, Advanced, Published, StateEvent, Told
  <2>5. CASE r.busy /\ n = NumClips + 1 /\ state # Choice /\ Reply(i, Refused)
             /\ UNCHANGED <<state, events, rows, count, calm>>
    <3>1. ~HalfDone(r) BY <2>0, <2>5 DEF HalfDone
    <3>2. InVain(i) BY <1>0, <2>0, <2>5, <3>1, VainlyEnded DEF server, RestOK
    <3>. QED BY <1>0, <3>2 DEF Served
  <2>6. CASE r.busy /\ BreakOff(i) /\ Reply(i, Refused) /\ UNCHANGED <<rows, state, events>>
    <3>1. calm' = (calm /\ n = 0) BY <2>6 DEF BreakOff
    <3>0. calm' \in BOOLEAN /\ (calm' => calm /\ ~HalfDone(r)) BY <3>1 DEF HalfDone, RestOK
    <3>2. count' \in [acts : Nat, texts : Nat] BY <2>6, Acted DEF BreakOff
    <3>3. InVain(i) BY <1>0, <2>0, <2>6, <3>0, <3>2, VainlyEnded DEF server
    <3>. QED BY <1>0, <3>3 DEF Served
  <2>. QED BY <1>9, <2>1, <2>2, <2>3, <2>4, <2>5, <2>6 DEF ServeChoice
<1>. QED BY <1>1, <1>2, <1>3, <1>4, <1>5, <1>6, <1>7, <1>8, <1>9 DEF Serve
-----------------------------------------------------------------------------
(* The types, for the steps of the server.                                 *)

LEMMA PreviewKept ==
  ASSUME PageOK, NEW i \in DOMAIN pending, RestOf(i) \subseteq Asks',
         ui'.ready \/ (ui'.ready = ui.ready /\ ~OwnPreview(pending[i]))
  PROVE  ReadyComes'
<1>1. Asks = RestOf(i) \cup {pending[i]} BY AskedFor DEF PageOK
<1>. QED BY <1>1 DEF PageOK, ReadyComes

LEMMA PageServed ==
  ASSUME PageOK, StoreFrame, NEW i \in DOMAIN pending, pending' \in Seq(Requests), RestOf(i) \subseteq Asks',
         ui' \in Steps, ui'.edits = ui.edits,
         ui'.ready \/ (ui'.ready = ui.ready /\ ~OwnPreview(pending[i]))
  PROVE  PageOK'
<1>1. ReadyComes' BY PreviewKept
<1>2. EditsThere' BY DEF PageOK, EditsThere, StoreFrame
<1>3. RecordedOK' BY DEF PageOK, RecordedOK, StoreFrame
<1>. QED BY <1>1, <1>2, <1>3 DEF PageOK, StoreFrame

LEMMA InVainTypes ==
  ASSUME ServerOK, PageOK, RestOK, NEW i \in DOMAIN pending, InVain(i)
  PROVE  TypeOK'
<1>1. ServerOK' BY SameServer DEF InVain
<1>2. pending' \in Seq(Requests) /\ RestOf(i) \subseteq Asks' BY DEF InVain, Gone, RepliedWith
<1>3. ui'.ready \/ (ui'.ready = ui.ready /\ ~OwnPreview(pending[i])) BY DEF InVain, OwnPreview
<1>4. PageOK' BY <1>2, <1>3, PageServed DEF InVain, SameTexts
<1>5. RestOK' BY DEF RestOK, InVain, StoreFrame
<1>. QED BY <1>1, <1>4, <1>5, TypesMade

(* What is written of a submission.                                        *)
LEMMA SubmissionWritten ==
  ASSUME rows \in [Clips -> Row], NEW i \in DOMAIN pending, WritesOn(i)
  PROVE  /\ rows' \in [Clips -> Row] /\ \A c \in Clips : rows'[c].path = rows[c].path
         /\ pending[i].kind = "metadata" =>
               \A c \in Clips : /\ rows'[c].text \in {rows[c].text, pending[i].body[c]}
                                /\ rows'[c].sel = rows[c].sel
         /\ pending[i].kind = "choice" =>
               \A c \in Clips : /\ rows'[c].text \in {rows[c].text, pending[i].body.edits[c]}
                                /\ pending[i].clip = 0 => rows'[c].text = rows[c].text
                                /\ pending[i].clip > 0 => rows'[c].sel = rows[c].sel
<1>. DEFINE r == pending[i]
            n == r.clip
<1>0. \A row \in Row, x \in Nat : /\ [row EXCEPT !.text = x] \in Row
                                  /\ [row EXCEPT !.text = x].text = x
                                  /\ [row EXCEPT !.text = x].path = row.path
                                  /\ [row EXCEPT !.text = x].sel = row.sel
  BY DEF Row
<1>1. CASE r.kind = "metadata"
  <2>1. /\ n + 1 \in Clips /\ r.body \in [Clips -> Nat]
        /\ rows' = [rows EXCEPT ![n + 1] = [rows[n + 1] EXCEPT !.text = r.body[n + 1]]]
    BY <1>1 DEF WritesOn
  <2>2. rows' \in [Clips -> Row] BY <1>0, <2>1
  <2>3. \A c \in Clips : rows'[c] = IF c = n + 1 THEN [rows[c] EXCEPT !.text = r.body[c]] ELSE rows[c] BY <2>1
  <2>4. \A c \in Clips : rows[c] \in Row /\ r.body[c] \in Nat BY <2>1
  <2>5. ASSUME NEW c \in Clips
        PROVE  rows'[c].text \in {rows[c].text, r.body[c]} /\ rows'[c].sel = rows[c].sel
               /\ rows'[c].path = rows[c].path
    <3>1. CASE c = n + 1
      <4>1. rows'[c] = [rows[c] EXCEPT !.text = r.body[c]] BY <2>3, <3>1
      <4>. QED BY <1>0, <2>4, <4>1
    <3>2. CASE c # n + 1 BY <2>3, <3>2
    <3>. QED BY <3>1, <3>2
  <2>. QED BY <1>1, <2>2, <2>5
<1>2. CASE r.kind = "choice" /\ n = 0
  <2>1. 0 \notin Clips BY DEF Clips
  <2>2. rows' = [c \in Clips |-> [rows[c] EXCEPT !.sel = c \in r.body.selected]] BY <1>2, <2>1 DEF WritesOn
  <2>3. \A row \in Row, y \in BOOLEAN : /\ [row EXCEPT !.sel = y] \in Row
                                        /\ [row EXCEPT !.sel = y].text = row.text
                                        /\ [row EXCEPT !.sel = y].path = row.path
    BY DEF Row
  <2>4. ASSUME NEW c \in Clips
        PROVE  rows'[c] \in Row /\ rows'[c].text = rows[c].text /\ rows'[c].path = rows[c].path
    <3>. DEFINE y == c \in r.body.selected
    <3>1. y \in BOOLEAN /\ rows[c] \in Row OBVIOUS
    <3>2. rows'[c] = [rows[c] EXCEPT !.sel = y] BY <2>2
    <3>. HIDE DEF y
    <3>. QED BY <2>3, <3>1, <3>2
  <2>5. rows' \in [Clips -> Row] BY <2>2, <2>4
  <2>. QED BY <1>2, <2>4, <2>5
<1>3. CASE r.kind = "choice" /\ n # 0
  <2>1. n \in Clips /\ r.body.edits \in [Clips -> Nat]
        /\ (rows' = rows \/ rows' = [rows EXCEPT ![n] = [rows[n] EXCEPT !.text = r.body.edits[n]]])
    BY <1>3 DEF WritesOn, Picks
  <2>2. rows' \in [Clips -> Row] BY <1>0, <2>1
  <2>3. \A c \in Clips : rows'[c] = rows[c] \/ rows'[c] = [rows[c] EXCEPT !.text = r.body.edits[c]] BY <2>1
  <2>4. \A c \in Clips : rows[c] \in Row /\ r.body.edits[c] \in Nat BY <2>1
  <2>5. ASSUME NEW c \in Clips
        PROVE  rows'[c].text \in {rows[c].text, r.body.edits[c]} /\ rows'[c].sel = rows[c].sel
               /\ rows'[c].path = rows[c].path
    <3>1. CASE rows'[c] = rows[c] BY <3>1
    <3>2. CASE rows'[c] = [rows[c] EXCEPT !.text = r.body.edits[c]] BY <1>0, <2>4, <3>2
    <3>. QED BY <2>3, <3>1, <3>2
  <2>. QED BY <1>3, <2>2, <2>5
<1>. QED BY <1>1, <1>2, <1>3 DEF WritesOn

LEMMA ServedTypes ==
  ASSUME ServerOK, PageOK, RestOK, NEW i \in DOMAIN pending, Served(i)
  PROVE  TypeOK'
<1>. DEFINE r == pending[i]
<1>0. /\ StoreFrame /\ gens \in Seq(Generators) /\ Opened(gens) /\ rows \in [Clips -> Row]
      /\ events \in Seq(Events) /\ state \in 0 .. Confirm /\ ui \in Steps
      /\ live \in BOOLEAN /\ calm \in BOOLEAN /\ count \in [acts : Nat, texts : Nat]
  BY DEF Served, ServerOK, PageOK, RestOK
<1>1. CASE InVain(i) BY <1>0, <1>1, InVainTypes
<1>2. CASE TakenUp(i)
  <2>1. ServerOK' BY <1>2, SameServer DEF TakenUp
  <2>2. PageOK' BY <1>0, <1>2, PageServed DEF TakenUp, OwnPreview
  <2>3. RestOK' BY <1>0, <1>2 DEF RestOK, TakenUp, StoreFrame
  <2>. QED BY <2>1, <2>2, <2>3, TypesMade
<1>3. CASE \/ ServedLoad(i) \/ ServedGenerate(i) \/ ServedThumbnail(i) \/ ServedAdvance(i)
           \/ ServedRegenerate(i) \/ ServedSingle(i) \/ ServedMetadata(i) \/ ServedChoice(i)
  <2>1. /\ pending' \in Seq(Requests) /\ RestOf(i) \subseteq Asks' /\ r.kind # "preview" /\ UNCHANGED ui
    BY <1>3 DEF ServedLoad, ServedGenerate, ServedThumbnail, ServedAdvance, ServedRegenerate, ServedSingle,
                ServedMetadata, ServedChoice, RepliedWith, Gone, Told
  <2>2. PageOK' BY <1>0, <2>1, PageServed DEF OwnPreview
  <2>3. RestOK'
    <3>1. CASE ServedSingle(i)
      <4>1. count' = [count EXCEPT !.texts = @ + 1] /\ calm' \in BOOLEAN BY <1>0, <3>1 DEF ServedSingle
      <4>. QED BY <1>0, <4>1, CountedRest DEF StoreFrame
    <3>2. CASE ~ServedSingle(i)
      <4>1. UNCHANGED <<count, calm>>
        BY <1>3, <3>2 DEF ServedLoad, ServedGenerate, ServedThumbnail, ServedAdvance, ServedRegenerate,
                          ServedMetadata, ServedChoice, Told
      <4>. QED BY <1>0, <4>1 DEF RestOK, StoreFrame
    <3>. QED BY <3>1, <3>2
  <2>4. gens' \in Seq(Generators) /\ Opened(gens')
    <3>1. CASE gens' = gens BY <1>0, <3>1
    <3>2. CASE gens' = Append(gens, Batch(0, FALSE))
      <4>1. 0 \in 0 .. NumClips BY ReviewConstants
      <4>2. Batch(0, FALSE) \in Generators /\ Batch(0, FALSE).open = FALSE BY <4>1, GeneratorsMade
      <4>. QED BY <1>0, <3>2, <4>2, GensAppended
    <3>3. CASE gens' = NewWriter
      <4>1. Writer("started") \in Generators /\ Writer("started").kind # "thumbnails"
        BY GeneratorsMade DEF Stages
      <4>. QED BY <1>0, <3>3, <4>1, GensAppended DEF NewWriter
    <3>. QED BY <1>3, <3>1, <3>2, <3>3
      DEF ServedLoad, ServedGenerate, ServedThumbnail, ServedAdvance, ServedRegenerate, ServedSingle,
          ServedMetadata, ServedChoice, server
  <2>5. state' \in 0 .. Confirm /\ events' \in Seq(Events)
    <3>1. CASE UNCHANGED <<state, events>> BY <1>0, <3>1
    <3>2. CASE state' \in Thumbnails .. Confirm /\ Published(StateEvent(state'))
      <4>1. StateEvent(state') \in Events BY <3>2, EventsMade
      <4>2. events' \in Seq(Events) BY <1>0, <3>2, <4>1, PublishedEffect
      <4>. QED BY <3>2, <4>2 DEF Thumbnails, Confirm
    <3>3. \/ UNCHANGED <<state, events>>
          \/ state' \in {Metadata, Choice, Confirm} /\ Published(StateEvent(state'))
      <4>1. CASE ServedAdvance(i) BY <4>1 DEF ServedAdvance, Thumbnails, Metadata, Choice
      <4>2. CASE ServedMetadata(i) \/ ServedChoice(i) BY <4>2 DEF ServedMetadata, ServedChoice
      <4>3. CASE \/ ServedLoad(i) \/ ServedGenerate(i) \/ ServedThumbnail(i) \/ ServedRegenerate(i)
                 \/ ServedSingle(i)
        BY <4>3 DEF ServedLoad, ServedGenerate, ServedThumbnail, ServedRegenerate, ServedSingle, server
      <4>. QED BY <1>3, <4>1, <4>2, <4>3
    <3>. QED BY <3>1, <3>2, <3>3 DEF Thumbnails, Metadata, Choice, Confirm
  <2>6. rows' \in [Clips -> Row]
    <3>1. CASE rows' = rows BY <1>0, <3>1
    <3>2. CASE ServedThumbnail(i) BY <1>0, <3>2, PathWritten DEF ServedThumbnail
    <3>3. CASE ServedSingle(i)
      <4>1. NewText \in Nat BY DEF NewText, RestOK
      <4>. QED BY <1>0, <3>3, <4>1 DEF ServedSingle, Row
    <3>. QED BY <1>3, <3>1, <3>2, <3>3
      DEF ServedLoad, ServedGenerate, ServedAdvance, ServedRegenerate, ServedMetadata, ServedChoice, server
  <2>7. ServerOK' BY <2>4, <2>5, <2>6 DEF ServerOK
  <2>. QED BY <2>2, <2>3, <2>7, TypesMade
<1>4. CASE WritesOn(i)
  <2>1. rows' \in [Clips -> Row] BY <1>0, <1>4, SubmissionWritten
  <2>2. ServerOK' BY <1>0, <1>4, <2>1 DEF ServerOK, WritesOn
  <2>3. r.kind # "preview" BY <1>4 DEF WritesOn
  <2>4. PageOK' BY <1>0, <1>4, <2>3, PageServed DEF WritesOn, OwnPreview
  <2>5. RestOK' BY <1>0, <1>4 DEF RestOK, WritesOn, StoreFrame
  <2>. QED BY <2>2, <2>4, <2>5, TypesMade
<1>. QED BY <1>1, <1>2, <1>3, <1>4 DEF Served

LEMMA BehindPage == ASSUME PageOK, UNCHANGED Behind PROVE PageOK' /\ Asks' = Asks
BY DEF PageOK, Behind, store, RecordedOK, EditsThere, ReadyComes, Asks

LEMMA GeneratorTypes ==
  ASSUME ServerOK, PageOK, RestOK, NEW i \in DOMAIN gens, ThumbnailStep(i) \/ MetadataStep(i)
  PROVE  TypeOK'
<1>1. CASE ThumbnailStep(i)
  <2>. DEFINE g == gens[i]
  <2>1. /\ UNCHANGED Behind /\ UNCHANGED <<count, calm>> /\ rows' \in [Clips -> Row]
        /\ gens' \in Seq(Generators) /\ Opened(gens')
        /\ \E e \in Events : Published(e)
    <3>1. g.open \/ g.at < NumClips => g.at + 1 \in Clips BY <1>1, ThumbnailStepCases
    <3>2. \/ (g.open \/ g.at < NumClips)
             /\ \E s \in {"generating", "error", "done"} : Published(ThumbEvent(s, g.at + 1))
          \/ Published(ThumbEvent("batch_done", 0))
      BY <1>1, ThumbnailStepCases
    <3>3. \E e \in Events : Published(e) BY <3>1, <3>2, EventsMade
    <3>. QED BY <1>1, <3>3, ThumbnailStepCases
  <2>2. events' \in Seq(Events) BY <2>1, PublishedEffect DEF ServerOK
  <2>3. ServerOK' BY <2>1, <2>2 DEF ServerOK, Behind
  <2>4. PageOK' BY <2>1, BehindPage
  <2>5. RestOK' BY <2>1 DEF RestOK, Behind
  <2>. QED BY <2>3, <2>4, <2>5, TypesMade
<1>2. CASE MetadataStep(i)
  <2>1. /\ UNCHANGED Behind /\ rows' \in [Clips -> Row] /\ gens' \in Seq(Generators) /\ Opened(gens')
        /\ calm' \in BOOLEAN
        /\ count' = count \/ count' = [count EXCEPT !.texts = @ + 1]
        /\ events' = events \/ \E s \in {"generating", "error", "done"} : Published(MetaEvent(s))
    BY <1>2, MetadataStepCases
  <2>2. events' \in Seq(Events) BY <2>1, PublishedEffect, EventsMade DEF ServerOK
  <2>3. ServerOK' BY <2>1, <2>2 DEF ServerOK, Behind
  <2>4. PageOK' BY <2>1, BehindPage
  <2>5. RestOK' BY <2>1, SameRest, CountedRest DEF Behind
  <2>. QED BY <2>3, <2>4, <2>5, TypesMade
<1>. QED BY <1>1, <1>2
-----------------------------------------------------------------------------
(* What reaches the page, and what it makes of it.                         *)

(* The step with another spinner.                                          *)
Alike(u) ==
  /\ u \in Steps /\ u.generating = ui.generating /\ u.edits = ui.edits /\ u.typed = ui.typed
  /\ u.selected = ui.selected /\ u.toggled = ui.toggled /\ u.ready = ui.ready

(* The clips become `list`, the step was u, the requests were S.           *)
Refreshed(list, u, S) ==
  /\ clips' = list /\ list \in ClipLists
  /\ ui' \in Steps /\ ui'.generating = u.generating /\ ui'.loading = u.loading
  /\ pending' \in Seq(Requests) /\ S \subseteq Asks' /\ Asks' \subseteq S \cup {Preview}
  /\ ui'.ready = u.ready \/ Preview \in Asks'
  /\ shown = Metadata => ui'.edits = Texts(list) /\ ui'.typed = {}
  /\ shown \in {Metadata, Choice} /\ list # <<>> => ui'.edits \in [Clips -> Nat]
  /\ shown = Choice /\ list # <<>> /\ ~Historical(shown, top) =>
        /\ ui'.edits = Texts(list) /\ ui'.selected = {c \in Clips : list[c].sel}
        /\ ui'.typed = {} /\ ~ui'.toggled
  /\ shown \notin {Metadata, Choice} => ui' = u

(* The step `gate` is displayed, the history ends with `end`.              *)
Displayed(gate, end, S) ==
  /\ ui' \in Steps /\ pending' \in Seq(Requests)
  /\ top' = end /\ shown' = gate
  /\ gate = shown => ui' = ui /\ Asks' = S
  /\ gate # shown =>
       /\ Asks' \subseteq LeftOf(S) \cup {Load, Preview} /\ LeftOf(S) \subseteq Asks'
       /\ gate # Confirm => Load \in Asks'
       /\ ~ui'.generating /\ ~ui'.submitting /\ (ui'.loading = (gate = Choice)) /\ ui'.slot = 0
       /\ gate = Choice => ui'.typed = {} /\ ~ui'.toggled
       /\ gate \in {Metadata, Choice} /\ clips # <<>> => ui'.edits \in [Clips -> Nat]
       /\ ui'.ready \/ Preview \in Asks'

LEMMA SetClipsRefreshes ==
  ASSUME PageOK, NEW u \in Steps, NEW list \in ClipLists, NEW reqs \in Seq(Requests),
         SetClips(list, u, reqs)
  PROVE  Refreshed(list, u, Range(reqs))
<1>1. RecordedOK BY DEF PageOK
<1>2. /\ clips' = list /\ ui' = OnClips(u, list, shown, top) /\ ui' \in Steps /\ Beside(ui', u)
      /\ pending' \in Seq(Requests) /\ Asks' \subseteq Range(reqs) \cup {Preview}
      /\ Range(reqs) \subseteq Asks'
      /\ ui'.ready = u.ready \/ Preview \in Asks'
  BY <1>1, SetClipsEffect
<1>. DEFINE v == OnClips(u, list, shown, top)
<1>3. /\ shown = Metadata => v.edits = Texts(list) /\ v.typed = {}
      /\ shown \in {Metadata, Choice} /\ list # <<>> => v.edits \in [Clips -> Nat]
      /\ shown = Choice /\ list # <<>> /\ ~Historical(shown, top) =>
            /\ v.edits = Texts(list) /\ v.selected = {c \in Clips : list[c].sel}
            /\ v.typed = {} /\ ~v.toggled
      /\ shown # Metadata /\ (shown # Choice \/ list = <<>>) => v = u
  BY <1>1, ClipsEffect
<1>4. ui' = v BY <1>2
<1>. HIDE DEF v
<1>. QED BY <1>2, <1>3, <1>4 DEF Refreshed, Beside

LEMMA ShowDisplays ==
  ASSUME PageOK, NEW reqs \in Seq(Requests), NEW gate, NEW end, Show(gate, end, reqs)
  PROVE  Displayed(gate, end, Range(reqs))
<1>1. ui \in Steps /\ clips \in ClipLists /\ RecordedOK BY DEF PageOK
<1>. QED BY <1>1, ShowEffect DEF Displayed

StaleIn(S) == \E q \in S : Answered(q) /\ q.reply # rows

LEMMA StaleAsSet ==
  ASSUME NEW reqs
  PROVE  Stale(reqs) <=> StaleIn(Range(reqs))
BY DEF Stale, StaleIn, Answered, LoadOf, Range

LEMMA WithPathOf ==
  ASSUME clips \in ClipLists, NEW c \in Clips
  PROVE  /\ WithPath(c) \in ClipLists /\ (WithPath(c) = <<>>) = (clips = <<>>)
         /\ clips # <<>> => /\ WithPath(c) \in [Clips -> Row]
                            /\ \A d \in Clips : /\ WithPath(c)[d].text = clips[d].text
                                                /\ WithPath(c)[d].sel = clips[d].sel
                                                /\ WithPath(c)[d].path = (clips[d].path \/ d = c)
<1>1. CASE clips = <<>> BY <1>1 DEF WithPath, ClipLists
<1>2. CASE clips # <<>>
  <2>1. clips \in [Clips -> Row] BY <1>2 DEF ClipLists
  <2>2. WithPath(c) = [clips EXCEPT ![c].path = TRUE] BY <1>2 DEF WithPath
  <2>3. /\ WithPath(c) \in [Clips -> Row]
        /\ \A d \in Clips : /\ WithPath(c)[d].text = clips[d].text
                            /\ WithPath(c)[d].sel = clips[d].sel
                            /\ WithPath(c)[d].path = (clips[d].path \/ d = c)
    BY <2>1, <2>2 DEF Row
  <2>4. WithPath(c) # <<>> BY <2>3, ClipsAreThere
  <2>. QED BY <1>2, <2>3, <2>4 DEF ClipLists
<1>. QED BY <1>1, <1>2

AnswerFrame == UNCHANGED <<server, events, live, metadataProgress, recorded, count>>
SameView    == UNCHANGED <<top, shown, clips, thumbnailProgress>>

(* Nothing has come of the request, or nothing that the page is told.      *)
AnsweredInVain(i) ==
  LET r == pending[i] IN
  /\ r.kind \in {"load", "thumbnail", "advance", "choice"} /\ (r.kind # "choice" => r.reply = Refused)
  /\ Gone(i) /\ SameView /\ UNCHANGED calm /\ Alike(ui')
  /\ ui'.loading => ui.loading
  /\ r.kind = "load" /\ r.mine => ~ui'.loading
  /\ ~(r.kind = "load" /\ r.mine) => ui'.loading = ui.loading

AnsweredLoad(i) ==
  LET r == pending[i] IN
  /\ r.kind = "load" /\ r.reply \in [Clips -> Row] /\ Answered(r)
  /\ \E u : /\ Alike(u) /\ (u.loading = (ui.loading /\ ~r.mine))
            /\ Refreshed(r.reply, u, RestOf(i))
  /\ calm' = (calm /\ ~StaleIn(RestOf(i)))
  /\ UNCHANGED <<top, shown, thumbnailProgress>>

AnsweredThumbnail(i) ==
  LET r == pending[i] IN
  /\ r.kind = "thumbnail" /\ r.reply = TRUE /\ r.clip \in Clips
  /\ \E u : /\ Alike(u) /\ u.loading = ui.loading
            /\ Refreshed(WithPath(r.clip), u, RestOf(i))
  /\ calm' = (calm /\ ~(shown > Thumbnails \/ StaleIn(Asks)))
  /\ UNCHANGED <<top, shown, thumbnailProgress>>

AnsweredAdvance(i) ==
  LET r == pending[i] IN
  /\ r.kind = "advance" /\ r.reply \in {Metadata, Choice}
  /\ Displayed(r.reply, r.reply, RestOf(i))
  /\ thumbnailProgress' = "none" /\ clips' = clips
  /\ calm' = (calm /\ r.reply >= top)

AnsweredSingle(i) ==
  LET r == pending[i] IN
  /\ r.kind = "single" /\ r.clip \in Clips /\ r.reply \in {Refused} \cup Nat
  /\ Gone(i) /\ SameView
  /\ ui' \in Steps /\ ui'.generating = ui.generating /\ ui'.loading = ui.loading /\ ui'.ready = ui.ready
  /\ SameChoice
  /\ IF ~r.mine \/ r.reply = Refused \/ ui.edits = <<>> THEN SameTexts
     ELSE ui'.edits = [ui.edits EXCEPT ![r.clip] = r.reply] /\ ui'.typed = ui.typed \ {r.clip}
  /\ calm' = (calm /\ r.mine /\ ~StaleIn(Asks)
                   /\ ~\E q \in RestOf(i) : q.kind = "single" /\ q.clip = r.clip)

AnswerTaken(i) ==
  /\ pending[i].reply # Null /\ AnswerFrame
  /\ \/ AnsweredInVain(i) \/ AnsweredLoad(i) \/ AnsweredThumbnail(i) \/ AnsweredAdvance(i) \/ AnsweredSingle(i)

LEMMA NullRefused ==
  /\ Null # Refused /\ Null \notin Nat /\ Refused \notin Nat
  /\ Null \notin [Clips -> Row] /\ Refused \notin [Clips -> Row] /\ TRUE # Refused
  /\ Null \notin {TRUE, Metadata, Choice, Confirm} /\ Refused \notin {TRUE, Metadata, Choice, Confirm}
<1>1. Null # Refused BY NoAnswer
<1>2. \A x \in {Null, Refused} : x \notin Nat /\ x \notin BOOLEAN /\ x \notin [Clips -> Row]
  BY NoAnswer
<1>3. TRUE \in BOOLEAN OBVIOUS
<1>4. Null # TRUE /\ Refused # TRUE BY <1>2, <1>3, Zenon
<1>5. Metadata \in Nat /\ Choice \in Nat /\ Confirm \in Nat BY DEF Metadata, Choice, Confirm
<1>6. \A x \in {Null, Refused} : x # Metadata /\ x # Choice /\ x # Confirm BY <1>2, <1>5
<1>. QED BY <1>1, <1>2, <1>4, <1>6, Zenon

LEMMA AnswerEffect ==
  ASSUME ServerOK, PageOK, RestOK, NEW i \in DOMAIN pending, Answer(i)
  PROVE  AnswerTaken(i)
<1>. DEFINE r == pending[i]
<1>0. /\ r.reply # Null /\ AnswerFrame /\ r \in Requests /\ Formed(r) /\ ui \in Steps /\ clips \in ClipLists
      /\ Others(i) \in Seq(Requests) /\ Range(Others(i)) = RestOf(i)
  BY AskedFor, RequestFormed DEF PageOK, Answer, AnswerFrame
<1>1. CASE Loaded(i)
  <2>. DEFINE u == Mine(i, [ui EXCEPT !.loading = FALSE])
  <2>1. r.kind = "load" /\ UNCHANGED <<top, shown, thumbnailProgress>> BY <1>1 DEF Loaded
  <2>2. /\ Alike(u) /\ u.loading = (ui.loading /\ ~r.mine) /\ u.submitting = ui.submitting
    BY <1>0 DEF Alike, Mine, Steps, Formed
  <2>3. CASE r.reply = Refused
    <3>1. ui' = u /\ pending' = Others(i) /\ UNCHANGED <<clips, calm>> BY <1>1, <2>3 DEF Loaded
    <3>2. Gone(i) BY <3>1, OneGone
    <3>. HIDE DEF u
    <3>3. Alike(ui') /\ ui'.loading = (ui.loading /\ ~r.mine) /\ ui.loading \in BOOLEAN
      BY <1>0, <2>2, <3>1 DEF Steps
    <3>4. AnsweredInVain(i) BY <2>1, <2>3, <3>1, <3>2, <3>3 DEF AnsweredInVain, SameView
    <3>. QED BY <1>0, <3>4 DEF AnswerTaken
  <2>4. CASE r.reply # Refused
    <3>1. SetClips(r.reply, u, Others(i)) /\ calm' = (calm /\ ~Stale(Others(i))) BY <1>1, <2>4 DEF Loaded
    <3>2. r.reply \in [Clips -> Row] BY <1>0, <2>1, <2>4 DEF Formed, RepliesTo
    <3>3. r.reply \in ClipLists /\ u \in Steps BY <2>2, <3>2 DEF ClipLists, Alike
    <3>. HIDE DEF u
    <3>4. Refreshed(r.reply, u, RestOf(i)) BY <1>0, <3>1, <3>3, SetClipsRefreshes
    <3>5. calm' = (calm /\ ~StaleIn(RestOf(i))) BY <1>0, <3>1, StaleAsSet
    <3>. QED BY <1>0, <2>1, <2>2, <2>4, <3>2, <3>4, <3>5 DEF AnswerTaken, AnsweredLoad, Answered, LoadOf
  <2>. QED BY <2>3, <2>4
<1>2. CASE ThumbnailGenerated(i)
  <2>. DEFINE u == Mine(i, [ui EXCEPT !.slot = 0])
  <2>1. r.kind = "thumbnail" /\ r.clip \in Clips /\ UNCHANGED <<top, shown, thumbnailProgress>>
    <3>1. r.kind = "thumbnail" /\ UNCHANGED <<top, shown, thumbnailProgress>> BY <1>2 DEF ThumbnailGenerated
    <3>2. r.clip \in Places(r.kind) BY <1>0 DEF Formed
    <3>3. r.clip \in Clips BY <3>1, <3>2 DEF Places
    <3>. QED BY <3>1, <3>3
  <2>2. Alike(u) /\ u.loading = ui.loading
    <3>1. 0 \in 0 .. NumClips BY ReviewConstants
    <3>. QED BY <1>0, <3>1 DEF Alike, Mine, Steps
  <2>3. CASE r.reply = Refused
    <3>1. ui' = u /\ pending' = Others(i) /\ UNCHANGED <<clips, calm>> BY <1>2, <2>3 DEF ThumbnailGenerated
    <3>2. Gone(i) BY <3>1, OneGone
    <3>. HIDE DEF u
    <3>. QED BY <1>0, <2>1, <2>2, <2>3, <3>1, <3>2 DEF AnswerTaken, AnsweredInVain, SameView
  <2>4. CASE r.reply # Refused
    <3>1. SetClips(WithPath(r.clip), u, Others(i)) /\ calm' = (calm /\ ~Disturbs)
      BY <1>2, <2>4 DEF ThumbnailGenerated
    <3>2. r.reply = TRUE BY <1>0, <2>1, <2>4 DEF Formed, RepliesTo
    <3>3. WithPath(r.clip) \in ClipLists /\ u \in Steps BY <1>0, <2>1, <2>2, WithPathOf DEF Alike
    <3>. HIDE DEF u
    <3>4. Refreshed(WithPath(r.clip), u, RestOf(i)) BY <1>0, <3>1, <3>3, SetClipsRefreshes
    <3>5. Disturbs <=> shown > Thumbnails \/ StaleIn(Asks) BY StaleAsSet DEF Disturbs, Asks
    <3>6. AnsweredThumbnail(i) BY <2>1, <2>2, <3>1, <3>2, <3>4, <3>5 DEF AnsweredThumbnail
    <3>. QED BY <1>0, <3>6 DEF AnswerTaken
  <2>. QED BY <2>3, <2>4
<1>3. CASE AdvanceAnswered(i)
  <2>1. r.kind = "advance" /\ clips' = clips BY <1>3 DEF AdvanceAnswered
  <2>2. CASE r.reply = Refused
    <3>1. pending' = Others(i) /\ UNCHANGED <<top, shown, thumbnailProgress, ui, calm>>
      BY <1>3, <2>2 DEF AdvanceAnswered
    <3>2. Gone(i) BY <3>1, OneGone
    <3>. QED BY <1>0, <2>1, <2>2, <3>1, <3>2 DEF AnswerTaken, AnsweredInVain, SameView, Alike
  <2>3. CASE r.reply # Refused
    <3>1. /\ Show(r.reply, r.reply, Others(i)) /\ thumbnailProgress' = "none"
          /\ calm' = (calm /\ r.reply >= top)
      BY <1>3, <2>3 DEF AdvanceAnswered
    <3>2. r.reply \in {Metadata, Choice} BY <1>0, <2>1, <2>3 DEF Formed, RepliesTo
    <3>3. Displayed(r.reply, r.reply, RestOf(i)) BY <1>0, <3>1, ShowDisplays
    <3>. QED BY <1>0, <2>1, <3>1, <3>2, <3>3 DEF AnswerTaken, AnsweredAdvance
  <2>. QED BY <2>2, <2>3
<1>4. CASE SingleGenerated(i)
  <2>. DEFINE u == [ui EXCEPT !.slot = 0]
              e == [ui.edits EXCEPT ![r.clip] = r.reply]
              t == ui.typed \ {r.clip}
              w == [u EXCEPT !.edits = e, !.typed = t]
  <2>1. /\ r.kind = "single" /\ r.clip \in Clips /\ r.reply \in {Refused} \cup Nat /\ SameView
        /\ pending' = Others(i)
        /\ ui' = IF ~r.mine THEN ui ELSE IF r.reply = Refused \/ ui.edits = <<>> THEN u ELSE w
    <3>1. r.kind = "single" /\ SameView /\ pending' = Others(i) BY <1>4 DEF SingleGenerated, SameView
    <3>2. r.clip \in Clips
      <4>1. r.clip \in Places(r.kind) BY <1>0 DEF Formed
      <4>. QED BY <3>1, <4>1 DEF Places
    <3>3. r.reply \in {Refused} \cup Nat
      <4>1. r.reply \in {Null} \cup RepliesTo(r.kind) BY <1>0 DEF Formed
      <4>. QED BY <1>0, <3>1, <4>1 DEF RepliesTo
    <3>4. ui' = IF ~r.mine THEN ui ELSE IF r.reply = Refused \/ ui.edits = <<>> THEN u ELSE w
      <4>1. u.edits = ui.edits /\ u.typed = ui.typed BY <1>0 DEF Steps
      <4>. QED BY <1>4, <4>1 DEF SingleGenerated, Mine
    <3>. QED BY <3>1, <3>2, <3>3, <3>4
  <2>2. Gone(i) BY <2>1, OneGone
  <2>3. calm' = (calm /\ r.mine /\ ~StaleIn(Asks) /\ ~\E q \in RestOf(i) : q.kind = "single" /\ q.clip = r.clip)
    <3>1. AskedTwice(i) <=> \E q \in RestOf(i) : q.kind = "single" /\ q.clip = r.clip
      BY DEF AskedTwice, RestOf
    <3>. QED BY <1>4, <3>1, StaleAsSet DEF SingleGenerated, Asks
  <2>4. /\ u \in Steps /\ u.generating = ui.generating /\ u.loading = ui.loading /\ u.ready = ui.ready
        /\ u.selected = ui.selected /\ u.toggled = ui.toggled /\ u.edits = ui.edits /\ u.typed = ui.typed
    <3>1. 0 \in 0 .. NumClips BY ReviewConstants
    <3>. QED BY <1>0, <3>1 DEF Steps
  <2>5. ASSUME r.reply # Refused, ui.edits # <<>>
        PROVE  /\ w \in Steps /\ w.generating = ui.generating /\ w.loading = ui.loading /\ w.ready = ui.ready
               /\ w.selected = ui.selected /\ w.toggled = ui.toggled /\ w.edits = e /\ w.typed = t
    <3>1. r.reply \in Nat /\ ui.edits \in [Clips -> Nat] /\ ui.typed \in SUBSET Clips
      BY <1>0, <2>1, <2>5 DEF Steps
    <3>2. e \in [Clips -> Nat] /\ t \in SUBSET Clips BY <3>1
    <3>. HIDE DEF e, t, u
    <3>. QED BY <2>4, <3>2 DEF Steps
  <2>6. CASE ~r.mine \/ r.reply = Refused \/ ui.edits = <<>>
    <3>1. /\ ui' \in Steps /\ ui'.generating = ui.generating /\ ui'.loading = ui.loading /\ ui'.ready = ui.ready
          /\ SameChoice /\ SameTexts
      BY <1>0, <2>1, <2>4, <2>6 DEF SameChoice, SameTexts
    <3>. QED BY <1>0, <2>1, <2>2, <2>3, <2>6, <3>1 DEF AnswerTaken, AnsweredSingle
  <2>7. CASE r.mine /\ r.reply # Refused /\ ui.edits # <<>>
    <3>1. ui' = w BY <2>1, <2>7
    <3>. HIDE DEF w
    <3>2. /\ ui' \in Steps /\ ui'.generating = ui.generating /\ ui'.loading = ui.loading /\ ui'.ready = ui.ready
          /\ SameChoice /\ ui'.edits = e /\ ui'.typed = t
      BY <2>5, <2>7, <3>1 DEF SameChoice
    <3>. QED BY <1>0, <2>1, <2>2, <2>3, <2>7, <3>2 DEF AnswerTaken, AnsweredSingle
  <2>. QED BY <2>6, <2>7
<1>5. CASE ChoiceAnswered(i)
  <2>1. /\ r.kind = "choice" /\ ui' = Mine(i, [ui EXCEPT !.submitting = FALSE]) /\ pending' = Others(i)
        /\ SameView /\ UNCHANGED calm
    BY <1>5 DEF ChoiceAnswered, SameView
  <2>2. Alike(ui') /\ ui'.loading = ui.loading BY <1>0, <2>1 DEF Alike, Mine, Steps
  <2>3. Gone(i) BY <2>1, OneGone
  <2>. QED BY <1>0, <2>1, <2>2, <2>3 DEF AnswerTaken, AnsweredInVain
<1>. QED BY <1>1, <1>2, <1>3, <1>4, <1>5 DEF Answer
-----------------------------------------------------------------------------
(* An event is received.                                                   *)

LEMMA EventTaken ==
  ASSUME events \in Seq(Events), events # <<>>, events' = Tail(events)
  PROVE  /\ events' \in Seq(Events) /\ Head(events) \in Events /\ EventForm(Head(events))
         /\ Range(events) = {Head(events)} \cup Range(events')
         /\ Len(events) \in Nat \ {0} /\ DOMAIN events = 1 .. Len(events) /\ Head(events) = events[1]
         /\ DOMAIN events' = 1 .. Len(events) - 1
         /\ \A k \in DOMAIN events' : k + 1 \in DOMAIN events /\ events'[k] = events[k + 1]
<1>1. /\ events' \in Seq(Events) /\ Head(events) \in Events
      /\ Range(events) = {Head(events)} \cup Range(events')
  BY RangeHeadTail
<1>2. EventForm(Head(events)) BY <1>1, EventFormed
<1>3. /\ Len(events) \in Nat \ {0} /\ DOMAIN events = 1 .. Len(events) /\ Head(events) = events[1]
      /\ DOMAIN events' = 1 .. Len(events) - 1
      /\ \A k \in DOMAIN events' : k + 1 \in DOMAIN events /\ events'[k] = events[k + 1]
  OBVIOUS
<1>. QED BY <1>1, <1>2, <1>3

HeardState(e) ==
  /\ e.type = "state" /\ e.to \in Thumbnails .. Confirm
  /\ UNCHANGED <<clips, thumbnailProgress, metadataProgress, calm>>
  /\ IF e.to = top THEN UNCHANGED <<top, shown, ui, pending>> ELSE Displayed(e.to, e.to, Asks)

HeardThumbnail(e) ==
  /\ e.type = "thumbnail" /\ e.status \in {"generating", "done", "error", "batch_done"}
  /\ thumbnailProgress' = e.status /\ UNCHANGED <<top, shown, metadataProgress>>
  /\ \/ /\ e.status = "done" /\ e.clip \in Clips /\ Refreshed(WithPath(e.clip), ui, Asks)
        /\ calm' = (calm /\ ~(shown > Thumbnails \/ StaleIn(Asks)))
     \/ /\ e.status # "done" /\ UNCHANGED <<clips, pending, calm>>
        /\ ui' \in Steps /\ SameTexts /\ SameChoice /\ ui'.loading = ui.loading /\ ui'.ready = ui.ready
        /\ ui'.generating => ui.generating
                             /\ ~(e.status = "batch_done" /\ thumbnailProgress # "batch_done" /\ shown = Thumbnails)

HeardMetadata(e) ==
  /\ e.type = "metadata" /\ e.status \in {"generating", "done", "error"}
  /\ metadataProgress' = e.status /\ UNCHANGED <<top, shown, clips, thumbnailProgress, calm>>
  /\ IF e.status = "done" /\ metadataProgress # "done" /\ shown = Metadata
     THEN /\ ui' \in Steps /\ SameTexts /\ SameChoice
          /\ ui'.generating = ui.generating /\ ui'.loading = ui.loading
          /\ pending' \in Seq(Requests) /\ Asks \cup {Load} \subseteq Asks' /\ Asks' \subseteq Asks \cup {Load, Preview}
          /\ ui'.ready = ui.ready \/ Preview \in Asks'
     ELSE UNCHANGED <<ui, pending>>

Heard ==
  /\ live /\ events # <<>> /\ events' = Tail(events) /\ UNCHANGED <<server, live, recorded, count>>
  /\ HeardState(Head(events)) \/ HeardThumbnail(Head(events)) \/ HeardMetadata(Head(events))

LEMMA DeliverEffect == ASSUME ServerOK, PageOK, RestOK, Deliver PROVE Heard
<1>. DEFINE e == Head(events)
<1>0. /\ live /\ events # <<>> /\ events' = Tail(events) /\ UNCHANGED <<server, live, recorded, count>>
      /\ EventForm(e) /\ ui \in Steps /\ clips \in ClipLists /\ pending \in Seq(Requests)
  BY EventTaken DEF Deliver, ServerOK, PageOK
<1>. HIDE DEF e
<1>1. CASE StateChanged(e)
  <2>1. e.type = "state" /\ e.to \in Thumbnails .. Confirm BY <1>0, <1>1 DEF EventForm, StateChanged
  <2>2. UNCHANGED <<clips, thumbnailProgress, metadataProgress, calm>> BY <1>1 DEF StateChanged
  <2>3. e.to # top => Displayed(e.to, e.to, Asks) BY <1>0, <1>1, ShowDisplays DEF StateChanged, Asks
  <2>4. HeardState(e) BY <1>1, <2>1, <2>2, <2>3 DEF HeardState, StateChanged
  <2>. QED BY <1>0, <2>4 DEF Heard, e
<1>2. CASE ThumbnailEvent(e)
  <2>1. /\ e.type = "thumbnail" /\ thumbnailProgress' = e.status /\ UNCHANGED <<top, shown, metadataProgress>>
        /\ e.status \in {"generating", "done", "error", "batch_done"}
        /\ e.status = "done" => e.clip \in Clips
    BY <1>0, <1>2 DEF EventForm, ThumbnailEvent
  <2>2. CASE e.status = "done"
    <3>1. SetClips(WithPath(e.clip), ui, pending) /\ calm' = (calm /\ ~Disturbs)
      BY <1>2, <2>2 DEF ThumbnailEvent
    <3>2. WithPath(e.clip) \in ClipLists BY <1>0, <2>1, <2>2, WithPathOf
    <3>3. Refreshed(WithPath(e.clip), ui, Asks) BY <1>0, <3>1, <3>2, SetClipsRefreshes DEF Asks
    <3>4. Disturbs <=> shown > Thumbnails \/ StaleIn(Asks) BY StaleAsSet DEF Disturbs, Asks
    <3>5. HeardThumbnail(e) BY <2>1, <2>2, <3>1, <3>3, <3>4 DEF HeardThumbnail
    <3>. QED BY <1>0, <3>5 DEF Heard, e
  <2>3. CASE e.status # "done"
    <3>. DEFINE done == e.status = "batch_done" /\ thumbnailProgress # "batch_done" /\ shown = Thumbnails
    <3>1. /\ ui' = IF done THEN [ui EXCEPT !.generating = FALSE] ELSE ui
          /\ UNCHANGED <<clips, pending, calm>>
      BY <1>2, <2>3 DEF ThumbnailEvent
    <3>2. /\ ui' \in Steps /\ SameTexts /\ SameChoice /\ ui'.loading = ui.loading /\ ui'.ready = ui.ready
          /\ ui'.generating => ui.generating /\ ~done
      BY <1>0, <3>1 DEF Steps, SameTexts, SameChoice
    <3>3. HeardThumbnail(e) BY <2>1, <2>3, <3>1, <3>2 DEF HeardThumbnail
    <3>. QED BY <1>0, <3>3 DEF Heard, e
  <2>. QED BY <2>2, <2>3
<1>3. CASE MetadataEvent(e)
  <2>. DEFINE done == e.status = "done" /\ metadataProgress # "done" /\ shown = Metadata
              a == DoneAsks(ui, clips)
              v == OnDone(ui, clips)
  <2>1. /\ e.type = "metadata" /\ e.status \in {"generating", "done", "error"}
        /\ metadataProgress' = e.status /\ UNCHANGED <<top, shown, clips, thumbnailProgress, calm>>
        /\ ui' = IF done THEN v ELSE ui
        /\ pending' = IF done THEN pending \o a ELSE pending
    BY <1>0, <1>3 DEF EventForm, MetadataEvent
  <2>2. /\ v \in Steps /\ Beside(v, ui) /\ Renders(v, ui, a)
        /\ v.edits = ui.edits /\ v.typed = ui.typed /\ v.selected = ui.selected /\ v.toggled = ui.toggled
        /\ Load \in Range(a)
    BY <1>0, DoneEffect
  <2>. HIDE DEF a, v
  <2>3. CASE done
    <3>1. a \in Seq(Requests) /\ Range(a) \subseteq {Load, Preview} BY <2>2 DEF Renders
    <3>2. pending \o a \in Seq(Requests) /\ Range(pending \o a) = Range(pending) \cup Range(a)
      BY <1>0, <3>1, RangeConcat
    <3>3. pending' \in Seq(Requests) /\ Asks' = Asks \cup Range(a) BY <2>1, <2>3, <3>2 DEF Asks
    <3>4. /\ ui' \in Steps /\ SameTexts /\ SameChoice
          /\ ui'.generating = ui.generating /\ ui'.loading = ui.loading
          /\ ui'.ready = ui.ready \/ Preview \in Asks'
      BY <2>1, <2>2, <2>3, <3>3 DEF Renders, Beside, SameTexts, SameChoice
    <3>5. HeardMetadata(e) BY <2>1, <2>2, <2>3, <3>1, <3>3, <3>4 DEF HeardMetadata
    <3>. QED BY <1>0, <3>5 DEF Heard, e
  <2>4. CASE ~done
    <3>1. HeardMetadata(e) BY <2>1, <2>4 DEF HeardMetadata
    <3>. QED BY <1>0, <3>1 DEF Heard, e
  <2>. QED BY <2>3, <2>4
<1>. QED BY <1>1, <1>2, <1>3 DEF Deliver, e

Back ==
  /\ shown > Thumbnails /\ Displayed(shown - 1, top, Asks)
  /\ UNCHANGED <<server, events, live, clips, thumbnailProgress, metadataProgress, recorded, calm>>
  /\ count' \in [acts : Nat, texts : Nat]

LEMMA BackEffect == ASSUME PageOK, RestOK, NavigateBack PROVE Back
<1>1. pending \in Seq(Requests) BY DEF PageOK
<1>2. /\ shown > Thumbnails /\ Act /\ Show(shown - 1, top, pending)
      /\ UNCHANGED <<server, events, live, clips, thumbnailProgress, metadataProgress, recorded, calm>>
  BY DEF NavigateBack
<1>3. Displayed(shown - 1, top, Asks) BY <1>1, <1>2, ShowDisplays DEF Asks
<1>. QED BY <1>2, <1>3, Acted DEF Back
-----------------------------------------------------------------------------
(* The types, for the steps of the page.                                   *)

LEMMA EmptyPending == <<>> \in Seq(Requests) /\ <<>> \in Seq(Generators) /\ <<>> \in Seq(Events) /\ Range(<<>>) = {}
BY DEF Range

LEMMA RefreshedPage ==
  ASSUME PageOK, NEW list, NEW u \in Steps, u.ready = ui.ready, NEW S, Refreshed(list, u, S),
         \A r \in Asks : OwnPreview(r) => r \in S,
         thumbnailProgress' \in {"none", "generating", "done", "error", "batch_done"},
         UNCHANGED <<top, shown, metadataProgress, recorded>>
  PROVE  PageOK'
<1>1. EditsThere' BY DEF EditsThere, Refreshed
<1>2. ReadyComes' BY LoadMade DEF PageOK, ReadyComes, Refreshed, OwnPreview
<1>3. RecordedOK' BY DEF PageOK, RecordedOK
<1>. QED BY <1>1, <1>2, <1>3 DEF PageOK, Refreshed

LEMMA DisplayedPage ==
  ASSUME PageOK, NEW end \in 0 .. Confirm, NEW gate \in 0 .. end, NEW S, Displayed(gate, end, S),
         \A r \in Asks : OwnPreview(r) => r \in S,
         thumbnailProgress' \in {"none", "generating", "done", "error", "batch_done"},
         UNCHANGED <<clips, metadataProgress, recorded>>
  PROVE  PageOK'
<1>1. EditsThere' BY DEF PageOK, EditsThere, Displayed
<1>2. ReadyComes' BY LoadMade DEF PageOK, ReadyComes, Displayed, OwnPreview
<1>3. RecordedOK' BY DEF PageOK, RecordedOK
<1>. QED BY <1>1, <1>2, <1>3 DEF PageOK, Displayed

LEMMA AnswerTypes ==
  ASSUME ServerOK, PageOK, RestOK, NEW i \in DOMAIN pending, AnswerTaken(i)
  PROVE  TypeOK'
<1>. DEFINE r == pending[i]
<1>0. /\ AnswerFrame /\ ui \in Steps /\ clips \in ClipLists /\ calm \in BOOLEAN
      /\ Asks = RestOf(i) \cup {r}
      /\ thumbnailProgress \in {"none", "generating", "done", "error", "batch_done"}
  BY AskedFor DEF AnswerTaken, PageOK, RestOK
<1>1. ServerOK' BY <1>0, SameServer DEF AnswerFrame
<1>2. live' = live /\ UNCHANGED count BY <1>0 DEF AnswerFrame
<1>3. r.kind # "preview" => \A q \in Asks : OwnPreview(q) => q \in RestOf(i) BY <1>0 DEF OwnPreview
<1>4. CASE AnsweredInVain(i)
  <2>1. /\ r.kind # "preview" /\ Gone(i) /\ SameView /\ UNCHANGED calm /\ Alike(ui')
    BY <1>4 DEF AnsweredInVain
  <2>2. StoreFrame BY <1>0, <2>1 DEF StoreFrame, AnswerFrame, SameView
  <2>3. PageOK' BY <2>1, <2>2, PageServed DEF Gone, Alike, OwnPreview
  <2>4. RestOK' BY <1>0, <1>2, <2>1 DEF RestOK
  <2>. QED BY <1>1, <2>3, <2>4, TypesMade
<1>5. CASE AnsweredLoad(i)
  <2>1. PICK u : Alike(u) /\ Refreshed(r.reply, u, RestOf(i)) BY <1>5 DEF AnsweredLoad
  <2>2. r.kind # "preview" /\ UNCHANGED <<top, shown, thumbnailProgress>> /\ calm' \in BOOLEAN
    BY <1>0, <1>5 DEF AnsweredLoad
  <2>3. PageOK' BY <1>0, <1>3, <2>1, <2>2, RefreshedPage DEF Alike, AnswerFrame
  <2>4. RestOK' BY <1>2, <2>2 DEF RestOK
  <2>. QED BY <1>1, <2>3, <2>4, TypesMade
<1>6. CASE AnsweredThumbnail(i)
  <2>1. PICK u : Alike(u) /\ Refreshed(WithPath(r.clip), u, RestOf(i)) BY <1>6 DEF AnsweredThumbnail
  <2>2. r.kind # "preview" /\ UNCHANGED <<top, shown, thumbnailProgress>> /\ calm' \in BOOLEAN
    BY <1>0, <1>6 DEF AnsweredThumbnail
  <2>3. PageOK' BY <1>0, <1>3, <2>1, <2>2, RefreshedPage DEF Alike, AnswerFrame
  <2>4. RestOK' BY <1>2, <2>2 DEF RestOK
  <2>. QED BY <1>1, <2>3, <2>4, TypesMade
<1>7. CASE AnsweredAdvance(i)
  <2>1. /\ r.reply \in {Metadata, Choice} /\ Displayed(r.reply, r.reply, RestOf(i)) /\ r.kind # "preview"
        /\ thumbnailProgress' = "none" /\ clips' = clips /\ calm' \in BOOLEAN
    BY <1>0, <1>7 DEF AnsweredAdvance
  <2>2. r.reply \in 0 .. Confirm /\ r.reply \in 0 .. r.reply BY <2>1 DEF Metadata, Choice, Confirm
  <2>3. PageOK' BY <1>0, <1>3, <2>1, <2>2, DisplayedPage DEF AnswerFrame
  <2>4. RestOK' BY <1>2, <2>1 DEF RestOK
  <2>. QED BY <1>1, <2>3, <2>4, TypesMade
<1>8. CASE AnsweredSingle(i)
  <2>1. /\ r.kind # "preview" /\ r.clip \in Clips /\ r.reply \in {Refused} \cup Nat /\ Gone(i) /\ SameView
        /\ ui' \in Steps /\ ui'.ready = ui.ready /\ calm' \in BOOLEAN
    BY <1>0, <1>8 DEF AnsweredSingle
  <2>2. EditsThere'
    <3>1. UNCHANGED <<shown, clips>> BY <2>1 DEF SameView
    <3>2. CASE ui'.edits = ui.edits BY <3>1, <3>2 DEF PageOK, EditsThere
    <3>3. CASE r.reply # Refused /\ ui'.edits = [ui.edits EXCEPT ![r.clip] = r.reply]
      BY <2>1, <3>1, <3>3 DEF PageOK, EditsThere
    <3>. QED BY <1>8, <3>2, <3>3 DEF AnsweredSingle, SameTexts
  <2>3. ReadyComes' BY <2>1, PreviewKept DEF Gone, OwnPreview
  <2>4. RecordedOK' BY <1>0 DEF PageOK, RecordedOK, AnswerFrame
  <2>5. PageOK' BY <1>0, <2>1, <2>2, <2>3, <2>4 DEF PageOK, AnswerFrame, SameView, Gone
  <2>6. RestOK' BY <1>2, <2>1 DEF RestOK
  <2>. QED BY <1>1, <2>5, <2>6, TypesMade
<1>. QED BY <1>4, <1>5, <1>6, <1>7, <1>8 DEF AnswerTaken

LEMMA HeardTypes == ASSUME ServerOK, PageOK, RestOK, Heard PROVE TypeOK'
<1>. DEFINE e == Head(events)
<1>0. /\ events \in Seq(Events) /\ events' \in Seq(Events) /\ ui \in Steps /\ calm \in BOOLEAN
      /\ UNCHANGED <<server, live, recorded, count>> /\ pending \in Seq(Requests)
      /\ thumbnailProgress \in {"none", "generating", "done", "error", "batch_done"}
  BY EventTaken DEF Heard, ServerOK, PageOK, RestOK
<1>1. ServerOK' BY <1>0 DEF ServerOK, Opened, server
<1>2. RecordedOK' BY <1>0 DEF PageOK, RecordedOK
<1>3. CASE HeardState(e)
  <2>1. PageOK'
    <3>1. CASE e.to = top
      <4>1. UNCHANGED <<top, shown, ui, pending, clips, thumbnailProgress, metadataProgress>>
        BY <1>3, <3>1 DEF HeardState
      <4>. QED BY <1>2, <4>1 DEF PageOK, EditsThere, ReadyComes, Asks
    <3>2. CASE e.to # top
      <4>1. /\ Displayed(e.to, e.to, Asks) /\ e.to \in 0 .. Confirm /\ e.to \in 0 .. e.to
            /\ UNCHANGED <<clips, thumbnailProgress, metadataProgress>>
        BY <1>3, <3>2 DEF HeardState, Thumbnails, Confirm
      <4>. QED BY <1>0, <4>1, DisplayedPage
    <3>. QED BY <3>1, <3>2
  <2>2. RestOK' BY <1>0, <1>3 DEF HeardState, RestOK
  <2>. QED BY <1>1, <2>1, <2>2, TypesMade
<1>4. CASE HeardThumbnail(e)
  <2>1. PageOK'
    <3>1. CASE e.status = "done"
      <4>1. /\ Refreshed(WithPath(e.clip), ui, Asks) /\ UNCHANGED <<top, shown, metadataProgress>>
            /\ thumbnailProgress' = "done"
        BY <1>4, <3>1 DEF HeardThumbnail
      <4>. QED BY <1>0, <4>1, RefreshedPage
    <3>2. CASE e.status # "done"
      <4>1. /\ UNCHANGED <<clips, pending, top, shown, metadataProgress>>
            /\ thumbnailProgress' \in {"generating", "error", "batch_done"}
            /\ ui' \in Steps /\ SameTexts /\ ui'.ready = ui.ready
        BY <1>4, <3>2 DEF HeardThumbnail
      <4>. QED BY <1>2, <4>1 DEF PageOK, EditsThere, ReadyComes, Asks, SameTexts
    <3>. QED BY <3>1, <3>2
  <2>2. RestOK' BY <1>0, <1>4 DEF HeardThumbnail, RestOK
  <2>. QED BY <1>1, <2>1, <2>2, TypesMade
<1>5. CASE HeardMetadata(e)
  <2>1. /\ metadataProgress' \in {"generating", "done", "error"}
        /\ UNCHANGED <<top, shown, clips, thumbnailProgress, calm>>
        /\ ui' \in Steps /\ SameTexts /\ pending' \in Seq(Requests) /\ Asks \subseteq Asks'
        /\ ui'.ready = ui.ready \/ Preview \in Asks'
    BY <1>0, <1>5 DEF HeardMetadata, SameTexts, Asks
  <2>2. ReadyComes' BY <2>1, LoadMade DEF PageOK, ReadyComes, OwnPreview
  <2>3. PageOK' BY <1>2, <2>1, <2>2 DEF PageOK, EditsThere, SameTexts
  <2>4. RestOK' BY <1>0, <2>1 DEF RestOK
  <2>. QED BY <1>1, <2>3, <2>4, TypesMade
<1>. QED BY <1>3, <1>4, <1>5 DEF Heard

LEMMA BackTypes == ASSUME ServerOK, PageOK, RestOK, Back PROVE TypeOK'
<1>1. ServerOK' BY SameServer DEF Back
<1>2. top \in 0 .. Confirm /\ shown - 1 \in 0 .. top BY DEF PageOK, Back, Thumbnails, Confirm
<1>3. PageOK' BY <1>2, DisplayedPage DEF Back, PageOK
<1>4. RestOK' BY DEF Back, RestOK
<1>. QED BY <1>1, <1>3, <1>4, TypesMade

LEMMA LeftTypes == ASSUME ServerOK, PageOK, RestOK, Resubmit PROVE TypeOK' /\ ~live'
<1>1. /\ state' = 0 /\ gens' = <<>> /\ events' = <<>> /\ live' = FALSE /\ top' = 0 /\ shown' = 0 /\ clips' = <<>>
      /\ thumbnailProgress' = "none" /\ metadataProgress' = "none"
      /\ recorded' = [meta |-> FALSE, choice |-> Null]
      /\ ui' = Fresh /\ pending' = <<>> /\ UNCHANGED <<rows, calm>> /\ Act
  BY DEF Resubmit
<1>2. ServerOK' BY <1>1, EmptyPending DEF ServerOK, Opened, Confirm
<1>3. EditsThere' /\ ReadyComes' BY <1>1, FreshStep DEF EditsThere, ReadyComes
<1>4. RecordedOK' BY <1>1 DEF RecordedOK
<1>5. PageOK' BY <1>1, <1>3, <1>4, FreshStep, EmptyPending DEF PageOK, Confirm, ClipLists
<1>6. count' \in [acts : Nat, texts : Nat] BY <1>1, Acted
<1>7. RestOK' BY <1>1, <1>6 DEF RestOK
<1>. QED BY <1>1, <1>2, <1>5, <1>7, TypesMade

LEMMA LostTypes == ASSUME ServerOK, PageOK, RestOK, StreamLost PROVE TypeOK' /\ ~live'
<1>1. live' = FALSE /\ events' = <<>> /\ UNCHANGED <<server, store, ui, pending, calm>> /\ Act BY DEF StreamLost
<1>2. ServerOK' BY <1>1, EmptyPending DEF ServerOK, Opened, server
<1>3. PageOK' BY <1>1 DEF PageOK, store, RecordedOK, EditsThere, ReadyComes, Asks
<1>4. RestOK' BY <1>1, Acted DEF RestOK
<1>. QED BY <1>1, <1>2, <1>3, <1>4, TypesMade
-----------------------------------------------------------------------------
(* Every step is one of these.                                             *)

Moves ==
  \/ UNCHANGED <<server, events, live, store, ui, pending, calm>>
  \/ ActEffect \/ Back \/ Resubmit \/ StreamLost \/ Heard
  \/ \E i \in DOMAIN gens : ThumbnailStep(i) \/ MetadataStep(i)
  \/ \E i \in DOMAIN pending : Served(i) \/ InVain(i) \/ AnswerTaken(i)

LEMMA StepMoves ==
  ASSUME TypeOK, [Next]_vars
  PROVE  Moves /\ TypeOK' /\ ServerOK /\ PageOK /\ RestOK
<1>0. ServerOK /\ PageOK /\ RestOK BY TypesSplit
<1>1. CASE UNCHANGED vars
  <2>1. UNCHANGED <<server, events, live, store, ui, pending, count, calm>> BY <1>1 DEF vars
  <2>2. ServerOK' /\ PageOK' /\ RestOK'
    BY <1>0, <2>1 DEF ServerOK, PageOK, RestOK, server, store, Opened, RecordedOK, EditsThere, ReadyComes, Asks
  <2>. QED BY <1>0, <2>1, <2>2, TypesMade DEF Moves
<1>2. CASE UserAct BY <1>0, <1>2, UserActs, UserActTypes DEF Moves
<1>3. CASE NavigateBack BY <1>0, <1>3, BackEffect, BackTypes DEF Moves
<1>4. CASE Resubmit BY <1>0, <1>4, LeftTypes DEF Moves
<1>5. CASE StreamLost BY <1>0, <1>5, LostTypes DEF Moves
<1>6. CASE Deliver BY <1>0, <1>6, DeliverEffect, HeardTypes DEF Moves
<1>7. CASE \E i \in DOMAIN gens : ThumbnailStep(i) \/ MetadataStep(i) BY <1>0, <1>7, GeneratorTypes DEF Moves
<1>8. ASSUME NEW i \in DOMAIN pending, Serve(i) PROVE Moves /\ TypeOK'
  BY <1>0, <1>8, ServeEffect, ServedTypes DEF Moves
<1>9. ASSUME NEW i \in DOMAIN pending, RequestFails(i) PROVE Moves /\ TypeOK'
  BY <1>0, <1>9, FailsInVain, InVainTypes DEF Moves
<1>10. ASSUME NEW i \in DOMAIN pending, Answer(i) PROVE Moves /\ TypeOK'
  BY <1>0, <1>10, AnswerEffect, AnswerTypes DEF Moves
<1>11. Next => \/ UserAct \/ NavigateBack \/ Resubmit \/ StreamLost \/ Deliver
               \/ \E i \in DOMAIN gens : ThumbnailStep(i) \/ MetadataStep(i)
               \/ \E i \in DOMAIN pending : Serve(i) \/ RequestFails(i) \/ Answer(i)
  BY DEF Next, UserAct
<1>. QED BY <1>0, <1>1, <1>2, <1>3, <1>4, <1>5, <1>6, <1>7, <1>8, <1>9, <1>10, <1>11

LEMMA StepsTypesFirst == ASSUME Init PROVE TypeOK
<1>1. rows = [c \in Clips |-> [text |-> 0, path |-> FALSE, sel |-> TRUE]] BY DEF Init
<1>2. rows \in [Clips -> Row] BY <1>1 DEF Row
<1>3. <<Load>> \in Seq(Requests)
  <2>. DEFINE l == Load
  <2>1. l \in Requests BY LoadMade
  <2>. HIDE DEF l
  <2>2. <<l>> \in Seq(Requests) BY <2>1
  <2>. QED BY <2>2 DEF l
<1>4. gens = <<>> /\ events = <<>> /\ pending = <<Load>> /\ ui = Fresh /\ clips = <<>> BY DEF Init
<1>5. \A i \in DOMAIN gens : gens[i].kind = "thumbnails" /\ gens[i].open => gens[i].at < NumClips
  <2>1. DOMAIN gens = {} BY <1>4
  <2>. QED BY <2>1
<1>6. /\ state \in 0 .. Confirm /\ top \in 0 .. Confirm /\ shown \in 0 .. top
      /\ shown \notin {Metadata, Choice}
  BY DEF Init, Thumbnails, Metadata, Choice, Confirm
<1>7. recorded \in [meta : BOOLEAN, choice : {Null} \cup Picks] /\ count \in [acts : Nat, texts : Nat]
  BY DEF Init
<1>8. thumbnailProgress = "none" /\ metadataProgress = "none" /\ live = TRUE /\ calm = TRUE BY DEF Init
<1>9. gens \in Seq(Generators) /\ events \in Seq(Events) BY <1>4, EmptyPending
<1>10. ui \in Steps /\ ui.ready BY <1>4, FreshStep
<1>. QED BY <1>2, <1>3, <1>4, <1>5, <1>6, <1>7, <1>8, <1>9, <1>10 DEF TypeOK

(* The rows, generators, events and requests of the review steps are well  *)
(* formed; the editor has a text for each clip as soon as the store has    *)
(* the clips, and waits for the previews only while a batch of its own is  *)
(* being rendered.                                                         *)
THEOREM StepsTypeCorrect == Spec => []TypeOK
<1>1. TypeOK /\ [Next]_vars => TypeOK' BY StepMoves
<1>. QED BY <1>1, StepsTypesFirst, PTL DEF Spec
-----------------------------------------------------------------------------
(* The end of the batch of thumbnails is still to come.                    *)

Typed == TypeOK /\ ServerOK /\ PageOK /\ RestOK

LEMMA PublishedKeepsEnd ==
  ASSUME ServerOK, UNCHANGED thumbnailProgress, events' = events \/ \E e \in Events : Published(e)
  PROVE  (Primed => Primed') /\ (EndComes => EndComes')
<1>1. CASE events' = events BY <1>1 DEF Primed, EndComes
<1>2. ASSUME NEW e \in Events, Published(e) PROVE (Primed => Primed') /\ (EndComes => EndComes')
  <2>1. \A k \in DOMAIN events : k \in DOMAIN events' /\ events'[k] = events[k]
    BY <1>2, PublishedEffect DEF ServerOK
  <2>. QED BY <2>1 DEF Primed, EndComes
<1>. QED BY <1>1, <1>2

LEMMA SameBatch ==
  ASSUME BatchEnds, ServerOK, UNCHANGED <<live, thumbnailProgress>>,
         shown' = Thumbnails /\ ui'.generating => shown = Thumbnails /\ ui.generating,
         \A r \in Asks : r.kind = "generate" /\ r.mine => r \in Asks' \/ ~ui'.generating,
         \A g \in Runs : g.kind = "thumbnails" => g \in Runs',
         events' = events \/ \E e \in Events : Published(e)
  PROVE  BatchEnds'
BY PublishedKeepsEnd DEF BatchEnds

LEMMA BatchThumbnails ==
  ASSUME BatchEnds, ServerOK, NEW i \in DOMAIN gens, ThumbnailStep(i)
  PROVE  BatchEnds'
<1>. DEFINE g == gens[i]
<1>. SUFFICES ASSUME shown' = Thumbnails, ui'.generating, live'
              PROVE  \/ \E r \in Asks' : r.kind = "generate" /\ r.mine
                     \/ \E h \in Runs' : h.kind = "thumbnails" /\ (Primed' \/ (h.at = 0 /\ ~h.open))
                     \/ EndComes'
  BY DEF BatchEnds
<1>0. /\ g \in Runs /\ g.kind = "thumbnails" /\ g.at \in 0 .. NumClips
      /\ UNCHANGED Behind /\ (g.open \/ g.at < NumClips => g.at + 1 \in Clips)
      /\ Runs = RunsBut(i) \cup {g} /\ events \in Seq(Events)
  BY ThumbnailStepCases, GensSplit DEF ServerOK
<1>1. live /\ shown = Thumbnails /\ ui.generating /\ thumbnailProgress' = thumbnailProgress /\ Asks' = Asks
  BY <1>0 DEF Behind, store, Asks
<1>2. CASE g.open \/ g.at < NumClips
  <2>0. \/ \E s \in {"generating", "error", "done"} :
              Published(ThumbEvent(s, g.at + 1)) /\ \E at, open : Runs' = RunsBut(i) \cup {Batch(at, open)}
        \/ ~g.open /\ g.at = NumClips
    BY ThumbnailStepCases
  <2>1. PICK s \in {"generating", "error", "done"} :
          /\ Published(ThumbEvent(s, g.at + 1)) /\ \E h \in Runs' : h.kind = "thumbnails"
    <3>1. ~(~g.open /\ g.at = NumClips) BY <1>2, ReviewConstants
    <3>2. PICK s \in {"generating", "error", "done"} :
            Published(ThumbEvent(s, g.at + 1)) /\ \E at, open : Runs' = RunsBut(i) \cup {Batch(at, open)}
      BY <2>0, <3>1
    <3>3. PICK at, open : Runs' = RunsBut(i) \cup {Batch(at, open)} BY <3>2
    <3>4. Batch(at, open).kind = "thumbnails" /\ Batch(at, open) \in Runs' BY <3>3 DEF Batch
    <3>. QED BY <3>2, <3>4
  <2>2. ThumbEvent(s, g.at + 1) \in Events BY <1>0, <1>2, EventsMade
  <2>3. \E j \in DOMAIN events' : events'[j] = ThumbEvent(s, g.at + 1)
    BY <1>0, <1>1, <2>1, <2>2, PublishedEffect
  <2>4. Primed' BY <2>3 DEF Primed, ThumbEvent
  <2>. QED BY <2>1, <2>4
<1>3. CASE ~g.open /\ g.at = NumClips
  <2>. DEFINE e == ThumbEvent("batch_done", 0)
  <2>1. Published(e) /\ Runs' = RunsBut(i)
    <3>1. \/ g.open \/ g.at < NumClips
          \/ Published(e) /\ Runs' = RunsBut(i)
      BY ThumbnailStepCases
    <3>2. ~(g.at < NumClips) BY <1>3, ReviewConstants
    <3>. QED BY <1>3, <3>1, <3>2
  <2>2. e \in Events /\ e.type = "thumbnail" /\ e.status = "batch_done" BY EventsMade DEF ThumbEvent
  <2>. HIDE DEF e
  <2>3. /\ Len(events) \in Nat /\ DOMAIN events = 1 .. Len(events) /\ DOMAIN events' = 1 .. Len(events) + 1
        /\ \A k \in DOMAIN events : k \in DOMAIN events' /\ events'[k] = events[k]
        /\ events'[Len(events) + 1] = e
    BY <1>0, <1>1, <2>1, <2>2, PublishedEffect
  <2>4. Primed => EndComes'
    <3>1. CASE thumbnailProgress # "batch_done" BY <1>1, <2>2, <2>3, <3>1 DEF EndComes
    <3>2. ASSUME NEW j \in DOMAIN events, events[j].type = "thumbnail", events[j].status # "batch_done"
          PROVE  EndComes'
      <4>1. j < Len(events) + 1 /\ j \in DOMAIN events' /\ Len(events) + 1 \in DOMAIN events' BY <2>3
      <4>2. events'[j] = events[j] BY <2>3
      <4>. QED BY <2>2, <2>3, <3>2, <4>1, <4>2 DEF EndComes
    <3>. QED BY <3>1, <3>2 DEF Primed
  <2>5. (Primed => Primed') /\ (EndComes => EndComes')
    BY <1>1, <2>1, <2>2, PublishedKeepsEnd
  <2>6. g.at # 0 BY <1>3, ReviewConstants
  <2>. QED BY <1>0, <1>1, <2>1, <2>4, <2>5, <2>6 DEF BatchEnds
<1>. QED BY <1>0, <1>2, <1>3, ReviewConstants

LEMMA BatchServed ==
  ASSUME BatchEnds, Typed, NEW i \in DOMAIN pending, Served(i) \/ InVain(i)
  PROVE  BatchEnds'
<1>. DEFINE r == pending[i]
<1>0. Asks = RestOf(i) \cup {r} /\ StoreFrame BY AskedFor DEF Typed, PageOK, Served, InVain
<1>1. CASE ServedGenerate(i)
  <2>1. Batch(0, FALSE) \in Runs' /\ Batch(0, FALSE).kind = "thumbnails" /\ Batch(0, FALSE).at = 0
        /\ ~Batch(0, FALSE).open
    BY <1>1 DEF ServedGenerate, Batch
  <2>. QED BY <2>1 DEF BatchEnds
<1>2. CASE ~ServedGenerate(i)
  <2>1. /\ RestOf(i) \subseteq Asks'
        /\ ui'.generating => ui.generating /\ ~(r.kind = "generate" /\ r.mine)
    BY <1>2 DEF Served, ServedLoad, ServedThumbnail, ServedAdvance, ServedRegenerate, ServedSingle,
                ServedMetadata, ServedChoice, InVain, TakenUp, WritesOn, RepliedWith, Gone, Told
  <2>2. \A g \in Runs : g.kind = "thumbnails" => g \in Runs'
    BY <1>2 DEF Served, ServedLoad, ServedThumbnail, ServedAdvance, ServedRegenerate, ServedSingle,
                ServedMetadata, ServedChoice, InVain, TakenUp, WritesOn, server, Runs
  <2>3. events' = events \/ \E e \in Events : Published(e)
    <3>1. CASE ServedAdvance(i)
      <4>1. state' \in Thumbnails .. Confirm /\ Published(StateEvent(state'))
        BY <3>1 DEF ServedAdvance, Thumbnails, Metadata, Confirm
      <4>. QED BY <4>1, EventsMade
    <3>2. CASE ServedMetadata(i) \/ ServedChoice(i)
      <4>1. PICK gate \in Thumbnails .. Confirm : Published(StateEvent(gate))
        <5>1. Choice \in Thumbnails .. Confirm /\ Confirm \in Thumbnails .. Confirm
          BY DEF Thumbnails, Choice, Confirm
        <5>. QED BY <3>2, <5>1 DEF ServedMetadata, ServedChoice
      <4>. QED BY <4>1, EventsMade
    <3>. QED BY <1>2, <3>1, <3>2 DEF Served, ServedLoad, ServedThumbnail, ServedRegenerate, ServedSingle,
                                     InVain, TakenUp, WritesOn
  <2>. QED BY <1>0, <2>1, <2>2, <2>3, SameBatch DEF StoreFrame, Typed
<1>. QED BY <1>1, <1>2

LEMMA BatchAnswered ==
  ASSUME BatchEnds, Typed, NEW i \in DOMAIN pending, AnswerTaken(i)
  PROVE  BatchEnds'
<1>. DEFINE r == pending[i]
<1>0. Asks = RestOf(i) \cup {r} /\ AnswerFrame BY AskedFor DEF Typed, PageOK, AnswerTaken
<1>1. CASE AnsweredAdvance(i)
  <2>1. shown' # Thumbnails BY <1>1 DEF AnsweredAdvance, Displayed, Thumbnails, Metadata, Choice
  <2>. QED BY <2>1 DEF BatchEnds
<1>2. CASE ~AnsweredAdvance(i)
  <2>1. /\ RestOf(i) \subseteq Asks' /\ r.kind # "generate" /\ ui'.generating = ui.generating
        /\ UNCHANGED <<shown, thumbnailProgress>>
    BY <1>2 DEF AnswerTaken, AnsweredInVain, AnsweredLoad, AnsweredThumbnail, AnsweredSingle,
                Refreshed, Gone, Alike, SameView
  <2>. QED BY <1>0, <2>1, SameBatch DEF AnswerFrame, server, Runs, Typed
<1>. QED BY <1>1, <1>2

LEMMA BatchHeard == ASSUME BatchEnds, Typed, Heard PROVE BatchEnds'
<1>. DEFINE e == Head(events)
<1>. SUFFICES ASSUME shown' = Thumbnails, ui'.generating, live'
              PROVE  \/ \E r \in Asks' : r.kind = "generate" /\ r.mine
                     \/ \E h \in Runs' : h.kind = "thumbnails" /\ (Primed' \/ (h.at = 0 /\ ~h.open))
                     \/ EndComes'
  BY DEF BatchEnds
<1>0. /\ live /\ Runs' = Runs
      /\ Len(events) \in Nat \ {0} /\ DOMAIN events = 1 .. Len(events) /\ e = events[1]
      /\ DOMAIN events' = 1 .. Len(events) - 1
      /\ \A k \in DOMAIN events' : k + 1 \in DOMAIN events /\ events'[k] = events[k + 1]
  BY EventTaken DEF Heard, Typed, ServerOK, server, Runs
<1>1. \A k \in DOMAIN events : k # 1 => k - 1 \in DOMAIN events' /\ events'[k - 1] = events[k] BY <1>0
<1>. HIDE DEF e
<1>2. CASE e.type # "thumbnail"
  <2>1. /\ thumbnailProgress' = thumbnailProgress
        /\ Asks \subseteq Asks' /\ shown = Thumbnails /\ ui.generating
    <3>1. CASE HeardState(e) BY <3>1 DEF HeardState, Displayed, Asks
    <3>2. CASE HeardMetadata(e) BY <3>2 DEF HeardMetadata, Asks
    <3>. QED BY <1>2, <3>1, <3>2 DEF Heard, HeardThumbnail, e
  <2>2. Primed => Primed' BY <1>0, <1>1, <1>2, <2>1 DEF Primed
  <2>3. EndComes => EndComes'
    <3>. SUFFICES ASSUME NEW k \in DOMAIN events, events[k].type = "thumbnail", events[k].status = "batch_done",
                         \/ thumbnailProgress # "batch_done"
                         \/ \E j \in DOMAIN events :
                               j < k /\ events[j].type = "thumbnail" /\ events[j].status # "batch_done"
                  PROVE  EndComes'
      BY DEF EndComes
    <3>1. k # 1 /\ k - 1 \in DOMAIN events' /\ events'[k - 1] = events[k] BY <1>0, <1>1, <1>2
    <3>2. CASE thumbnailProgress # "batch_done" BY <2>1, <3>1, <3>2 DEF EndComes
    <3>3. ASSUME NEW j \in DOMAIN events, j < k, events[j].type = "thumbnail", events[j].status # "batch_done"
          PROVE  EndComes'
      <4>1. j - 1 \in DOMAIN events' /\ events'[j - 1] = events[j] /\ j - 1 < k - 1
        BY <1>0, <1>1, <1>2, <3>3
      <4>. QED BY <3>1, <3>3, <4>1 DEF EndComes
    <3>. QED BY <3>2, <3>3
  <2>. QED BY <1>0, <2>1, <2>2, <2>3 DEF BatchEnds
<1>3. CASE e.type = "thumbnail"
  <2>1. HeardThumbnail(e) BY <1>3 DEF Heard, HeardState, HeardMetadata, e
  <2>2. Asks \subseteq Asks' /\ shown = Thumbnails /\ ui.generating /\ thumbnailProgress' = e.status
        /\ ~(e.status = "batch_done" /\ thumbnailProgress # "batch_done")
    BY <2>1 DEF HeardThumbnail, Refreshed, Asks
  <2>3. CASE e.status # "batch_done"
    <3>1. Primed' BY <2>2, <2>3 DEF Primed
    <3>2. EndComes => EndComes'
      <4>. SUFFICES ASSUME NEW k \in DOMAIN events, events[k].type = "thumbnail",
                           events[k].status = "batch_done"
                    PROVE  EndComes'
        BY DEF EndComes
      <4>1. k - 1 \in DOMAIN events' /\ events'[k - 1] = events[k] BY <1>0, <1>1, <2>3
      <4>. QED BY <2>2, <2>3, <4>1 DEF EndComes
    <3>. QED BY <1>0, <2>2, <3>1, <3>2 DEF BatchEnds
  <2>4. CASE e.status = "batch_done"
    <3>1. thumbnailProgress = "batch_done" BY <2>2, <2>4
    <3>2. Primed => Primed' BY <1>0, <1>1, <2>4, <3>1 DEF Primed
    <3>3. EndComes => EndComes'
      <4>. SUFFICES ASSUME NEW k \in DOMAIN events, events[k].type = "thumbnail",
                           events[k].status = "batch_done", NEW j \in DOMAIN events, j < k,
                           events[j].type = "thumbnail", events[j].status # "batch_done"
                    PROVE  EndComes'
        BY <3>1 DEF EndComes
      <4>1. j # 1 /\ k # 1 BY <1>0, <2>4
      <4>2. /\ k - 1 \in DOMAIN events' /\ events'[k - 1] = events[k]
            /\ j - 1 \in DOMAIN events' /\ events'[j - 1] = events[j] /\ j - 1 < k - 1
        BY <1>0, <1>1, <4>1
      <4>. QED BY <4>2 DEF EndComes
    <3>. QED BY <1>0, <2>2, <3>2, <3>3 DEF BatchEnds
  <2>. QED BY <2>3, <2>4
<1>. QED BY <1>2, <1>3

LEMMA BatchStep == ASSUME BatchEnds, Typed, Moves PROVE BatchEnds'
<1>1. CASE UNCHANGED <<server, events, live, store, ui, pending, calm>>
  BY <1>1 DEF BatchEnds, EndComes, Primed, server, store, Asks, Runs
<1>2. CASE ActEffect
  <2>1. CASE \E r \in Asks' : r.kind = "generate" /\ r.mine BY <2>1 DEF BatchEnds
  <2>2. CASE ui'.generating = ui.generating
    BY <1>2, <2>2, SameBatch DEF ActEffect, ActFrame, server, Runs, Typed
  <2>. QED BY <1>2, <2>1, <2>2 DEF ActEffect
<1>3. CASE Back
  <2>1. shown - 1 # shown BY <1>3 DEF Back, Typed, PageOK
  <2>2. ~ui'.generating BY <1>3, <2>1 DEF Back, Displayed
  <2>. QED BY <2>2 DEF BatchEnds
<1>4. CASE Resubmit \/ StreamLost BY <1>4, LeftTypes, LostTypes DEF Typed, BatchEnds
<1>5. CASE Heard BY <1>5, BatchHeard
<1>6. ASSUME NEW i \in DOMAIN gens, ThumbnailStep(i) PROVE BatchEnds' BY <1>6, BatchThumbnails DEF Typed
<1>7. ASSUME NEW i \in DOMAIN gens, MetadataStep(i) PROVE BatchEnds'
  <2>1. /\ UNCHANGED Behind /\ gens[i].kind = "metadata" /\ RunsBut(i) \subseteq Runs'
        /\ Runs = RunsBut(i) \cup {gens[i]}
        /\ events' = events \/ \E s \in {"generating", "error", "done"} : Published(MetaEvent(s))
    BY <1>7, MetadataStepCases, GensSplit DEF Typed, ServerOK
  <2>2. events' = events \/ \E e \in Events : Published(e) BY <2>1, EventsMade
  <2>. QED BY <2>1, <2>2, SameBatch DEF Typed, Behind, store, Asks
<1>8. ASSUME NEW i \in DOMAIN pending, Served(i) \/ InVain(i) PROVE BatchEnds' BY <1>8, BatchServed
<1>9. ASSUME NEW i \in DOMAIN pending, AnswerTaken(i) PROVE BatchEnds' BY <1>9, BatchAnswered
<1>. QED BY <1>1, <1>2, <1>3, <1>4, <1>5, <1>6, <1>7, <1>8, <1>9 DEF Moves
-----------------------------------------------------------------------------
(* Where the requests of the next state come from.                         *)

Same(q, r) == SameRequest(q, r) /\ q.clip = r.clip /\ q.reply = r.reply /\ q.busy = r.busy
From(S)    == \A q \in Asks' : (\E r \in S : Same(q, r)) \/ q \in {Load, Preview}
Keeps(S)   == \A r \in S : \E q \in Asks' : Same(q, r)

LEMMA LeftSame ==
  ASSUME NEW S, S \subseteq Requests
  PROVE  /\ \A q \in LeftOf(S) : \E r \in S : Same(q, r)
         /\ \A r \in S : \E q \in LeftOf(S) : Same(q, r)
<1>1. \A r \in S : Same([r EXCEPT !.mine = FALSE], r) BY RequestLeft DEF Same
<1>. QED BY <1>1 DEF LeftOf

LEMMA DisplayedAsks ==
  ASSUME NEW gate, NEW end, NEW S, S \subseteq Requests, Displayed(gate, end, S)
  PROVE  From(S) /\ Keeps(S)
<1>1. CASE gate = shown
  <2>1. Asks' = S BY <1>1 DEF Displayed
  <2>. QED BY <2>1 DEF From, Keeps, Same, SameRequest
<1>2. CASE gate # shown
  <2>1. Asks' \subseteq LeftOf(S) \cup {Load, Preview} /\ LeftOf(S) \subseteq Asks' BY <1>2 DEF Displayed
  <2>. QED BY <2>1, LeftSame DEF From, Keeps
<1>. QED BY <1>1, <1>2

LEMMA PageAsks ==
  ASSUME Typed
  PROVE  /\ Back \/ Heard => From(Asks) /\ Keeps(Asks)
         /\ \A i \in DOMAIN pending : AnswerTaken(i) => From(RestOf(i)) /\ Keeps(RestOf(i))
<1>0. Asks \subseteq Requests /\ \A i \in DOMAIN pending : RestOf(i) \subseteq Requests
  BY RangeIn, AskedFor DEF Typed, PageOK, Asks
<1>1. Back => From(Asks) /\ Keeps(Asks) BY <1>0, DisplayedAsks DEF Back
<1>2. ASSUME NEW S, Asks' \subseteq S \cup {Load, Preview}, S \subseteq Asks' PROVE From(S) /\ Keeps(S)
  BY <1>2 DEF From, Keeps, Same, SameRequest
<1>3. ASSUME Heard PROVE From(Asks) /\ Keeps(Asks)
  <2>. DEFINE e == Head(events)
  <2>1. CASE HeardState(e)
    <3>1. CASE e.to = top
      <4>1. Asks' = Asks BY <2>1, <3>1 DEF HeardState, Asks
      <4>. QED BY <1>2, <4>1
    <3>2. CASE e.to # top BY <1>0, <2>1, <3>2, DisplayedAsks DEF HeardState
    <3>. QED BY <3>1, <3>2
  <2>2. CASE HeardThumbnail(e) \/ HeardMetadata(e)
    <3>1. Asks' \subseteq Asks \cup {Load, Preview} /\ Asks \subseteq Asks'
      BY <2>2 DEF HeardThumbnail, HeardMetadata, Refreshed, Asks
    <3>. QED BY <1>2, <3>1
  <2>. QED BY <1>3, <2>1, <2>2 DEF Heard
<1>4. ASSUME NEW i \in DOMAIN pending, AnswerTaken(i) PROVE From(RestOf(i)) /\ Keeps(RestOf(i))
  <2>1. CASE AnsweredAdvance(i) BY <1>0, <2>1, DisplayedAsks DEF AnsweredAdvance
  <2>2. CASE ~AnsweredAdvance(i)
    <3>1. Asks' \subseteq RestOf(i) \cup {Load, Preview} /\ RestOf(i) \subseteq Asks'
      BY <1>4, <2>2 DEF AnswerTaken, AnsweredInVain, AnsweredLoad, AnsweredThumbnail, AnsweredSingle,
                        Refreshed, Gone
    <3>. QED BY <1>2, <3>1
  <2>. QED BY <2>1, <2>2
<1>. QED BY <1>1, <1>3, <1>4

(* The request of place i, or one that was there.                          *)
ServerAsked(i) ==
  /\ RestOf(i) \subseteq Asks' /\ Asks = RestOf(i) \cup {pending[i]}
  /\ \A q \in Asks' : \/ q \in RestOf(i)
                       \/ /\ SameRequest(q, pending[i]) /\ q.mine = pending[i].mine
                          /\ pending[i].busy => q.busy
                          /\ q.busy => pending[i].busy \/ TakenUp(i)
                          /\ q.clip = pending[i].clip \/ WritesOn(i)

LEMMA ServerAsks ==
  ASSUME Typed, NEW i \in DOMAIN pending, Served(i) \/ InVain(i)
  PROVE  ServerAsked(i)
<1>1. Asks = RestOf(i) \cup {pending[i]} BY AskedFor DEF Typed, PageOK
<1>2. \/ Gone(i)
      \/ \E v : RepliedWith(i, v)
      \/ TakenUp(i) \/ WritesOn(i)
  BY DEF Served, ServedLoad, ServedGenerate, ServedThumbnail, ServedAdvance, ServedRegenerate, ServedSingle,
         ServedMetadata, ServedChoice, InVain
<1>. QED BY <1>1, <1>2 DEF ServerAsked, Gone, RepliedWith, AnswerTo, TakenUp, WritesOn

(* What is published for a request is the state.                           *)
LEMMA ServedStates ==
  ASSUME Typed, NEW i \in DOMAIN pending, Served(i) \/ InVain(i)
  PROVE  \/ UNCHANGED <<state, events>>
         \/ /\ state \in Nat /\ state' = state + 1 /\ Published(StateEvent(state')) /\ StateEvent(state') \in Events
            /\ pending[i].kind \in {"advance", "metadata", "choice"} /\ pending[i].reply = Null
            /\ state' \in {Metadata, Choice, Confirm}
<1>1. CASE ServedAdvance(i) \/ ServedMetadata(i) \/ ServedChoice(i)
  <2>1. /\ state' \in {Metadata, Choice, Confirm} /\ Published(StateEvent(state')) /\ state' = state + 1
        /\ pending[i].kind \in {"advance", "metadata", "choice"} /\ state \in Nat
    <3>1. CASE ServedAdvance(i)
      <4>1. /\ state \in {Thumbnails, Metadata} /\ state' = state + 1 /\ Published(StateEvent(state'))
            /\ pending[i].kind = "advance"
        BY <3>1 DEF ServedAdvance
      <4>2. (state = Thumbnails \/ state = Metadata) /\ Thumbnails \in Nat /\ Metadata \in Nat
            /\ Thumbnails + 1 = Metadata /\ Metadata + 1 = Choice
        BY <4>1 DEF Thumbnails, Metadata, Choice
      <4>3. state' = Metadata \/ state' = Choice BY <4>1, <4>2
      <4>4. state \in Nat BY <4>2
      <4>. QED BY <4>1, <4>3, <4>4
    <3>2. CASE ServedMetadata(i) BY <3>2 DEF ServedMetadata, Metadata, Choice
    <3>3. CASE ServedChoice(i)
      <4>1. /\ state = Choice /\ state' = Confirm /\ Published(StateEvent(state'))
            /\ pending[i].kind = "choice"
        BY <3>3 DEF ServedChoice
      <4>2. Choice \in Nat /\ Choice + 1 = Confirm BY DEF Choice, Confirm
      <4>. QED BY <4>1, <4>2
    <3>. QED BY <1>1, <3>1, <3>2, <3>3
  <2>2. StateEvent(state') \in Events
    <3>1. state' \in Thumbnails .. Confirm BY <2>1 DEF Thumbnails, Metadata, Choice, Confirm
    <3>. QED BY <3>1, EventsMade
  <2>3. pending[i].reply = Null
    <3>1. ~InVain(i)
      <4>1. InVain(i) => state' = state BY DEF InVain, server
      <4>. QED BY <2>1, <4>1
    <3>. QED BY <3>1 DEF Served
  <2>. QED BY <2>1, <2>2, <2>3
<1>2. CASE ~(ServedAdvance(i) \/ ServedMetadata(i) \/ ServedChoice(i))
  BY <1>2 DEF Served, ServedLoad, ServedGenerate, ServedThumbnail, ServedRegenerate, ServedSingle,
              InVain, TakenUp, WritesOn, server
<1>. QED BY <1>1, <1>2

(* Nothing but these replies is new.                                       *)
LEMMA ServedReplies ==
  ASSUME Typed, NEW i \in DOMAIN pending, Served(i) \/ InVain(i), NEW q \in Asks' \ RestOf(i)
  PROVE  /\ q.kind = "advance" => q.reply = Refused \/ (q.reply = state' /\ ServedAdvance(i))
         /\ q.kind = "load" => (q.reply = rows /\ ServedLoad(i)) \/ (q.reply = Refused /\ ~calm')
         /\ q.kind = "single" => \/ q.reply = Null /\ TakenUp(i)
                                 \/ q.reply = Refused /\ InVain(i)
                                 \/ q.reply = NewText /\ ServedSingle(i)
         /\ q.kind = "thumbnail" => \/ q.reply \in {Null, Refused}
                                    \/ q.reply = TRUE /\ ServedThumbnail(i)
<1>1. ServerAsked(i) BY ServerAsks
<1>2. SameRequest(q, pending[i]) BY <1>1 DEF ServerAsked
<1>3. CASE InVain(i) BY <1>2, <1>3 DEF InVain, RepliedWith, AnswerTo, Gone, SameRequest
<1>4. CASE TakenUp(i)
  <2>1. q.reply = Null /\ q.kind \in {"single", "thumbnail", "metadata", "choice"}
    BY <1>2, <1>4 DEF TakenUp, SameRequest
  <2>. QED BY <1>4, <2>1
<1>5. CASE ServedLoad(i) BY <1>2, <1>5 DEF ServedLoad, RepliedWith, AnswerTo, SameRequest
<1>6. CASE ServedGenerate(i) \/ ServedRegenerate(i) \/ ServedMetadata(i)
  BY <1>6 DEF ServedGenerate, ServedRegenerate, ServedMetadata, Gone
<1>7. CASE ServedThumbnail(i) BY <1>2, <1>7 DEF ServedThumbnail, RepliedWith, AnswerTo, SameRequest
<1>8. CASE ServedAdvance(i) BY <1>2, <1>8 DEF ServedAdvance, RepliedWith, AnswerTo, SameRequest
<1>9. CASE ServedSingle(i) BY <1>2, <1>9 DEF ServedSingle, RepliedWith, AnswerTo, SameRequest
<1>10. CASE ServedChoice(i) \/ WritesOn(i) BY <1>2, <1>10 DEF ServedChoice, WritesOn, SameRequest
<1>. QED BY <1>3, <1>4, <1>5, <1>6, <1>7, <1>8, <1>9, <1>10 DEF Served
-----------------------------------------------------------------------------
(* The page is not ahead of the server.                                    *)

StateKnown == \A e \in Range(events) : e.type = "state" => e.to <= state
AnswersKnown == \A r \in Asks : r.kind = "advance" /\ r.reply \in Nat => r.reply <= state
ChoicesLate == \A r \in Asks : r.kind = "choice" => state >= Choice

LEMMA LoadKinds ==
  /\ \A q \in {Load, Preview} : q.kind \in {"load", "preview"} /\ q.reply = Null /\ ~q.busy /\ q.mine
BY LoadMade

LEMMA GeneratorEvents ==
  ASSUME Typed, NEW i \in DOMAIN gens, ThumbnailStep(i) \/ MetadataStep(i)
  PROVE  \/ events' = events
         \/ \E e \in Events : Published(e) /\ e.type = (IF ThumbnailStep(i) THEN "thumbnail" ELSE "metadata")
<1>1. CASE ThumbnailStep(i)
  <2>1. gens[i].open \/ gens[i].at < NumClips => gens[i].at + 1 \in Clips
    BY <1>1, ThumbnailStepCases DEF Typed
  <2>2. \/ (gens[i].open \/ gens[i].at < NumClips)
           /\ \E s \in {"generating", "error", "done"} : Published(ThumbEvent(s, gens[i].at + 1))
        \/ Published(ThumbEvent("batch_done", 0))
    BY <1>1, ThumbnailStepCases DEF Typed
  <2>3. \A s, c : ThumbEvent(s, c).type = "thumbnail" BY DEF ThumbEvent
  <2>. QED BY <1>1, <2>1, <2>2, <2>3, EventsMade
<1>2. CASE ~ThumbnailStep(i) /\ MetadataStep(i)
  <2>1. events' = events \/ \E s \in {"generating", "error", "done"} : Published(MetaEvent(s))
    BY <1>2, MetadataStepCases DEF Typed
  <2>2. \A s : MetaEvent(s).type = "metadata" BY DEF MetaEvent
  <2>. QED BY <1>2, <2>1, <2>2, EventsMade
<1>. QED BY <1>1, <1>2

LEMMA GeneratorFrame ==
  ASSUME Typed, NEW i \in DOMAIN gens, ThumbnailStep(i) \/ MetadataStep(i)
  PROVE  UNCHANGED Behind /\ Asks' = Asks /\ (calm' => calm)
BY ThumbnailStepCases, MetadataStepCases DEF Typed, Behind, Asks

LEMMA PublishedOther ==
  ASSUME Typed, events' = events \/ \E e \in Events : Published(e) /\ e.type # "state", UNCHANGED state
  PROVE  /\ StateKnown => StateKnown'
         /\ EndIsState /\ (calm' => calm) /\ UNCHANGED <<live, top>> => EndIsState'
<1>1. CASE events' = events BY <1>1 DEF StateKnown, EndIsState
<1>2. ASSUME NEW e \in Events, Published(e), e.type # "state"
      PROVE  /\ StateKnown => StateKnown'
             /\ EndIsState /\ (calm' => calm) /\ UNCHANGED <<live, top>> => EndIsState'
  <2>1. CASE ~live
    <3>1. events' = events BY <1>2, <2>1 DEF Published
    <3>. QED BY <3>1 DEF StateKnown, EndIsState
  <2>2. CASE live
    <3>1. /\ Range(events') = Range(events) \cup {e}
          /\ \A k \in DOMAIN events : k \in DOMAIN events' /\ events'[k] = events[k]
          /\ \A k \in DOMAIN events' : k \in DOMAIN events \/ events'[k] = e
      BY <1>2, <2>2, PublishedEffect DEF Typed, ServerOK
    <3>2. \A k \in DOMAIN events' : events'[k].type = "state" => k \in DOMAIN events /\ events'[k] = events[k]
      BY <1>2, <3>1
    <3>3. StateKnown => StateKnown' BY <1>2, <3>1 DEF StateKnown
    <3>4. ASSUME EndIsState, calm' => calm, UNCHANGED <<live, top>> PROVE EndIsState'
      <4>. SUFFICES ASSUME calm'
                    PROVE  \/ \E k \in DOMAIN events' :
                                /\ events'[k].type = "state" /\ events'[k].to = state'
                                /\ \A j \in DOMAIN events' : events'[j].type = "state" => j <= k
                           \/ top' = state' /\ \A x \in Range(events') : x.type # "state"
        BY DEF EndIsState
      <4>1. calm /\ live BY <2>2, <3>4
      <4>2. CASE top = state /\ \A x \in Range(events) : x.type # "state" BY <1>2, <3>1, <3>4, <4>2
      <4>3. ASSUME NEW k \in DOMAIN events, events[k].type = "state", events[k].to = state,
                   \A j \in DOMAIN events : events[j].type = "state" => j <= k
            PROVE  \E n \in DOMAIN events' :
                      /\ events'[n].type = "state" /\ events'[n].to = state'
                      /\ \A j \in DOMAIN events' : events'[j].type = "state" => j <= n
        BY <3>1, <3>2, <4>3
      <4>. QED BY <3>4, <4>1, <4>2, <4>3 DEF EndIsState
    <3>. QED BY <3>3, <3>4
  <2>. QED BY <2>1, <2>2 DEF Typed, RestOK
<1>. QED BY <1>1, <1>2

Ahead == NotAhead /\ EndIsState

LEMMA NotAheadParts == NotAhead <=> (live => top <= state /\ StateKnown /\ AnswersKnown /\ ChoicesLate)
BY DEF NotAhead, StateKnown, AnswersKnown, ChoicesLate

LEMMA NotAheadMade ==
  ASSUME live' => (top' <= state' /\ StateKnown' /\ AnswersKnown' /\ ChoicesLate')
  PROVE  NotAhead'
BY DEF NotAhead, StateKnown, AnswersKnown, ChoicesLate

LEMMA AheadServed ==
  ASSUME Ahead, Typed, NEW i \in DOMAIN pending, Served(i) \/ InVain(i)
  PROVE  Ahead'
<1>. DEFINE r == pending[i]
<1>0. /\ ServerAsked(i) /\ StoreFrame /\ (calm' => calm) /\ (state \in Nat /\ state' \in Nat)
      /\ events \in Seq(Events)
  <2>1. calm' => calm
    BY DEF Served, ServedLoad, ServedGenerate, ServedThumbnail, ServedAdvance, ServedRegenerate, ServedSingle,
           ServedMetadata, ServedChoice, InVain, TakenUp, WritesOn, Told
  <2>2. StoreFrame BY DEF Served, InVain
  <2>3. state \in Nat /\ events \in Seq(Events) BY DEF Typed, ServerOK
  <2>4. state' \in Nat BY <2>3, ServedStates
  <2>. QED BY <2>1, <2>2, <2>3, <2>4, ServerAsks
<1>1. state <= state' BY <1>0, ServedStates
<1>2. CASE ~live BY <1>0, <1>2 DEF Ahead, NotAhead, EndIsState, StoreFrame
<1>3. CASE live
  <2>0. top <= state /\ StateKnown /\ AnswersKnown /\ ChoicesLate /\ top \in Nat
    BY <1>3, NotAheadParts DEF Ahead, Typed, PageOK
  <2>1. top' <= state' BY <1>0, <1>1, <2>0 DEF StoreFrame
  <2>2. ChoicesLate'
    <3>. SUFFICES ASSUME NEW q \in Asks', q.kind = "choice" PROVE state' >= Choice BY DEF ChoicesLate
    <3>1. \E x \in Asks : x.kind = "choice" BY <1>0 DEF ServerAsked, SameRequest
    <3>. QED BY <1>0, <1>1, <2>0, <3>1 DEF ChoicesLate, Choice
  <2>3. AnswersKnown'
    <3>. SUFFICES ASSUME NEW q \in Asks', q.kind = "advance", q.reply \in Nat PROVE q.reply <= state'
      BY DEF AnswersKnown
    <3>1. CASE q \in RestOf(i) BY <1>0, <1>1, <2>0, <3>1 DEF AnswersKnown, ServerAsked
    <3>2. CASE q \notin RestOf(i)
      <4>1. q.reply = Refused \/ q.reply = state' BY <3>2, ServedReplies
      <4>2. q.reply = state' BY <4>1, NullRefused
      <4>. QED BY <1>0, <4>2
    <3>. QED BY <3>1, <3>2
  <2>4. StateKnown' /\ EndIsState'
    <3>1. CASE UNCHANGED <<state, events>>
      BY <1>0, <2>0, <3>1 DEF StateKnown, EndIsState, Ahead, StoreFrame
    <3>2. CASE Published(StateEvent(state')) /\ StateEvent(state') \in Events
      <4>. DEFINE e == StateEvent(state')
      <4>1. e.type = "state" /\ e.to = state' BY DEF StateEvent
      <4>2. e \in Events /\ Published(e) BY <3>2
      <4>. HIDE DEF e
      <4>3. /\ Range(events') = Range(events) \cup {e} /\ events'[Len(events) + 1] = e
            /\ Len(events) \in Nat /\ DOMAIN events' = 1 .. Len(events) + 1
        BY <1>0, <1>3, <4>2, PublishedEffect
      <4>4. StateKnown'
        <5>. SUFFICES ASSUME NEW x \in Range(events), x.type = "state" PROVE x.to <= state'
          BY <1>0, <4>1, <4>3 DEF StateKnown
        <5>1. x.to <= state BY <2>0 DEF StateKnown
        <5>2. x.to \in Nat
          <6>1. x \in Events BY <1>0, RangeIn
          <6>2. x.to \in Thumbnails .. Confirm BY <6>1, EventFormed DEF EventForm
          <6>. QED BY <6>2 DEF Thumbnails, Confirm
        <5>. QED BY <1>0, <1>1, <5>1, <5>2
      <4>5. EndIsState' BY <4>1, <4>3 DEF EndIsState
      <4>. QED BY <4>4, <4>5
    <3>. QED BY <3>1, <3>2, ServedStates
  <2>5. NotAhead' BY <2>1, <2>2, <2>3, <2>4, NotAheadMade
  <2>. QED BY <2>4, <2>5 DEF Ahead
<1>. QED BY <1>2, <1>3 DEF Typed, RestOK

LEMMA AheadAsked ==
  ASSUME NEW S, From(S), S \subseteq Asks, UNCHANGED state
  PROVE  (AnswersKnown => AnswersKnown') /\ (ChoicesLate => ChoicesLate')
<1>1. \A q \in Asks' : q.kind \in {"advance", "choice"} =>
         \E r \in Asks : q.kind = r.kind /\ q.reply = r.reply
  BY LoadKinds DEF From, Same, SameRequest
<1>. QED BY <1>1 DEF AnswersKnown, ChoicesLate

LEMMA AheadAnswered ==
  ASSUME Ahead, Typed, NEW i \in DOMAIN pending, AnswerTaken(i)
  PROVE  Ahead'
<1>. DEFINE r == pending[i]
<1>0. /\ Asks = RestOf(i) \cup {r} /\ UNCHANGED <<server, events, live>> /\ From(RestOf(i))
      /\ UNCHANGED state
  BY AskedFor, PageAsks DEF Typed, PageOK, AnswerTaken, AnswerFrame, server
<1>1. calm' => calm
  BY DEF AnswerTaken, AnsweredInVain, AnsweredLoad, AnsweredThumbnail, AnsweredAdvance, AnsweredSingle
<1>2. \/ top' = top
      \/ r.kind = "advance" /\ r.reply \in Nat /\ top' = r.reply /\ (calm' => r.reply >= top)
  <2>1. CASE AnsweredAdvance(i)
    <3>1. r.kind = "advance" /\ r.reply \in {Metadata, Choice} /\ top' = r.reply /\ (calm' => r.reply >= top)
      BY <2>1 DEF AnsweredAdvance, Displayed
    <3>2. r.reply \in Nat BY <3>1 DEF Metadata, Choice
    <3>. QED BY <3>1, <3>2
  <2>2. CASE AnsweredInVain(i) \/ AnsweredSingle(i) BY <2>2 DEF AnsweredInVain, AnsweredSingle, SameView
  <2>3. CASE AnsweredLoad(i) \/ AnsweredThumbnail(i) BY <2>3 DEF AnsweredLoad, AnsweredThumbnail
  <2>. QED BY <2>1, <2>2, <2>3 DEF AnswerTaken
<1>3. CASE ~live BY <1>0, <1>3 DEF Ahead, NotAhead, EndIsState
<1>4. CASE live
  <2>1. top <= state /\ StateKnown /\ AnswersKnown /\ ChoicesLate /\ top \in Nat /\ state \in Nat
    BY <1>4, NotAheadParts DEF Ahead, Typed, PageOK, ServerOK
  <2>2. r \in Asks BY <1>0
  <2>3. top' <= state' BY <1>0, <1>2, <2>1, <2>2 DEF AnswersKnown
  <2>4. StateKnown' /\ AnswersKnown' /\ ChoicesLate' BY <1>0, <2>1, AheadAsked DEF StateKnown
  <2>5. NotAhead' BY <2>3, <2>4, NotAheadMade
  <2>6. calm' /\ top = state => top' = state'
    <3>. SUFFICES ASSUME calm', top = state, r.kind = "advance", r.reply \in Nat, top' = r.reply, r.reply >= top
                  PROVE  r.reply = state
      BY <1>0, <1>2
    <3>1. r.reply <= state BY <2>1, <2>2 DEF AnswersKnown
    <3>. QED BY <2>1, <3>1
  <2>7. EndIsState' BY <1>0, <1>1, <2>6 DEF Ahead, EndIsState
  <2>. QED BY <2>5, <2>7 DEF Ahead
<1>. QED BY <1>3, <1>4 DEF Typed, RestOK

LEMMA AheadHeard == ASSUME Ahead, Typed, Heard PROVE Ahead'
<1>. DEFINE e == Head(events)
<1>0. /\ live /\ live' = live /\ UNCHANGED state /\ From(Asks)
      /\ Len(events) \in Nat \ {0} /\ DOMAIN events = 1 .. Len(events) /\ e = events[1]
      /\ DOMAIN events' = 1 .. Len(events) - 1
      /\ \A k \in DOMAIN events' : k + 1 \in DOMAIN events /\ events'[k] = events[k + 1]
      /\ Range(events) = {e} \cup Range(events')
  BY EventTaken, PageAsks DEF Heard, Typed, ServerOK, server
<1>. HIDE DEF e
<1>1. top <= state /\ StateKnown /\ AnswersKnown /\ ChoicesLate /\ top \in Nat /\ state \in Nat
  BY <1>0, NotAheadParts DEF Ahead, Typed, PageOK, ServerOK
<1>2. calm' => calm BY DEF Heard, HeardState, HeardThumbnail, HeardMetadata
<1>3. IF e.type = "state" THEN top' = e.to ELSE top' = top
  BY DEF Heard, HeardState, HeardThumbnail, HeardMetadata, Displayed, e
<1>4. NotAhead'
  <2>1. top' <= state' BY <1>0, <1>1, <1>3 DEF StateKnown
  <2>2. StateKnown' BY <1>0, <1>1 DEF StateKnown
  <2>3. AnswersKnown' /\ ChoicesLate' BY <1>0, <1>1, AheadAsked
  <2>. QED BY <2>1, <2>2, <2>3, NotAheadMade
<1>5. EndIsState'
  <2>. SUFFICES ASSUME calm'
                PROVE  \/ \E k \in DOMAIN events' :
                            /\ events'[k].type = "state" /\ events'[k].to = state'
                            /\ \A j \in DOMAIN events' : events'[j].type = "state" => j <= k
                       \/ top' = state' /\ \A x \in Range(events') : x.type # "state"
    BY DEF EndIsState
  <2>1. calm BY <1>2
  <2>2. CASE top = state /\ \A x \in Range(events) : x.type # "state" BY <1>0, <1>3, <2>2
  <2>3. ASSUME NEW k \in DOMAIN events, events[k].type = "state", events[k].to = state,
               \A j \in DOMAIN events : events[j].type = "state" => j <= k
        PROVE  \/ \E n \in DOMAIN events' :
                    /\ events'[n].type = "state" /\ events'[n].to = state'
                    /\ \A j \in DOMAIN events' : events'[j].type = "state" => j <= n
               \/ top' = state' /\ \A x \in Range(events') : x.type # "state"
    <3>1. CASE k = 1
      <4>1. top' = state' BY <1>0, <1>3, <2>3, <3>1
      <4>2. \A j \in DOMAIN events' : events'[j].type # "state" BY <1>0, <2>3, <3>1
      <4>. QED BY <4>1, <4>2 DEF Range
    <3>2. CASE k # 1
      <4>1. k - 1 \in DOMAIN events' /\ events'[k - 1] = events[k] BY <1>0, <3>2
      <4>2. \A j \in DOMAIN events' : events'[j].type = "state" => j <= k - 1 BY <1>0, <2>3
      <4>. QED BY <1>0, <2>3, <4>1, <4>2
    <3>. QED BY <3>1, <3>2
  <2>. QED BY <1>0, <2>1, <2>2, <2>3 DEF Ahead, EndIsState
<1>. QED BY <1>4, <1>5 DEF Ahead

LEMMA AheadStep == ASSUME Ahead, Typed, Moves PROVE Ahead'
<1>1. CASE UNCHANGED <<server, events, live, store, ui, pending, calm>>
  BY <1>1 DEF Ahead, NotAhead, EndIsState, server, store, Asks
<1>2. CASE ActEffect
  <2>1. /\ UNCHANGED <<state, events, live, top, shown, calm>> /\ Asks \subseteq Asks'
        /\ \A r \in Asks' \ Asks : NewRequest(r)
    BY <1>2 DEF ActEffect, ActFrame, server
  <2>2. EndIsState' BY <2>1 DEF Ahead, EndIsState
  <2>3. CASE ~live BY <2>1, <2>2, <2>3 DEF Ahead, NotAhead
  <2>4. CASE live
    <3>1. top <= state /\ StateKnown /\ AnswersKnown /\ ChoicesLate /\ shown <= top
          /\ top \in Nat /\ state \in Nat /\ shown \in Nat
      BY <2>4, NotAheadParts DEF Ahead, Typed, PageOK, ServerOK
    <3>2. AnswersKnown' BY <2>1, <3>1, NullRefused DEF AnswersKnown, NewRequest
    <3>3. ChoicesLate' BY <2>1, <3>1 DEF ChoicesLate, NewRequest, Chooser, Choice
    <3>4. NotAhead' BY <2>1, <3>1, <3>2, <3>3, NotAheadMade DEF StateKnown
    <3>. QED BY <2>2, <3>4 DEF Ahead
  <2>. QED BY <2>3, <2>4 DEF Typed, RestOK
<1>3. CASE Back
  <2>1. UNCHANGED <<state, events, live, top, calm>> /\ From(Asks)
    BY <1>3, PageAsks DEF Back, Displayed, server
  <2>2. EndIsState' BY <2>1 DEF Ahead, EndIsState
  <2>3. NotAhead' BY <2>1, AheadAsked, NotAheadParts, NotAheadMade DEF Ahead, StateKnown
  <2>. QED BY <2>2, <2>3 DEF Ahead
<1>4. CASE Resubmit \/ StreamLost BY <1>4, LeftTypes, LostTypes DEF Typed, Ahead, NotAhead, EndIsState
<1>5. CASE Heard BY <1>5, AheadHeard
<1>6. ASSUME NEW i \in DOMAIN gens, ThumbnailStep(i) \/ MetadataStep(i) PROVE Ahead'
  <2>1. UNCHANGED Behind /\ Asks' = Asks /\ (calm' => calm) BY <1>6, GeneratorFrame
  <2>2. UNCHANGED <<state, live, top>> BY <2>1 DEF Behind, store
  <2>3. events' = events \/ \E e \in Events : Published(e) /\ e.type # "state" BY <1>6, GeneratorEvents
  <2>4. EndIsState' BY <2>1, <2>2, <2>3, PublishedOther DEF Ahead
  <2>5. StateKnown => StateKnown' BY <2>2, <2>3, PublishedOther
  <2>6. (AnswersKnown => AnswersKnown') /\ (ChoicesLate => ChoicesLate')
    BY <2>1, <2>2 DEF AnswersKnown, ChoicesLate
  <2>7. NotAhead' BY <2>2, <2>5, <2>6, NotAheadParts, NotAheadMade DEF Ahead
  <2>. QED BY <2>4, <2>7 DEF Ahead
<1>7. ASSUME NEW i \in DOMAIN pending, Served(i) \/ InVain(i) PROVE Ahead' BY <1>7, AheadServed
<1>8. ASSUME NEW i \in DOMAIN pending, AnswerTaken(i) PROVE Ahead' BY <1>8, AheadAnswered
<1>. QED BY <1>1, <1>2, <1>3, <1>4, <1>5, <1>6, <1>7, <1>8 DEF Moves
-----------------------------------------------------------------------------
LEMMA BatchFirst == ASSUME Init PROVE BatchEnds
<1>1. ui = Fresh BY DEF Init
<1>. QED BY <1>1, FreshStep DEF BatchEnds

(* The generate button is not left disabled: while the stream is open, the *)
(* report that ends the batch of thumbnails is still to come.              *)
THEOREM GenerationIsReported == Spec => []GeneratingEnds
<1>1. BatchEnds => GeneratingEnds
  <2>. SUFFICES ASSUME BatchEnds, shown = Thumbnails, ui.generating, live
                PROVE  \/ \E i \in DOMAIN pending : pending[i].kind = "generate" /\ pending[i].mine
                       \/ \E i \in DOMAIN gens    : gens[i].kind = "thumbnails"
                       \/ \E i \in DOMAIN events  : events[i].type = "thumbnail" /\ events[i].status = "batch_done"
    BY DEF GeneratingEnds
  <2>1. CASE \E r \in Asks : r.kind = "generate" /\ r.mine BY <2>1 DEF Asks, Range
  <2>2. CASE \E g \in Runs : g.kind = "thumbnails" BY <2>2 DEF Runs, Range
  <2>3. CASE EndComes BY <2>3 DEF EndComes
  <2>. QED BY <2>1, <2>2, <2>3 DEF BatchEnds
<1>2. TypeOK /\ BatchEnds /\ [Next]_vars => TypeOK' /\ BatchEnds' BY StepMoves, BatchStep DEF Typed
<1>3. Init => TypeOK /\ BatchEnds BY StepsTypesFirst, BatchFirst
<1>. QED BY <1>1, <1>2, <1>3, PTL DEF Spec
-----------------------------------------------------------------------------
(* What is asked for a single text.                                        *)

LEMMA SinglesKept ==
  ASSUME Singles, UNCHANGED shown, NEW S, S \subseteq Asks, Asks' \subseteq S \cup {Load, Preview}
  PROVE  Singles'
<1>1. \A q \in Asks' : q.kind \in {"single", "metadata", "choice"} => q \in Asks BY LoadKinds
<1>. QED BY <1>1 DEF Singles

LEMMA SinglesDisplayed ==
  ASSUME Singles, NEW S, S \subseteq Asks, S \subseteq Requests, NEW gate, NEW end, Displayed(gate, end, S)
  PROVE  Singles'
<1>1. CASE gate = shown BY <1>1, SinglesKept DEF Displayed
<1>2. CASE gate # shown
  <2>1. Asks' \subseteq LeftOf(S) \cup {Load, Preview} BY <1>2 DEF Displayed
  <2>2. \A r \in S : LET q == [r EXCEPT !.mine = FALSE] IN Same(q, r) /\ ~q.mine BY RequestLeft DEF Same
  <2>3. \A q \in Asks' : q.kind \in {"single", "metadata", "choice"} => ~q.mine /\ \E r \in S : Same(q, r)
    BY <2>1, <2>2, LoadKinds DEF LeftOf
  <2>. QED BY <2>3 DEF Singles, Same, SameRequest
<1>. QED BY <1>1, <1>2

LEMMA SinglesStep == ASSUME Singles, Typed, Moves PROVE Singles'
<1>0. Asks \subseteq Requests /\ Asks \subseteq Asks BY RangeIn DEF Typed, PageOK, Asks
<1>1. CASE UNCHANGED <<server, events, live, store, ui, pending, calm>>
  BY <1>1 DEF Singles, store, Asks
<1>2. CASE ActEffect
  <2>1. shown' = shown /\ \A r \in Asks' \ Asks : NewRequest(r) BY <1>2 DEF ActEffect, ActFrame
  <2>. QED BY <2>1, NullRefused DEF Singles, NewRequest
<1>3. CASE Back BY <1>0, <1>3, SinglesDisplayed DEF Back
<1>4. CASE Resubmit
  <2>1. Asks' = {} BY <1>4, EmptyPending DEF Resubmit, Asks
  <2>. QED BY <2>1 DEF Singles
<1>5. CASE StreamLost BY <1>5 DEF StreamLost, Singles, store, Asks
<1>6. CASE Heard
  <2>. DEFINE e == Head(events)
  <2>1. CASE HeardState(e)
    <3>1. CASE e.to = top BY <2>1, <3>1 DEF HeardState, Singles, Asks
    <3>2. CASE e.to # top BY <1>0, <2>1, <3>2, SinglesDisplayed DEF HeardState
    <3>. QED BY <3>1, <3>2
  <2>2. CASE HeardThumbnail(e) \/ HeardMetadata(e)
    <3>1. UNCHANGED shown /\ Asks' \subseteq Asks \cup {Load, Preview}
      BY <2>2 DEF HeardThumbnail, HeardMetadata, Refreshed, Asks
    <3>. QED BY <1>0, <3>1, SinglesKept
  <2>. QED BY <1>6, <2>1, <2>2 DEF Heard
<1>7. ASSUME NEW i \in DOMAIN gens, ThumbnailStep(i) \/ MetadataStep(i) PROVE Singles'
  <2>1. UNCHANGED Behind /\ Asks' = Asks BY <1>7, GeneratorFrame
  <2>. QED BY <2>1 DEF Singles, Behind, store
<1>8. ASSUME NEW i \in DOMAIN pending, Served(i) \/ InVain(i) PROVE Singles'
  <2>. SUFFICES ASSUME NEW q \in Asks'
                PROVE  /\ q.kind = "single" => (q.reply \in Nat => q.busy) /\ (q.mine => shown' = Metadata)
                       /\ q.kind = "metadata" /\ q.busy => \A c \in Clips : q.body[c] # 0
                       /\ q.kind = "choice" /\ ~q.busy => q.clip = 0
    BY DEF Singles
  <2>1. ServerAsked(i) /\ shown' = shown BY <1>8, ServerAsks DEF Served, InVain, StoreFrame
  <2>2. CASE q \in RestOf(i) BY <2>1, <2>2 DEF Singles, ServerAsked
  <2>3. CASE q \notin RestOf(i)
    <3>1. SameRequest(q, pending[i]) /\ q.mine = pending[i].mine /\ (pending[i].busy => q.busy)
      BY <2>1, <2>3 DEF ServerAsked
    <3>2. pending[i] \in Asks /\ pending[i].kind = q.kind /\ pending[i].body = q.body
      BY <2>1, <3>1 DEF ServerAsked, SameRequest
    <3>3. CASE q.kind = "single"
      <4>1. q.reply = Null \/ q.reply = Refused \/ ServedSingle(i) BY <1>8, <2>3, <3>3, ServedReplies
      <4>2. q.reply \in Nat => q.busy BY <3>1, <4>1, NullRefused DEF ServedSingle
      <4>. QED BY <2>1, <3>1, <3>2, <3>3, <4>2 DEF Singles
    <3>4. CASE q.kind = "metadata" /\ q.busy
      <4>1. pending[i].busy \/ TakenUp(i) BY <2>1, <2>3, <3>4 DEF ServerAsked
      <4>. QED BY <3>2, <3>4, <4>1 DEF Singles, TakenUp
    <3>5. CASE q.kind = "choice" /\ ~q.busy
      <4>1. ~pending[i].busy /\ (q.clip = pending[i].clip \/ WritesOn(i)) BY <2>1, <2>3, <3>5 DEF ServerAsked
      <4>. QED BY <3>2, <3>5, <4>1 DEF Singles, WritesOn
    <3>. QED BY <3>3, <3>4, <3>5
  <2>. QED BY <2>2, <2>3
<1>9. ASSUME NEW i \in DOMAIN pending, AnswerTaken(i) PROVE Singles'
  <2>0. RestOf(i) \subseteq Asks BY AskedFor DEF Typed, PageOK
  <2>1. CASE AnsweredAdvance(i) BY <1>0, <2>0, <2>1, SinglesDisplayed DEF AnsweredAdvance
  <2>2. CASE ~AnsweredAdvance(i)
    <3>1. Asks' \subseteq RestOf(i) \cup {Load, Preview} /\ UNCHANGED shown
      BY <1>9, <2>2 DEF AnswerTaken, AnsweredInVain, AnsweredLoad, AnsweredThumbnail, AnsweredSingle,
                        Refreshed, Gone, SameView
    <3>. QED BY <2>0, <3>1, SinglesKept
  <2>. QED BY <2>1, <2>2
<1>. QED BY <1>1, <1>2, <1>3, <1>4, <1>5, <1>6, <1>7, <1>8, <1>9 DEF Moves
-----------------------------------------------------------------------------
(* What becomes of the state and of the rows.                              *)

LEMMA StateNext ==
  ASSUME Typed, Moves
  PROVE  \/ state' = state
         \/ /\ state \in Nat /\ state' = state + 1 /\ state' \in {Metadata, Choice, Confirm} /\ shown' = shown
         \/ state' = 0 /\ ~live' /\ Asks' = {}
<1>1. CASE Resubmit
  <2>1. Asks' = {} /\ state' = 0 BY <1>1, EmptyPending DEF Resubmit, Asks
  <2>. QED BY <1>1, <2>1, LeftTypes DEF Typed
<1>2. ASSUME NEW i \in DOMAIN pending, Served(i) \/ InVain(i)
      PROVE  \/ state' = state
             \/ /\ state \in Nat /\ state' = state + 1 /\ state' \in {Metadata, Choice, Confirm}
                /\ shown' = shown
  BY <1>2, ServedStates DEF Served, InVain, StoreFrame
<1>3. CASE \/ UNCHANGED <<server, events, live, store, ui, pending, calm>> \/ ActEffect \/ Back \/ StreamLost \/ Heard
           \/ \E i \in DOMAIN pending : AnswerTaken(i)
  BY <1>3 DEF ActEffect, ActFrame, Back, StreamLost, Heard, AnswerTaken, AnswerFrame, server
<1>4. ASSUME NEW i \in DOMAIN gens, ThumbnailStep(i) \/ MetadataStep(i) PROVE state' = state
  BY <1>4, GeneratorFrame DEF Behind
<1>. QED BY <1>1, <1>2, <1>3, <1>4 DEF Moves

LEMMA TextWritten ==
  ASSUME rows \in [Clips -> Row], NEW c \in Clips, NEW text \in Nat, rows' = [rows EXCEPT ![c].text = text]
  PROVE  \A d \in Clips : /\ rows'[d].text = (IF d = c THEN text ELSE rows[d].text)
                          /\ rows'[d].path = rows[d].path /\ rows'[d].sel = rows[d].sel
BY DEF Row

LEMMA ServedKinds ==
  ASSUME NEW i
  PROVE  LET kind == pending[i].kind IN
         /\ ServedLoad(i) => kind = "load"
         /\ ServedThumbnail(i) => kind = "thumbnail"
         /\ ServedAdvance(i) => kind = "advance"
         /\ ServedSingle(i) => kind = "single"
         /\ ServedMetadata(i) => kind = "metadata"
         /\ ServedChoice(i) => kind = "choice"
BY DEF ServedLoad, ServedThumbnail, ServedAdvance, ServedSingle, ServedMetadata, ServedChoice

LEMMA RowsWritten ==
  ASSUME Typed, NEW i \in DOMAIN pending, Served(i) \/ InVain(i)
  PROVE  LET r == pending[i] IN
         /\ ServedSingle(i) =>
              /\ NewText \in Nat \ {0} /\ r.clip \in Clips
              /\ \A c \in Clips : rows'[c].text = (IF c = r.clip THEN NewText ELSE rows[c].text)
         /\ WritesOn(i) /\ r.kind = "metadata" =>
              \A c \in Clips : rows'[c].text \in {rows[c].text, r.body[c]}
         /\ WritesOn(i) /\ r.kind = "choice" =>
              \A c \in Clips : rows'[c].text \in {rows[c].text, r.body.edits[c]}
         /\ ServedSingle(i) \/ WritesOn(i) \/ \A c \in Clips : rows'[c].text = rows[c].text
         /\ (WritesOn(i) /\ r.kind = "choice") \/ \A c \in Clips : rows'[c].sel = rows[c].sel
         /\ \A c \in Clips : rows'[c].path = (rows[c].path \/ (ServedThumbnail(i) /\ c = r.clip))
<1>. DEFINE r == pending[i]
            Single == ServedSingle(i)
            Wrote == WritesOn(i)
            Drawn == ServedThumbnail(i)
<1>0. rows \in [Clips -> Row] /\ NewText \in Nat \ {0}
      /\ \A c \in Clips : rows[c] \in Row /\ rows[c].path \in BOOLEAN
  BY DEF Typed, ServerOK, RestOK, NewText, Row
<1>k. /\ Single => ~Wrote /\ ~Drawn
      /\ Wrote => ~Drawn
  BY ServedKinds DEF WritesOn
<1>1. CASE ServedSingle(i)
  <2>1. r.clip \in Clips /\ rows' = [rows EXCEPT ![r.clip].text = NewText] /\ r.kind = "single"
    BY <1>1 DEF ServedSingle
  <2>2. \A c \in Clips : /\ rows'[c].text = (IF c = r.clip THEN NewText ELSE rows[c].text)
                          /\ rows'[c].path = rows[c].path /\ rows'[c].sel = rows[c].sel
    BY <1>0, <2>1, TextWritten
  <2>. HIDE DEF Single, Wrote, Drawn
  <2>3. Single /\ ~Wrote /\ ~Drawn BY <1>1, <1>k DEF Single
  <2>. QED BY <1>0, <2>1, <2>2, <2>3 DEF Single, Wrote, Drawn
<1>2. CASE WritesOn(i)
  <2>1. r.kind \in {"metadata", "choice"} /\ \A c \in Clips : rows'[c].path = rows[c].path
    BY <1>0, <1>2, SubmissionWritten DEF WritesOn
  <2>2. CASE r.kind = "metadata"
    <3>1. \A c \in Clips : rows'[c].text \in {rows[c].text, r.body[c]} /\ rows'[c].sel = rows[c].sel
      BY <1>0, <1>2, <2>2, SubmissionWritten
    <3>. HIDE DEF Single, Wrote, Drawn
    <3>2. ~Single /\ Wrote /\ ~Drawn BY <1>2, <1>k DEF Wrote
    <3>. QED BY <1>0, <2>1, <2>2, <3>1, <3>2 DEF Single, Wrote, Drawn
  <2>3. CASE r.kind = "choice"
    <3>1. \A c \in Clips : rows'[c].text \in {rows[c].text, r.body.edits[c]}
      BY <1>0, <1>2, <2>3, SubmissionWritten
    <3>. HIDE DEF Single, Wrote, Drawn
    <3>2. ~Single /\ Wrote /\ ~Drawn BY <1>2, <1>k DEF Wrote
    <3>. QED BY <1>0, <2>1, <2>3, <3>1, <3>2 DEF Single, Wrote, Drawn
  <2>. QED BY <2>1, <2>2, <2>3
<1>4. CASE ServedThumbnail(i)
  <2>1. r.clip \in Clips /\ rows' = [rows EXCEPT ![r.clip].path = TRUE] /\ r.kind = "thumbnail"
    BY <1>4 DEF ServedThumbnail
  <2>2. \A d \in Clips : rows'[d].text = rows[d].text /\ rows'[d].sel = rows[d].sel
                              /\ (rows'[d].path = (rows[d].path \/ d = r.clip))
    BY <1>0, <2>1, PathWritten
  <2>. HIDE DEF Single, Wrote, Drawn
  <2>3. ~Single /\ ~Wrote /\ Drawn BY <1>4, <1>k DEF Drawn
  <2>4. \A c \in Clips : rows'[c].path = (rows[c].path \/ (Drawn /\ c = r.clip)) BY <2>2, <2>3
  <2>5. \A c \in Clips : rows'[c].text = rows[c].text /\ rows'[c].sel = rows[c].sel BY <2>2
  <2>. QED BY <2>3, <2>4, <2>5 DEF Single, Wrote, Drawn
<1>5. CASE ~(ServedSingle(i) \/ WritesOn(i) \/ ServedThumbnail(i))
  <2>1. rows' = rows
    BY <1>5 DEF Served, ServedLoad, ServedGenerate, ServedAdvance, ServedRegenerate, ServedMetadata, ServedChoice,
                InVain, TakenUp, server
  <2>. HIDE DEF Single, Wrote, Drawn
  <2>3. ~Single /\ ~Wrote /\ ~Drawn BY <1>5 DEF Single, Wrote, Drawn
  <2>. QED BY <1>0, <2>1, <2>3 DEF Single, Wrote, Drawn
<1>. QED BY <1>1, <1>2, <1>4, <1>5

LEMMA RowsDrawn ==
  ASSUME Typed, NEW i \in DOMAIN gens, ThumbnailStep(i)
  PROVE  \A c \in Clips :
            /\ rows'[c].text = rows[c].text /\ rows'[c].sel = rows[c].sel /\ (rows[c].path => rows'[c].path)
            /\ \/ rows'[c].path = rows[c].path
               \/ rows'[c].path /\ Published(ThumbEvent("done", c))
<1>. DEFINE c == gens[i].at + 1
<1>0. rows \in [Clips -> Row] BY DEF Typed, ServerOK
<1>1. CASE rows' = rows BY <1>1
<1>2. CASE gens[i].open /\ rows' = [rows EXCEPT ![c].path = TRUE] /\ Published(ThumbEvent("done", c))
  <2>1. c \in Clips BY <1>2, ThumbnailStepCases DEF Typed
  <2>. HIDE DEF c
  <2>2. \A d \in Clips : rows'[d].text = rows[d].text /\ rows'[d].sel = rows[d].sel
                              /\ (rows'[d].path = (rows[d].path \/ d = c))
    BY <1>0, <1>2, <2>1, PathWritten
  <2>3. \A d \in Clips : rows[d].path \in BOOLEAN BY <1>0 DEF Row
  <2>. SUFFICES ASSUME NEW d \in Clips
                PROVE  /\ rows[d].path => rows'[d].path
                       /\ \/ rows'[d].path = rows[d].path
                          \/ rows'[d].path /\ Published(ThumbEvent("done", d))
    BY <2>2
  <2>4. CASE d = c BY <1>2, <2>2, <2>4
  <2>5. CASE d # c
    <3>1. rows'[d].path = rows[d].path BY <2>2, <2>3, <2>5
    <3>. QED BY <3>1
  <2>. QED BY <2>4, <2>5
<1>3. rows' = rows \/ (gens[i].open /\ rows' = [rows EXCEPT ![c].path = TRUE] /\ Published(ThumbEvent("done", c)))
  BY ThumbnailStepCases DEF Typed
<1>. QED BY <1>1, <1>2, <1>3

LEMMA RowsTold ==
  ASSUME Typed, NEW i \in DOMAIN gens, MetadataStep(i)
  PROVE  /\ \A c \in Clips : rows'[c].path = rows[c].path /\ rows'[c].sel = rows[c].sel
         /\ \/ rows' = rows
            \/ /\ gens[i].stage = "generating" /\ UNCHANGED events /\ Runs' = RunsBut(i) \cup {Writer("generated")}
               /\ NewText \in Nat \ {0}
               /\ calm' => /\ calm /\ state = Metadata /\ \E c \in Clips : rows'[c].text = NewText
                           /\ \A r \in Asks : r.kind = "single" => ~r.busy
<1>1. CASE rows' = rows BY <1>1
<1>2. CASE rows' # rows
  <2>1. /\ gens[i].stage = "generating" /\ UNCHANGED events /\ Runs' = RunsBut(i) \cup {Writer("generated")}
        /\ \E n \in 0 .. NumClips :
              /\ rows' = [c \in Clips |-> IF c <= n THEN [rows[c] EXCEPT !.text = NewText] ELSE rows[c]]
              /\ calm' = (calm /\ state = Metadata /\ n > 0 /\ ~Singled)
    BY <1>2, MetadataStepCases DEF Typed
  <2>2. PICK n \in 0 .. NumClips :
              /\ rows' = [c \in Clips |-> IF c <= n THEN [rows[c] EXCEPT !.text = NewText] ELSE rows[c]]
              /\ calm' = (calm /\ state = Metadata /\ n > 0 /\ ~Singled)
    BY <2>1
  <2>3. /\ NewText \in Nat \ {0}
        /\ \A c \in Clips : /\ rows'[c].text = IF c <= n THEN NewText ELSE rows[c].text
                            /\ rows'[c].path = rows[c].path /\ rows'[c].sel = rows[c].sel
    BY <2>2, TextsWritten DEF Typed, ServerOK
  <2>4. n > 0 => 1 \in Clips /\ 1 <= n BY ClipsAreThere
  <2>5. ~Singled => \A r \in Asks : r.kind = "single" => ~r.busy BY DEF Singled, Asks, Range
  <2>. QED BY <2>1, <2>2, <2>3, <2>4, <2>5
<1>. QED BY <1>1, <1>2
-----------------------------------------------------------------------------
(* The lists of clips.                                                     *)

LEMMA ListsKnown ==
  ASSUME Typed, NEW list \in KnownLists
  PROVE  /\ list \in [Clips -> Row]
         /\ \/ clips # <<>> /\ list = clips
            \/ \E r \in Asks : Answered(r) /\ list = r.reply
<1>1. CASE clips # <<>> /\ list = clips BY <1>1 DEF Typed, PageOK, ClipLists
<1>2. ASSUME NEW r \in Asks, r.kind = "load", r.reply \notin {Null, Refused}, list = r.reply
      PROVE  list \in [Clips -> Row] /\ Answered(r)
  <2>1. r \in Requests BY RangeIn DEF Typed, PageOK, Asks
  <2>2. r.reply \in {Null} \cup RepliesTo("load") BY <1>2, <2>1, RequestFormed DEF Formed
  <2>3. r.reply \in {Null, Refused} \cup [Clips -> Row] BY <2>2 DEF RepliesTo
  <2>. QED BY <1>2, <2>3 DEF Answered, LoadOf
<1>. QED BY <1>1, <1>2 DEF KnownLists

LEMMA ListsHere ==
  /\ clips # <<>> => clips \in KnownLists
  /\ \A r \in Asks : Answered(r) => r.reply \in KnownLists
BY DEF KnownLists, Answered, LoadOf

LEMMA ListsNew ==
  ASSUME NEW list \in KnownLists'
  PROVE  \/ clips' # <<>> /\ list = clips'
         \/ \E q \in Asks' : q.kind = "load" /\ q.reply \notin {Null, Refused} /\ list = q.reply
BY DEF KnownLists

LEMMA ListsFrom ==
  ASSUME NEW S, S \subseteq Asks, From(S), NEW list \in KnownLists'
  PROVE  \/ clips' # <<>> /\ list = clips'
         \/ \E r \in S : Answered(r) /\ list = r.reply
<1>1. ASSUME NEW q \in Asks', q.kind = "load", q.reply \notin {Null, Refused}, list = q.reply
      PROVE  \E r \in S : Answered(r) /\ list = r.reply
  <2>1. q \notin {Load, Preview} BY <1>1, LoadKinds
  <2>2. PICK r \in S : Same(q, r) BY <2>1 DEF From
  <2>. QED BY <1>1, <2>2 DEF Same, SameRequest, Answered, LoadOf
<1>. QED BY <1>1, ListsNew

(* One thumbnail more.                                                     *)
PathShown(c) ==
  /\ PathComes(c) /\ rows' = rows
  /\ Asks' \subseteq Asks \cup {Preview}
  /\ (clips # <<>>) = (clips' # <<>>) /\ clips' = WithPath(c)
  /\ calm' => calm /\ ~(shown > Thumbnails) /\ ~StaleIn(Asks)

LEMMA AnswerShown ==
  ASSUME Typed, NEW i \in DOMAIN pending, AnsweredThumbnail(i), AnswerFrame
  PROVE  pending[i].clip \in Clips /\ PathShown(pending[i].clip)
<1>. DEFINE r == pending[i]
<1>1. /\ r.kind = "thumbnail" /\ r.reply = TRUE /\ r.clip \in Clips /\ rows' = rows
      /\ \E u : Refreshed(WithPath(r.clip), u, RestOf(i))
      /\ calm' = (calm /\ ~(shown > Thumbnails \/ StaleIn(Asks)))
  BY DEF AnsweredThumbnail, AnswerFrame, server
<1>2. r \in Asks /\ RestOf(i) \subseteq Asks BY AskedFor DEF Typed, PageOK
<1>3. PathComes(r.clip) BY <1>1, <1>2 DEF PathComes
<1>4. clips' = WithPath(r.clip) /\ Asks' \subseteq Asks \cup {Preview} BY <1>1, <1>2 DEF Refreshed
<1>5. (WithPath(r.clip) = <<>>) = (clips = <<>>) BY <1>1, WithPathOf DEF Typed, PageOK
<1>6. calm' => calm /\ ~(shown > Thumbnails) /\ ~StaleIn(Asks) BY <1>1
<1>. QED BY <1>1, <1>3, <1>4, <1>5, <1>6 DEF PathShown

LEMMA HeardShown ==
  ASSUME Typed, Heard, NEW e, e = Head(events), e.type = "thumbnail", e.status = "done"
  PROVE  e.clip \in Clips /\ PathShown(e.clip)
<1>1. HeardThumbnail(e) /\ rows' = rows /\ Head(events) \in Range(events)
  BY EventTaken DEF Heard, HeardState, HeardMetadata, server, Typed, ServerOK
<1>2. /\ e.clip \in Clips /\ Refreshed(WithPath(e.clip), ui, Asks)
      /\ calm' = (calm /\ ~(shown > Thumbnails \/ StaleIn(Asks)))
  BY <1>1 DEF HeardThumbnail
<1>3. PathComes(e.clip) BY <1>1 DEF PathComes
<1>4. clips' = WithPath(e.clip) /\ Asks' \subseteq Asks \cup {Preview} BY <1>2 DEF Refreshed
<1>5. (WithPath(e.clip) = <<>>) = (clips = <<>>) BY <1>2, WithPathOf DEF Typed, PageOK
<1>. QED BY <1>1, <1>2, <1>3, <1>4, <1>5 DEF PathShown

LEMMA ListsNext ==
  ASSUME Typed, Moves, NEW list \in KnownLists'
  PROVE  \/ list \in KnownLists
         \/ list = rows /\ rows' = rows
         \/ \E c \in Clips : PathShown(c) /\ clips # <<>> /\ list = WithPath(c) /\ list = clips'
<1>0. \A i \in DOMAIN pending : RestOf(i) \subseteq Asks /\ pending[i] \in Asks BY AskedFor DEF Typed, PageOK
<1>a. ASSUME NEW S, S \subseteq Asks, From(S), clips' = clips PROVE list \in KnownLists
  BY <1>a, ListsFrom, ListsHere
<1>b. ASSUME NEW S, S \subseteq Asks, From(S), NEW c \in Clips, PathShown(c)
      PROVE  list \in KnownLists \/ (clips # <<>> /\ list = WithPath(c) /\ list = clips')
  BY <1>b, ListsFrom, ListsHere DEF PathShown
<1>1. CASE UNCHANGED <<server, events, live, store, ui, pending, calm>> \/ StreamLost
  <2>1. Asks' = Asks /\ clips' = clips BY <1>1 DEF store, Asks, StreamLost
  <2>. QED BY <2>1 DEF KnownLists
<1>2. CASE ActEffect
  <2>1. clips' = clips /\ \A r \in Asks' \ Asks : r.kind # "load"
    BY <1>2 DEF ActEffect, ActFrame, NewRequest
  <2>2. \A r \in Asks' : r.kind = "load" => r \in Asks BY <2>1
  <2>. QED BY <2>1, <2>2, ListsNew DEF KnownLists
<1>3. CASE Back BY <1>3, <1>a, PageAsks DEF Back
<1>4. CASE Resubmit
  <2>1. Asks' = {} /\ clips' = <<>> BY <1>4, EmptyPending DEF Resubmit, Asks
  <2>. QED BY <2>1, ListsNew
<1>5. CASE Heard
  <2>. DEFINE e == Head(events)
  <2>0. From(Asks) BY <1>5, PageAsks
  <2>1. CASE e.type = "thumbnail" /\ e.status = "done" BY <1>5, <2>0, <2>1, <1>b, HeardShown
  <2>2. CASE ~(e.type = "thumbnail" /\ e.status = "done")
    <3>1. clips' = clips BY <1>5, <2>2 DEF Heard, HeardState, HeardThumbnail, HeardMetadata
    <3>. QED BY <1>a, <2>0, <3>1
  <2>. QED BY <2>1, <2>2
<1>6. ASSUME NEW i \in DOMAIN gens, ThumbnailStep(i) \/ MetadataStep(i) PROVE list \in KnownLists
  <2>1. Asks' = Asks /\ clips' = clips BY <1>6, GeneratorFrame DEF Behind, store
  <2>. QED BY <2>1 DEF KnownLists
<1>7. ASSUME NEW i \in DOMAIN pending, Served(i) \/ InVain(i)
      PROVE  list \in KnownLists \/ (list = rows /\ rows' = rows)
  <2>1. clips' = clips /\ ServerAsked(i) BY <1>7, ServerAsks DEF Served, InVain, StoreFrame
  <2>2. CASE clips' # <<>> /\ list = clips' BY <2>1, <2>2, ListsHere
  <2>3. ASSUME NEW q \in Asks', q.kind = "load", q.reply \notin {Null, Refused}, list = q.reply
        PROVE  list \in KnownLists \/ (list = rows /\ rows' = rows)
    <3>1. CASE q \in RestOf(i) BY <1>0, <2>3, <3>1 DEF KnownLists
    <3>2. CASE q \notin RestOf(i)
      <4>1. q.reply = rows /\ ServedLoad(i) BY <1>7, <2>3, <3>2, ServedReplies
      <4>. QED BY <2>3, <4>1 DEF ServedLoad, server
    <3>. QED BY <3>1, <3>2
  <2>. QED BY <2>2, <2>3, ListsNew
<1>8. ASSUME NEW i \in DOMAIN pending, AnswerTaken(i)
      PROVE  \/ list \in KnownLists
             \/ \E c \in Clips : PathShown(c) /\ clips # <<>> /\ list = WithPath(c) /\ list = clips'
  <2>0. From(RestOf(i)) /\ AnswerFrame BY <1>8, PageAsks DEF AnswerTaken
  <2>1. CASE AnsweredThumbnail(i) BY <1>0, <2>0, <2>1, <1>b, AnswerShown
  <2>2. CASE AnsweredLoad(i)
    <3>1. clips' = pending[i].reply /\ Answered(pending[i]) BY <2>2 DEF AnsweredLoad, Refreshed
    <3>. QED BY <1>0, <2>0, <3>1, ListsFrom, ListsHere
  <2>3. CASE ~AnsweredThumbnail(i) /\ ~AnsweredLoad(i)
    <3>1. clips' = clips
      BY <1>8, <2>3 DEF AnswerTaken, AnsweredInVain, AnsweredAdvance, AnsweredSingle, SameView
    <3>. QED BY <1>0, <1>a, <2>0, <3>1
  <2>. QED BY <2>1, <2>2, <2>3
<1>. QED BY <1>1, <1>2, <1>3, <1>4, <1>5, <1>6, <1>7, <1>8 DEF Moves
-----------------------------------------------------------------------------
(* What moves the rows, the requests and the generators.                   *)

LEMMA RowsMove ==
  ASSUME Moves
  PROVE  \/ rows' = rows
         \/ \E i \in DOMAIN pending : Served(i) \/ InVain(i)
         \/ \E i \in DOMAIN gens : ThumbnailStep(i) \/ MetadataStep(i)
<1>1. CASE \/ UNCHANGED <<server, events, live, store, ui, pending, calm>>
           \/ ActEffect \/ Back \/ Resubmit \/ StreamLost \/ Heard
           \/ \E i \in DOMAIN pending : AnswerTaken(i)
  BY <1>1 DEF ActEffect, ActFrame, Back, Resubmit, StreamLost, Heard, AnswerTaken, AnswerFrame, server
<1>. QED BY <1>1 DEF Moves

LEMMA AsksMove ==
  ASSUME Typed, Moves
  PROVE  \/ From(Asks) \/ Asks' = {}
         \/ Asks \subseteq Asks' /\ \A q \in Asks' \ Asks : NewRequest(q)
         \/ \E i \in DOMAIN pending : ServerAsked(i) /\ (Served(i) \/ InVain(i))
<1>1. CASE Asks' = Asks BY <1>1
<1>2. CASE UNCHANGED <<server, events, live, store, ui, pending, calm>> \/ StreamLost
  <2>1. Asks' = Asks BY <1>2 DEF StreamLost, Asks
  <2>. QED BY <1>1, <2>1
<1>3. CASE ActEffect BY <1>3 DEF ActEffect
<1>4. CASE Back \/ Heard BY <1>4, PageAsks
<1>5. CASE Resubmit BY <1>5, EmptyPending DEF Resubmit, Asks
<1>6. ASSUME NEW i \in DOMAIN gens, ThumbnailStep(i) \/ MetadataStep(i) PROVE Asks' = Asks
  BY <1>6, GeneratorFrame
<1>7. ASSUME NEW i \in DOMAIN pending, Served(i) \/ InVain(i) PROVE ServerAsked(i) BY <1>7, ServerAsks
<1>8. ASSUME NEW i \in DOMAIN pending, AnswerTaken(i) PROVE From(Asks)
  <2>1. RestOf(i) \subseteq Asks BY AskedFor DEF Typed, PageOK
  <2>. QED BY <1>8, <2>1, PageAsks DEF From
<1>. QED BY <1>1, <1>2, <1>3, <1>4, <1>5, <1>6, <1>7, <1>8 DEF Moves

(* A submission that is half written stays so as long as it can advance    *)
(* the run.                                                                *)
LEMMA MidwayStays ==
  ASSUME Typed, Moves, NEW kind \in {"metadata", "choice"}, calm', UNCHANGED state,
         state = (IF kind = "metadata" THEN Metadata ELSE Choice), Midway(kind)
  PROVE  Midway(kind)'
<1>0. PICK r \in Asks : r.kind = kind /\ r.busy /\ r.clip > 0 /\ r.reply = Null BY DEF Midway
<1>a. ASSUME NEW S, r \in S, Keeps(S) PROVE Midway(kind)'
  BY <1>0, <1>a DEF Keeps, Same, SameRequest, Midway
<1>1. CASE UNCHANGED <<server, events, live, store, ui, pending, calm>> \/ StreamLost
  <2>1. Asks' = Asks BY <1>1 DEF StreamLost, Asks
  <2>. QED BY <1>0, <2>1 DEF Midway
<1>2. CASE ActEffect BY <1>0, <1>2 DEF ActEffect, Midway
<1>3. CASE Back \/ Heard BY <1>a, <1>3, PageAsks
<1>4. ~Resubmit BY DEF Resubmit, Metadata, Choice
<1>5. ASSUME NEW i \in DOMAIN gens, ThumbnailStep(i) \/ MetadataStep(i) PROVE Midway(kind)'
  <2>1. Asks' = Asks BY <1>5, GeneratorFrame
  <2>. QED BY <1>0, <2>1 DEF Midway
<1>6. ASSUME NEW i \in DOMAIN pending, Served(i) \/ InVain(i) PROVE Midway(kind)'
  <2>0. RestOf(i) \subseteq Asks' /\ Asks = RestOf(i) \cup {pending[i]} BY <1>6, ServerAsks DEF ServerAsked
  <2>1. CASE r \in RestOf(i) BY <1>0, <2>0, <2>1 DEF Midway
  <2>2. CASE r = pending[i]
    <3>1. HalfDone(r) BY <1>0 DEF HalfDone, Metadata, Choice
    <3>2. ~InVain(i) BY <2>2, <3>1 DEF InVain
    <3>3. ~ServedMetadata(i) /\ ~ServedChoice(i)
      BY DEF ServedMetadata, ServedChoice, Metadata, Choice, Confirm
    <3>4. ~TakenUp(i) BY <1>0, <2>2 DEF TakenUp
    <3>5. WritesOn(i)
      BY <1>0, <1>6, <2>2, <3>2, <3>3, <3>4
      DEF Served, ServedLoad, ServedGenerate, ServedThumbnail, ServedAdvance, ServedRegenerate, ServedSingle
    <3>. QED BY <1>0, <2>2, <3>5 DEF WritesOn, Midway, SameRequest
  <2>. QED BY <2>0, <2>1, <2>2
<1>7. ASSUME NEW i \in DOMAIN pending, AnswerTaken(i) PROVE Midway(kind)'
  <2>1. pending[i].reply # Null BY <1>7 DEF AnswerTaken, AnsweredInVain, AnsweredLoad, AnsweredThumbnail,
                                            AnsweredAdvance, AnsweredSingle
  <2>2. Asks = RestOf(i) \cup {pending[i]} BY AskedFor DEF Typed, PageOK
  <2>. QED BY <1>0, <1>7, <1>a, <2>1, <2>2, PageAsks
<1>. QED BY <1>1, <1>2, <1>3, <1>4, <1>5, <1>6, <1>7 DEF Moves

LEMMA RunsMove ==
  ASSUME Typed, Moves, NEW g \in Runs'
  PROVE  \/ g \in Runs \/ g.kind = "thumbnails" \/ state' # Thumbnails
         \/ \E h \in Runs : h.kind = "metadata"
<1>1. CASE \/ UNCHANGED <<server, events, live, store, ui, pending, calm>>
           \/ ActEffect \/ Back \/ StreamLost \/ Heard
           \/ \E i \in DOMAIN pending : AnswerTaken(i)
  BY <1>1 DEF ActEffect, ActFrame, Back, StreamLost, Heard, AnswerTaken, AnswerFrame, server, Runs
<1>2. CASE Resubmit BY <1>2 DEF Resubmit, Thumbnails
<1>3. ASSUME NEW i \in DOMAIN gens, MetadataStep(i) PROVE \E h \in Runs : h.kind = "metadata"
  BY <1>3, MetadataStepCases DEF Typed
<1>4. ASSUME NEW i \in DOMAIN gens, ThumbnailStep(i) PROVE g \in Runs \/ g.kind = "thumbnails"
  <2>1. RunsBut(i) \subseteq Runs BY GensSplit DEF Typed, ServerOK
  <2>2. \A at, open : Batch(at, open).kind = "thumbnails" BY DEF Batch
  <2>3. Runs' = RunsBut(i) \/ \E at, open : Runs' = RunsBut(i) \cup {Batch(at, open)}
    BY <1>4, ThumbnailStepCases DEF Typed
  <2>. QED BY <2>1, <2>2, <2>3
<1>5. ASSUME NEW i \in DOMAIN pending, Served(i) \/ InVain(i)
      PROVE  g \in Runs \/ g.kind = "thumbnails" \/ state' # Thumbnails
  <2>1. CASE ServedGenerate(i) BY <2>1 DEF ServedGenerate, Batch
  <2>2. CASE ServedAdvance(i)
    <3>1. CASE state = Thumbnails BY <2>2, <3>1 DEF ServedAdvance, Thumbnails
    <3>2. CASE state # Thumbnails BY <2>2, <3>2 DEF ServedAdvance, Runs
    <3>. QED BY <3>1, <3>2
  <2>3. CASE ServedRegenerate(i) BY <2>3 DEF ServedRegenerate, Thumbnails, Metadata
  <2>4. CASE ~(ServedGenerate(i) \/ ServedAdvance(i) \/ ServedRegenerate(i))
    BY <1>5, <2>4 DEF Served, ServedLoad, ServedThumbnail, ServedSingle, ServedMetadata, ServedChoice,
                      InVain, TakenUp, WritesOn, server, Runs
  <2>. QED BY <2>1, <2>2, <2>3, <2>4
<1>. QED BY <1>1, <1>2, <1>3, <1>4, <1>5 DEF Moves
LEMMA CalmBefore == ASSUME Typed, Moves PROVE (calm' => calm) /\ (live' => live)
<1>1. CASE UNCHANGED <<server, events, live, store, ui, pending, calm>> \/ ActEffect \/ Back
  BY <1>1 DEF ActEffect, ActFrame, Back
<1>2. CASE Resubmit \/ StreamLost BY <1>2 DEF Resubmit, StreamLost
<1>3. CASE Heard
  <2>1. calm' => calm BY <1>3 DEF Heard, HeardState, HeardThumbnail, HeardMetadata
  <2>. QED BY <1>3, <2>1 DEF Heard
<1>4. ASSUME NEW i \in DOMAIN gens, ThumbnailStep(i) \/ MetadataStep(i) PROVE (calm' => calm) /\ (live' => live)
  <2>1. calm' => calm BY <1>4, GeneratorFrame
  <2>2. live' = live BY <1>4, GeneratorFrame DEF Behind
  <2>. QED BY <2>1, <2>2
<1>5. ASSUME NEW i \in DOMAIN pending, Served(i) \/ InVain(i) PROVE (calm' => calm) /\ (live' => live)
  <2>1. calm' => calm
    BY <1>5 DEF Served, ServedLoad, ServedGenerate, ServedThumbnail, ServedAdvance, ServedRegenerate, ServedSingle,
                ServedMetadata, ServedChoice, InVain, TakenUp, WritesOn, Told
  <2>2. live' = live BY <1>5 DEF Served, InVain, StoreFrame
  <2>. QED BY <2>1, <2>2
<1>6. ASSUME NEW i \in DOMAIN pending, AnswerTaken(i) PROVE (calm' => calm) /\ (live' => live)
  <2>1. calm' => calm
    BY <1>6 DEF AnswerTaken, AnsweredInVain, AnsweredLoad, AnsweredThumbnail, AnsweredAdvance, AnsweredSingle
  <2>2. live' = live BY <1>6 DEF AnswerTaken, AnswerFrame
  <2>. QED BY <2>1, <2>2
<1>. QED BY <1>1, <1>2, <1>3, <1>4, <1>5, <1>6 DEF Moves

-----------------------------------------------------------------------------
(* The clips as they were cut.                                             *)

LEMMA WrittenMidway ==
  ASSUME NEW i, WritesOn(i)
  PROVE  (pending[i].kind = "metadata" => Midway("metadata")') /\ (pending[i].kind = "choice" => Midway("choice")')
<1>1. PICK q \in Requests : /\ Asks' = RestOf(i) \cup {q} /\ SameRequest(q, pending[i])
                            /\ q.clip = pending[i].clip + 1 /\ q.reply = Null /\ q.busy
  BY DEF WritesOn
<1>2. q.clip > 0 BY <1>1 DEF WritesOn
<1>3. q \in Asks' /\ q.kind = pending[i].kind BY <1>1 DEF SameRequest
<1>. QED BY <1>1, <1>2, <1>3 DEF Midway

LEMMA SingleAt == ASSUME NEW i, ServedSingle(i), calm' PROVE state = Metadata
<1>1. calm' = (calm /\ state = Metadata /\ \A g \in Runs : g.kind # "metadata") BY DEF ServedSingle
<1>. QED BY <1>1

(* As long as the run can be at the choice, a choice that is not half      *)
(* written was not before.                                                 *)
LEMMA NoChoiceBefore ==
  ASSUME Early, Typed, Moves, calm', ~Midway("choice")', state' \in {Thumbnails, Metadata, Choice}
  PROVE  calm /\ ~Midway("choice") /\ state \in {Thumbnails, Metadata, Choice}
<1>1. state' = state \/ (state \in {Thumbnails, Metadata} /\ state' = state + 1)
  <2>1. CASE state' = state BY <2>1
  <2>2. CASE state \in Nat /\ state' = state + 1 /\ state' \in {Metadata, Choice, Confirm}
    <3>1. state' = 2 \/ state' = 3 BY <2>2 DEF Thumbnails, Metadata, Choice, Confirm
    <3>2. state = 1 \/ state = 2 BY <2>2, <3>1
    <3>. QED BY <2>2, <3>2 DEF Thumbnails, Metadata
  <2>. QED BY <2>1, <2>2, StateNext DEF Thumbnails, Metadata, Choice
<1>2. ASSUME Midway("choice") PROVE FALSE
  <2>1. state \notin {Thumbnails, Metadata} BY <1>2 DEF Early, Midway
  <2>2. state' = state /\ state = Choice BY <1>1, <2>1
  <2>3. Midway("choice")' BY <1>2, <2>2, MidwayStays
  <2>. QED BY <2>3
<1>. QED BY <1>1, <1>2, CalmBefore

LEMMA EarlyStep == ASSUME Early, Singles, Typed, Moves PROVE Early'
<1>0. rows \in [Clips -> Row] /\ Asks \subseteq Asks BY DEF Typed, ServerOK
<1>1. ASSUME state' = Thumbnails PROVE state = Thumbnails
  BY <1>1, StateNext DEF Thumbnails, Metadata, Choice, Confirm
<1>2. ASSUME state' \in {Thumbnails, Metadata} PROVE state \in {Thumbnails, Metadata}
  <2>1. CASE state' = state BY <1>2, <2>1
  <2>2. CASE state \in Nat /\ state' = state + 1 /\ state' \in {Metadata, Choice, Confirm}
    <3>1. state' = 2 BY <1>2, <2>2 DEF Thumbnails, Metadata, Choice, Confirm
    <3>2. state = 1 BY <2>2, <3>1
    <3>. QED BY <3>2 DEF Thumbnails
  <2>. QED BY <1>2, <2>1, <2>2, StateNext DEF Thumbnails, Metadata
<1>3. ASSUME calm', ~Midway("choice")' PROVE \A c \in Clips : rows'[c].sel = rows[c].sel
  <2>1. CASE rows' = rows BY <2>1
  <2>2. ASSUME NEW i \in DOMAIN pending, Served(i) \/ InVain(i) PROVE \A c \in Clips : rows'[c].sel = rows[c].sel
    <3>1. ~(WritesOn(i) /\ pending[i].kind = "choice")
      <4>. QED BY <1>3, WrittenMidway
    <3>. QED BY <2>2, <3>1, RowsWritten
  <2>3. ASSUME NEW i \in DOMAIN gens, ThumbnailStep(i) \/ MetadataStep(i)
        PROVE  \A c \in Clips : rows'[c].sel = rows[c].sel
    BY <2>3, RowsDrawn, RowsTold
  <2>. QED BY <2>1, <2>2, <2>3, RowsMove
<1>4. ASSUME calm', ~Midway("choice")', state' \in {Thumbnails, Metadata, Choice},
             NEW list \in KnownLists' \cup {rows'}
      PROVE  Whole(list)
  <2>0. calm /\ ~Midway("choice") /\ state \in {Thumbnails, Metadata, Choice} BY <1>4, NoChoiceBefore
  <2>1. \A l \in KnownLists \cup {rows} : Whole(l) BY <2>0 DEF Early
  <2>2. CASE list = rows' BY <1>3, <1>4, <2>1, <2>2 DEF Whole
  <2>3. CASE list \in KnownLists \cup {rows} BY <2>1, <2>3
  <2>4. ASSUME NEW c \in Clips, clips # <<>>, list = WithPath(c) PROVE Whole(list)
    <3>1. Whole(clips) BY <2>1, <2>4, ListsHere
    <3>. QED BY <2>4, <3>1, WithPathOf DEF Whole, Typed, PageOK
  <2>. QED BY <1>4, <2>2, <2>3, <2>4, ListsNext
<1>5. ASSUME state' = Thumbnails
      PROVE  /\ \A list \in KnownLists' \cup {rows'} : AsCut(list)
             /\ \A g \in Runs' : g.kind = "thumbnails"
             /\ \A r \in Asks' : r.busy => r.kind = "thumbnail"
  <2>0. /\ state = Thumbnails
        /\ \A l \in KnownLists \cup {rows} : AsCut(l)
        /\ \A g \in Runs : g.kind = "thumbnails"
        /\ \A r \in Asks : r.busy => r.kind = "thumbnail"
    BY <1>1, <1>5 DEF Early
  <2>1. \A c \in Clips : rows'[c].text = rows[c].text
    <3>1. CASE rows' = rows BY <3>1
    <3>2. ASSUME NEW i \in DOMAIN pending, Served(i) \/ InVain(i)
          PROVE  \A c \in Clips : rows'[c].text = rows[c].text
      <4>0. pending[i] \in Asks BY AskedFor DEF Typed, PageOK
      <4>1. ~ServedSingle(i) BY <2>0, <4>0 DEF ServedSingle
      <4>2. ~WritesOn(i) BY <2>0, <4>0 DEF WritesOn
      <4>. QED BY <3>2, <4>1, <4>2, RowsWritten
    <3>3. ASSUME NEW i \in DOMAIN gens, ThumbnailStep(i) \/ MetadataStep(i)
          PROVE  \A c \in Clips : rows'[c].text = rows[c].text
      <4>1. CASE ThumbnailStep(i) BY <4>1, RowsDrawn
      <4>2. CASE MetadataStep(i)
        <5>1. gens[i].kind = "metadata" /\ gens[i] \in Runs BY <4>2, MetadataStepCases DEF Typed
        <5>. QED BY <2>0, <5>1
      <4>. QED BY <3>3, <4>1, <4>2
    <3>. QED BY <3>1, <3>2, <3>3, RowsMove
  <2>2. ASSUME NEW list \in KnownLists' \cup {rows'} PROVE AsCut(list)
    <3>1. CASE list = rows' BY <2>0, <2>1, <3>1 DEF AsCut
    <3>2. CASE list \in KnownLists \cup {rows} BY <2>0, <3>2
    <3>3. ASSUME NEW c \in Clips, clips # <<>>, list = WithPath(c) PROVE AsCut(list)
      <4>1. AsCut(clips) BY <2>0, <3>3, ListsHere
      <4>. QED BY <3>3, <4>1, WithPathOf DEF AsCut, Typed, PageOK
    <3>. QED BY <2>2, <3>1, <3>2, <3>3, ListsNext
  <2>3. ASSUME NEW g \in Runs' PROVE g.kind = "thumbnails"
    <3>1. ~\E h \in Runs : h.kind = "metadata" BY <2>0
    <3>. QED BY <1>5, <2>0, <3>1, RunsMove
  <2>4. ASSUME NEW r \in Asks', r.busy PROVE r.kind = "thumbnail"
    <3>1. CASE From(Asks) BY <2>0, <2>4, <3>1, LoadKinds DEF From, Same, SameRequest
    <3>2. CASE \A q \in Asks' \ Asks : NewRequest(q) BY <2>0, <2>4, <3>2 DEF NewRequest
    <3>3. ASSUME NEW i \in DOMAIN pending, ServerAsked(i) PROVE r.kind = "thumbnail"
      <4>1. TakenUp(i) => pending[i].kind = "thumbnail" BY <2>0 DEF TakenUp, Thumbnails, Metadata, Choice
      <4>. QED BY <2>0, <2>4, <3>3, <4>1 DEF ServerAsked, SameRequest
    <3>. QED BY <3>1, <3>2, <3>3, AsksMove
  <2>. QED BY <2>2, <2>3, <2>4
<1>6. ASSUME NEW r \in Asks', r.kind = "choice", r.busy PROVE state' \notin {Thumbnails, Metadata}
  <2>1. SUFFICES ASSUME state' \in {Thumbnails, Metadata} PROVE FALSE OBVIOUS
  <2>2. state \in {Thumbnails, Metadata} /\ \A q \in Asks : ~(q.kind = "choice" /\ q.busy)
    BY <1>2, <2>1 DEF Early
  <2>3. CASE From(Asks) BY <1>6, <2>2, <2>3, LoadKinds DEF From, Same, SameRequest
  <2>4. CASE \A q \in Asks' \ Asks : NewRequest(q) BY <1>6, <2>2, <2>4 DEF NewRequest
  <2>5. ASSUME NEW i \in DOMAIN pending, ServerAsked(i) PROVE FALSE
    <3>1. TakenUp(i) => pending[i].kind # "choice" BY <2>2 DEF TakenUp, Thumbnails, Metadata, Choice
    <3>. QED BY <1>6, <2>2, <2>5, <3>1 DEF ServerAsked, SameRequest
  <2>. QED BY <2>3, <2>4, <2>5, AsksMove
<1>. QED BY <1>4, <1>5, <1>6 DEF Early
-----------------------------------------------------------------------------
(* The thumbnails that the page has heard of, or will.                     *)

LEMMA PathsWritten ==
  ASSUME PathsCome, Typed, Moves, NEW c \in Clips
  PROVE  /\ rows[c].path => rows'[c].path
         /\ rows'[c].path /\ live' => rows[c].path \/ PathComes(c)'
<1>1. CASE rows' = rows BY <1>1
<1>2. ASSUME NEW i \in DOMAIN pending, Served(i) \/ InVain(i)
      PROVE  /\ rows[c].path => rows'[c].path
             /\ rows'[c].path /\ live' => rows[c].path \/ PathComes(c)'
  <2>1. rows'[c].path = (rows[c].path \/ (ServedThumbnail(i) /\ c = pending[i].clip)) BY <1>2, RowsWritten
  <2>2. ServedThumbnail(i) /\ c = pending[i].clip => PathComes(c)'
    BY DEF ServedThumbnail, RepliedWith, AnswerTo, SameRequest, PathComes
  <2>. QED BY <2>1, <2>2
<1>3. ASSUME NEW i \in DOMAIN gens, MetadataStep(i)
      PROVE  /\ rows[c].path => rows'[c].path
             /\ rows'[c].path => rows[c].path
  BY <1>3, RowsTold
<1>4. ASSUME NEW i \in DOMAIN gens, ThumbnailStep(i)
      PROVE  /\ rows[c].path => rows'[c].path
             /\ rows'[c].path /\ live' => rows[c].path \/ PathComes(c)'
  <2>1. /\ rows[c].path => rows'[c].path
        /\ rows'[c].path => rows[c].path \/ Published(ThumbEvent("done", c))
    BY <1>4, RowsDrawn
  <2>2. live' = live BY <1>4, GeneratorFrame DEF Behind
  <2>3. ASSUME Published(ThumbEvent("done", c)), live PROVE PathComes(c)'
    <3>. DEFINE e == ThumbEvent("done", c)
    <3>1. e.type = "thumbnail" /\ e.status = "done" /\ e.clip = c /\ e \in Events
      BY EventsMade DEF ThumbEvent
    <3>. HIDE DEF e
    <3>2. e \in Range(events') BY <2>3, <3>1, PublishedEffect DEF Typed, ServerOK, e
    <3>. QED BY <3>1, <3>2 DEF PathComes
  <2>. QED BY <2>1, <2>2, <2>3
<1>. QED BY <1>1, <1>2, <1>3, <1>4, RowsMove

LEMMA PathKept ==
  ASSUME PathsCome, Typed, Moves, NEW c \in Clips, PathComes(c), calm', live'
  PROVE  PathComes(c)' \/ \A list \in KnownLists' : list[c].path
<1>0. \A i \in DOMAIN pending : RestOf(i) \subseteq Asks /\ pending[i] \in Asks /\ Asks = RestOf(i) \cup {pending[i]}
  BY AskedFor DEF Typed, PageOK
<1>a. ASSUME Keeps(Asks), UNCHANGED events PROVE PathComes(c)'
  BY <1>a DEF PathComes, Keeps, Same, SameRequest
<1>b. ASSUME PathShown(c), From(Asks), NEW list \in KnownLists' PROVE list[c].path
  <2>0. rows[c].path BY DEF PathsCome
  <2>1. CASE clips' # <<>> /\ list = clips' BY <1>b, <2>1, WithPathOf DEF PathShown, Typed, PageOK
  <2>2. ASSUME NEW r \in Asks, Answered(r), list = r.reply PROVE list[c].path
    <3>1. r.reply = rows BY <1>b, <2>2 DEF PathShown, StaleIn
    <3>. QED BY <2>0, <2>2, <3>1
  <2>. QED BY <1>b, <2>1, <2>2, ListsFrom
<1>1. CASE UNCHANGED <<server, events, live, store, ui, pending, calm>>
  BY <1>1 DEF PathComes, Asks
<1>2. CASE ActEffect BY <1>2 DEF ActEffect, ActFrame, PathComes
<1>3. CASE Back BY <1>3, <1>a, PageAsks DEF Back
<1>4. CASE Resubmit \/ StreamLost BY <1>4, LeftTypes, LostTypes DEF Typed
<1>5. CASE Heard
  <2>. DEFINE e == Head(events)
  <2>0. From(Asks) /\ Keeps(Asks) /\ Range(events) = {e} \cup Range(events')
    BY <1>5, PageAsks, EventTaken DEF Heard, Typed, ServerOK
  <2>1. CASE e.type = "thumbnail" /\ e.status = "done" /\ e.clip = c BY <1>5, <1>b, <2>0, <2>1, HeardShown
  <2>2. CASE ~(e.type = "thumbnail" /\ e.status = "done" /\ e.clip = c)
    BY <2>0, <2>2 DEF PathComes, Keeps, Same, SameRequest
  <2>. QED BY <2>1, <2>2
<1>6. ASSUME NEW i \in DOMAIN gens, ThumbnailStep(i) \/ MetadataStep(i) PROVE PathComes(c)'
  <2>1. Asks' = Asks BY <1>6, GeneratorFrame
  <2>2. Range(events) \subseteq Range(events')
    <3>1. events' = events \/ \E e \in Events : Published(e) BY <1>6, GeneratorEvents
    <3>. QED BY <3>1, PublishedEffect DEF Typed, ServerOK
  <2>. QED BY <2>1, <2>2 DEF PathComes
<1>7. ASSUME NEW i \in DOMAIN pending, Served(i) \/ InVain(i) PROVE PathComes(c)'
  <2>1. ServerAsked(i) /\ pending[i].reply = Null BY <1>7, ServerAsks DEF Served, InVain
  <2>2. \A r \in Asks : r.reply = TRUE => r \in Asks' BY <1>0, <2>1, NullRefused DEF ServerAsked
  <2>3. Range(events) \subseteq Range(events')
    <3>1. events' = events \/ \E e \in Events : Published(e) BY <1>7, ServedStates
    <3>. QED BY <3>1, PublishedEffect DEF Typed, ServerOK
  <2>. QED BY <2>2, <2>3 DEF PathComes
<1>8. ASSUME NEW i \in DOMAIN pending, AnswerTaken(i)
      PROVE  PathComes(c)' \/ \A list \in KnownLists' : list[c].path
  <2>0. From(RestOf(i)) /\ Keeps(RestOf(i)) /\ events' = events /\ AnswerFrame
    BY <1>8, PageAsks DEF AnswerTaken, AnswerFrame
  <2>1. CASE AnsweredThumbnail(i) /\ pending[i].clip = c
    <3>1. From(Asks) BY <1>0, <2>0 DEF From
    <3>. QED BY <1>b, <2>0, <2>1, <3>1, AnswerShown
  <2>2. CASE ~(AnsweredThumbnail(i) /\ pending[i].clip = c)
    <3>1. ~(pending[i].kind = "thumbnail" /\ pending[i].clip = c /\ pending[i].reply = TRUE)
      BY <1>8, <2>2, NullRefused DEF AnswerTaken, AnsweredInVain, AnsweredLoad, AnsweredAdvance, AnsweredSingle
    <3>. QED BY <1>0, <2>0, <3>1 DEF PathComes, Keeps, Same, SameRequest
  <2>. QED BY <2>1, <2>2
<1>. QED BY <1>1, <1>2, <1>3, <1>4, <1>5, <1>6, <1>7, <1>8 DEF Moves

(* An event that is new.                                                   *)
LEMMA EventsMove ==
  ASSUME Typed, Moves, NEW e \in Range(events'), e \notin Range(events)
  PROVE  /\ e.type = "state" => e.to = state' /\ state' # state
         /\ e.type = "thumbnail" => \E i \in DOMAIN gens : ThumbnailStep(i)
         /\ e.type = "metadata" => \E i \in DOMAIN gens : MetadataStep(i)
<1>0. \A x \in Events : Published(x) => e = x BY PublishedEffect DEF Typed, ServerOK, RestOK
<1>1. CASE \/ UNCHANGED <<server, events, live, store, ui, pending, calm>> \/ ActEffect \/ Back
           \/ \E i \in DOMAIN pending : AnswerTaken(i)
  BY <1>1 DEF ActEffect, ActFrame, Back, AnswerTaken, AnswerFrame
<1>2. CASE Resubmit \/ StreamLost BY <1>2, EmptyPending DEF Resubmit, StreamLost
<1>3. CASE Heard BY <1>3, EventTaken DEF Heard, Typed, ServerOK
<1>4. ASSUME NEW i \in DOMAIN gens, ThumbnailStep(i) \/ MetadataStep(i)
      PROVE  e.type = (IF ThumbnailStep(i) THEN "thumbnail" ELSE "metadata")
  BY <1>0, <1>4, GeneratorEvents
<1>5. ASSUME NEW i \in DOMAIN pending, Served(i) \/ InVain(i)
      PROVE  e.type = "state" /\ e.to = state' /\ state' # state
  <2>1. e = StateEvent(state') /\ state' = state + 1 /\ state \in Nat BY <1>0, <1>5, ServedStates
  <2>. QED BY <2>1 DEF StateEvent
<1>. QED BY <1>1, <1>2, <1>3, <1>4, <1>5 DEF Moves

LEMMA DrawnMove ==
  ASSUME Typed, NEW i \in DOMAIN gens, ThumbnailStep(i), NEW e \in Range(events'), e \notin Range(events),
         e.type = "thumbnail", e.status = "done"
  PROVE  rows'[e.clip].path
<1>. DEFINE c == gens[i].at + 1
<1>0. \A x \in Events : Published(x) => e = x BY PublishedEffect DEF Typed, ServerOK, RestOK
<1>1. gens[i].open \/ gens[i].at < NumClips => c \in Clips BY ThumbnailStepCases DEF Typed
<1>. HIDE DEF c
<1>2. \A s : ThumbEvent(s, c).status = s /\ ThumbEvent(s, c).clip = c /\ ThumbEvent("batch_done", 0).status = "batch_done"
  BY DEF ThumbEvent
<1>3. /\ c \in Clips /\ rows' = [rows EXCEPT ![c].path = TRUE] /\ Published(ThumbEvent("done", c))
  BY <1>0, <1>1, <1>2, ThumbnailStepCases, EventsMade DEF Typed, c
<1>4. e.clip = c BY <1>0, <1>2, <1>3, EventsMade
<1>. QED BY <1>3, <1>4, PathWritten DEF Typed, ServerOK

LEMMA PathsStep == ASSUME PathsCome, Typed, Moves PROVE PathsCome'
<1>1. ASSUME NEW c \in Clips, PathComes(c)' PROVE rows'[c].path
  <2>0. PathComes(c) => rows'[c].path BY PathsWritten DEF PathsCome
  <2>1. ASSUME NEW q \in Asks', q.kind = "thumbnail", q.clip = c, q.reply = TRUE PROVE rows'[c].path
    <3>1. CASE From(Asks)
      <4>1. q \notin {Load, Preview} BY <2>1, LoadKinds
      <4>. QED BY <2>0, <2>1, <3>1, <4>1 DEF From, Same, SameRequest, PathComes
    <3>2. CASE \A r \in Asks' \ Asks : NewRequest(r)
      <4>1. q \in Asks BY <2>1, <3>2, NullRefused DEF NewRequest
      <4>. QED BY <2>0, <2>1, <4>1 DEF PathComes
    <3>3. ASSUME NEW i \in DOMAIN pending, ServerAsked(i), Served(i) \/ InVain(i) PROVE rows'[c].path
      <4>1. CASE q \in RestOf(i) BY <2>0, <2>1, <3>3, <4>1 DEF PathComes, ServerAsked
      <4>2. CASE q \notin RestOf(i)
        <5>1. ServedThumbnail(i) BY <2>1, <3>3, <4>2, ServedReplies, NullRefused
        <5>2. pending[i].clip = c BY <2>1, <3>3, <4>2 DEF ServerAsked, SameRequest
        <5>. QED BY <3>3, <5>1, <5>2, RowsWritten
      <4>. QED BY <4>1, <4>2
    <3>. QED BY <3>1, <3>2, <3>3, AsksMove
  <2>2. ASSUME NEW e \in Range(events'), e.type = "thumbnail", e.status = "done", e.clip = c PROVE rows'[c].path
    <3>1. CASE e \in Range(events) BY <2>0, <2>2, <3>1 DEF PathComes
    <3>2. CASE e \notin Range(events)
      <4>1. PICK i \in DOMAIN gens : ThumbnailStep(i) BY <2>2, <3>2, EventsMove
      <4>. QED BY <2>2, <3>2, <4>1, DrawnMove
    <3>. QED BY <3>1, <3>2
  <2>. QED BY <1>1, <2>1, <2>2 DEF PathComes
<1>2. ASSUME NEW list \in KnownLists', NEW c \in Clips
      PROVE  /\ list[c].path => rows'[c].path
             /\ calm' /\ live' /\ rows'[c].path => list[c].path \/ PathComes(c)'
  <2>0. /\ rows[c].path => rows'[c].path
        /\ rows'[c].path /\ live' => rows[c].path \/ PathComes(c)'
        /\ calm' /\ live' /\ PathComes(c) => PathComes(c)' \/ list[c].path
        /\ (calm' => calm) /\ (live' => live)
        /\ PathComes(c) => rows[c].path
    BY PathsWritten, PathKept, CalmBefore DEF PathsCome
  <2>1. CASE list \in KnownLists BY <2>0, <2>1 DEF PathsCome
  <2>2. CASE list = rows /\ rows' = rows BY <2>2
  <2>3. ASSUME NEW d \in Clips, PathShown(d), clips # <<>>, list = WithPath(d), list = clips'
        PROVE  /\ list[c].path => rows'[c].path
               /\ calm' /\ live' /\ rows'[c].path => list[c].path \/ PathComes(c)'
    <3>0. WithPath(d)[c].path = (clips[c].path \/ c = d) BY <2>3, WithPathOf DEF Typed, PageOK
    <3>1. /\ list[c].path => clips[c].path \/ c = d
          /\ clips[c].path => list[c].path
          /\ c = d => list[c].path
      BY <2>3, <3>0
    <3>2. /\ clips[c].path => rows[c].path
          /\ calm /\ live /\ rows[c].path => clips[c].path \/ PathComes(c)
      BY <2>3, ListsHere DEF PathsCome
    <3>3. c = d => rows[c].path BY <2>3 DEF PathShown, PathsCome
    <3>. QED BY <2>0, <3>1, <3>2, <3>3
  <2>. QED BY <2>1, <2>2, <2>3, ListsNext
<1>. QED BY <1>1, <1>2 DEF PathsCome
-----------------------------------------------------------------------------
(* The clips are asked for as long as the store has none.                  *)

NoneRefused == \A r \in Asks : r.kind = "load" => r.reply # Refused
LoadThere   == \E r \in Asks : r.kind = "load"
ClipsAwaited == clips = <<>> /\ shown # Confirm => LoadThere

LEMMA ClipsParts == ClipsCome <=> (calm => NoneRefused) /\ (calm /\ live => ClipsAwaited)
BY DEF ClipsCome, NoneRefused, ClipsAwaited, LoadThere

LEMMA LoadsRefused == ASSUME calm' => NoneRefused, Typed, Moves, calm' PROVE NoneRefused'
<1>1. CASE From(Asks) BY <1>1, LoadKinds, NullRefused DEF From, Same, SameRequest, NoneRefused
<1>2. CASE Asks' = {} BY <1>2 DEF NoneRefused
<1>3. CASE \A q \in Asks' \ Asks : NewRequest(q) BY <1>3 DEF NewRequest, NoneRefused
<1>4. ASSUME NEW i \in DOMAIN pending, ServerAsked(i), Served(i) \/ InVain(i), NEW q \in Asks', q.kind = "load"
      PROVE  q.reply # Refused
  <2>1. CASE q \in RestOf(i) BY <1>4, <2>1 DEF NoneRefused, ServerAsked
  <2>2. CASE q \notin RestOf(i)
    <3>1. q.reply = rows BY <1>4, <2>2, ServedReplies
    <3>. QED BY <3>1, NullRefused DEF Typed, ServerOK
  <2>. QED BY <2>1, <2>2
<1>. QED BY <1>1, <1>2, <1>3, <1>4, AsksMove DEF NoneRefused

LEMMA AwaitedDisplayed ==
  ASSUME NEW S, S \subseteq Requests, NEW gate, NEW end, Displayed(gate, end, S), clips' = clips,
         clips = <<>> /\ shown # Confirm => \E r \in S : r.kind = "load"
  PROVE  ClipsAwaited'
<1>1. CASE gate = shown BY <1>1 DEF Displayed, ClipsAwaited, LoadThere
<1>2. CASE gate # shown BY <1>2, LoadMade DEF Displayed, ClipsAwaited, LoadThere
<1>. QED BY <1>1, <1>2

LEMMA ClipsStep == ASSUME ClipsCome, Typed, Moves PROVE ClipsCome'
<1>0. /\ (calm' => calm) /\ (live' => live) /\ Asks \subseteq Requests
      /\ \A i \in DOMAIN pending : RestOf(i) \subseteq Requests /\ Asks = RestOf(i) \cup {pending[i]}
  BY CalmBefore, RangeIn, AskedFor DEF Typed, PageOK, Asks
<1>1. calm' => NoneRefused' BY <1>0, ClipsParts, LoadsRefused
<1>2. SUFFICES ASSUME calm', live' PROVE ClipsAwaited'
  <2>1. ClipsCome' <=> (calm' => NoneRefused') /\ (calm' /\ live' => ClipsAwaited')
    BY DEF ClipsCome, NoneRefused, ClipsAwaited, LoadThere
  <2>. QED BY <1>1, <2>1
<1>3. calm /\ live /\ NoneRefused /\ ClipsAwaited BY <1>0, <1>2, ClipsParts
<1>4. CASE UNCHANGED <<server, events, live, store, ui, pending, calm>>
  BY <1>3, <1>4 DEF ClipsAwaited, LoadThere, Asks, store
<1>5. CASE ActEffect BY <1>3, <1>5 DEF ActEffect, ActFrame, ClipsAwaited, LoadThere
<1>6. CASE Back BY <1>0, <1>3, <1>6, AwaitedDisplayed DEF Back, ClipsAwaited, LoadThere
<1>7. CASE Resubmit \/ StreamLost BY <1>2, <1>7, LeftTypes, LostTypes DEF Typed
<1>8. CASE Heard
  <2>. DEFINE e == Head(events)
  <2>1. CASE HeardState(e)
    <3>1. CASE e.to = top BY <1>3, <2>1, <3>1 DEF HeardState, ClipsAwaited, LoadThere, Asks
    <3>2. CASE e.to # top BY <1>0, <1>3, <2>1, <3>2, AwaitedDisplayed DEF HeardState, ClipsAwaited, LoadThere
    <3>. QED BY <3>1, <3>2
  <2>2. CASE HeardThumbnail(e)
    <3>1. Asks \subseteq Asks' /\ shown' = shown BY <2>2 DEF HeardThumbnail, Refreshed, Asks
    <3>2. clips' = <<>> => clips = <<>>
      <4>1. CASE e.status = "done" BY <1>8, <2>2, <4>1, HeardShown DEF HeardThumbnail, PathShown
      <4>2. CASE e.status # "done" BY <2>2, <4>2 DEF HeardThumbnail
      <4>. QED BY <4>1, <4>2
    <3>. QED BY <1>3, <3>1, <3>2 DEF ClipsAwaited, LoadThere
  <2>3. CASE HeardMetadata(e) BY <1>3, <2>3 DEF HeardMetadata, ClipsAwaited, LoadThere, Asks
  <2>. QED BY <1>8, <2>1, <2>2, <2>3 DEF Heard
<1>9. ASSUME NEW i \in DOMAIN gens, ThumbnailStep(i) \/ MetadataStep(i) PROVE ClipsAwaited'
  <2>1. UNCHANGED Behind /\ Asks' = Asks BY <1>9, GeneratorFrame
  <2>. QED BY <1>3, <2>1 DEF ClipsAwaited, LoadThere, Behind, store
<1>10. ASSUME NEW i \in DOMAIN pending, Served(i) \/ InVain(i) PROVE ClipsAwaited'
  <2>1. UNCHANGED <<clips, shown>> BY <1>10 DEF Served, InVain, StoreFrame
  <2>2. LoadThere => LoadThere'
    <3>1. CASE pending[i].kind # "load" BY <1>10, <3>1, ServerAsks DEF ServerAsked, LoadThere
    <3>2. CASE pending[i].kind = "load"
      <4>1. ~InVain(i) BY <1>2, <3>2 DEF InVain
      <4>2. ServedLoad(i)
        BY <1>10, <3>2, <4>1 DEF Served, ServedGenerate, ServedThumbnail, ServedAdvance, ServedRegenerate,
                                 ServedSingle, ServedMetadata, ServedChoice, TakenUp, WritesOn
      <4>. QED BY <3>2, <4>2 DEF ServedLoad, RepliedWith, AnswerTo, SameRequest, LoadThere
    <3>. QED BY <3>1, <3>2
  <2>. QED BY <1>3, <2>1, <2>2 DEF ClipsAwaited
<1>11. ASSUME NEW i \in DOMAIN pending, AnswerTaken(i) PROVE ClipsAwaited'
  <2>1. CASE AnsweredLoad(i)
    <3>1. clips' = pending[i].reply /\ pending[i].reply \in [Clips -> Row] BY <2>1 DEF AnsweredLoad, Refreshed
    <3>2. clips' # <<>> BY <3>1, ClipsAreThere
    <3>. QED BY <3>2 DEF ClipsAwaited
  <2>2. CASE ~AnsweredLoad(i)
    <3>1. pending[i].kind # "load"
      BY <1>0, <1>3, <1>11, <2>2 DEF AnswerTaken, AnsweredInVain, AnsweredThumbnail, AnsweredAdvance,
                                     AnsweredSingle, NoneRefused
    <3>2. clips = <<>> /\ shown # Confirm => \E r \in RestOf(i) : r.kind = "load"
      BY <1>0, <1>3, <3>1 DEF ClipsAwaited, LoadThere
    <3>3. CASE AnsweredAdvance(i) BY <1>0, <3>2, <3>3, AwaitedDisplayed DEF AnsweredAdvance
    <3>4. CASE AnsweredThumbnail(i)
      <4>1. clips' = <<>> => clips = <<>> BY <1>11, <3>4, AnswerShown DEF AnswerTaken, PathShown
      <4>2. RestOf(i) \subseteq Asks' /\ shown' = shown BY <3>4 DEF AnsweredThumbnail, Refreshed
      <4>. QED BY <3>2, <4>1, <4>2 DEF ClipsAwaited, LoadThere
    <3>5. CASE AnsweredInVain(i) \/ AnsweredSingle(i)
      BY <3>2, <3>5 DEF AnsweredInVain, AnsweredSingle, Gone, SameView, ClipsAwaited, LoadThere
    <3>. QED BY <1>11, <2>2, <3>3, <3>4, <3>5 DEF AnswerTaken
  <2>. QED BY <2>1, <2>2
<1>. QED BY <1>4, <1>5, <1>6, <1>7, <1>8, <1>9, <1>10, <1>11 DEF Moves
-----------------------------------------------------------------------------
(* The status of the metadata.                                             *)

LEMMA StatusSame ==
  ASSUME UNCHANGED <<events, metadataProgress>>, NEW v
  PROVE  LastStatus(v)' = LastStatus(v)
BY DEF LastStatus

LEMMA StatusPublished ==
  ASSUME Typed, live, NEW e \in Events, Published(e), UNCHANGED metadataProgress, NEW v
  PROVE  /\ e.type # "metadata" => (LastStatus(v)' <=> LastStatus(v))
         /\ e.type = "metadata" => (LastStatus(v)' <=> e.status = v)
<1>0. /\ Range(events') = Range(events) \cup {e}
      /\ Len(events) \in Nat /\ DOMAIN events = 1 .. Len(events)
      /\ DOMAIN events' = 1 .. Len(events) + 1
      /\ \A k \in DOMAIN events : k \in DOMAIN events' /\ events'[k] = events[k]
      /\ events'[Len(events) + 1] = e
  BY PublishedEffect DEF Typed, ServerOK
<1>1. CASE e.type # "metadata"
  <2>1. \A k \in DOMAIN events' : events'[k].type = "metadata" => k \in DOMAIN events /\ events'[k] = events[k]
    BY <1>0, <1>1
  <2>2. (\A x \in Range(events') : x.type # "metadata") <=> (\A x \in Range(events) : x.type # "metadata")
    BY <1>0, <1>1
  <2>3. ASSUME NEW k \in DOMAIN events, events[k].type = "metadata", events[k].status = v,
               \A j \in DOMAIN events : events[j].type = "metadata" => j <= k
        PROVE  LastStatus(v)'
    BY <1>0, <2>1, <2>3 DEF LastStatus
  <2>4. ASSUME NEW k \in DOMAIN events', events'[k].type = "metadata", events'[k].status = v,
               \A j \in DOMAIN events' : events'[j].type = "metadata" => j <= k
        PROVE  LastStatus(v)
    BY <1>0, <2>1, <2>4 DEF LastStatus
  <2>5. LastStatus(v) => LastStatus(v)' BY <2>2, <2>3 DEF LastStatus
  <2>6. LastStatus(v)' => LastStatus(v) BY <2>2, <2>4 DEF LastStatus
  <2>. QED BY <1>1, <2>5, <2>6
<1>2. CASE e.type = "metadata"
  <2>. DEFINE n == Len(events) + 1
  <2>1. n \in DOMAIN events' /\ events'[n] = e /\ e \in Range(events') /\ \A j \in DOMAIN events' : j <= n BY <1>0
  <2>. HIDE DEF n
  <2>2. e.status = v => LastStatus(v)' BY <1>2, <2>1 DEF LastStatus
  <2>3. ASSUME NEW k \in DOMAIN events', events'[k].status = v,
               \A j \in DOMAIN events' : events'[j].type = "metadata" => j <= k
        PROVE  e.status = v
    <3>1. n <= k /\ k <= n BY <1>2, <2>1, <2>3
    <3>2. k = n BY <1>0, <3>1 DEF n
    <3>. QED BY <2>1, <2>3, <3>2
  <2>4. LastStatus(v)' => e.status = v BY <1>2, <2>1, <2>3 DEF LastStatus
  <2>. QED BY <1>2, <2>2, <2>4
<1>. QED BY <1>1, <1>2

LEMMA StatusHeard == ASSUME Typed, Heard, NEW v PROVE LastStatus(v)' <=> LastStatus(v)
<1>. DEFINE e == Head(events)
<1>0. /\ Len(events) \in Nat \ {0} /\ DOMAIN events = 1 .. Len(events) /\ e = events[1]
      /\ DOMAIN events' = 1 .. Len(events) - 1
      /\ \A k \in DOMAIN events' : k + 1 \in DOMAIN events /\ events'[k] = events[k + 1]
      /\ Range(events) = {e} \cup Range(events')
  BY EventTaken DEF Heard, Typed, ServerOK
<1>. HIDE DEF e
<1>1. \A k \in DOMAIN events : k # 1 => k - 1 \in DOMAIN events' /\ events'[k - 1] = events[k] BY <1>0
<1>2. IF e.type = "metadata" THEN metadataProgress' = e.status ELSE metadataProgress' = metadataProgress
  BY DEF Heard, HeardState, HeardThumbnail, HeardMetadata, e
<1>3. ASSUME NEW k \in DOMAIN events, events[k].type = "metadata", events[k].status = v,
             \A j \in DOMAIN events : events[j].type = "metadata" => j <= k
      PROVE  LastStatus(v)'
  <2>1. CASE k = 1
    <3>1. metadataProgress' = v BY <1>0, <1>2, <1>3, <2>1
    <3>2. \A j \in DOMAIN events' : events'[j].type # "metadata" BY <1>0, <1>3, <2>1
    <3>3. \A x \in Range(events') : x.type # "metadata" BY <3>2 DEF Range
    <3>. QED BY <3>1, <3>3 DEF LastStatus
  <2>2. CASE k # 1
    <3>1. k - 1 \in DOMAIN events' /\ events'[k - 1] = events[k] BY <1>1, <2>2
    <3>2. \A j \in DOMAIN events' : events'[j].type = "metadata" => j <= k - 1 BY <1>0, <1>3
    <3>. QED BY <1>3, <3>1, <3>2 DEF LastStatus
  <2>. QED BY <2>1, <2>2
<1>4. ASSUME metadataProgress = v, \A x \in Range(events) : x.type # "metadata" PROVE LastStatus(v)'
  BY <1>0, <1>2, <1>4 DEF LastStatus
<1>5. ASSUME NEW k \in DOMAIN events', events'[k].type = "metadata", events'[k].status = v,
             \A j \in DOMAIN events' : events'[j].type = "metadata" => j <= k
      PROVE  LastStatus(v)
  <2>1. k + 1 \in DOMAIN events /\ events[k + 1] = events'[k] BY <1>0
  <2>2. ASSUME NEW j \in DOMAIN events, events[j].type = "metadata" PROVE j <= k + 1
    <3>1. CASE j = 1 BY <1>0, <3>1
    <3>2. CASE j # 1
      <4>1. j - 1 \in DOMAIN events' /\ events'[j - 1].type = "metadata" BY <1>1, <2>2, <3>2
      <4>2. j - 1 <= k BY <1>5, <4>1
      <4>. QED BY <1>0, <4>2
    <3>. QED BY <3>1, <3>2
  <2>. QED BY <1>5, <2>1, <2>2 DEF LastStatus
<1>6. ASSUME metadataProgress' = v, \A x \in Range(events') : x.type # "metadata" PROVE LastStatus(v)
  <2>1. CASE e.type # "metadata" BY <1>0, <1>2, <1>6, <2>1 DEF LastStatus
  <2>2. CASE e.type = "metadata"
    <3>1. 1 \in DOMAIN events /\ events[1].type = "metadata" /\ events[1].status = v BY <1>0, <1>2, <1>6, <2>2
    <3>2. ASSUME NEW j \in DOMAIN events, events[j].type = "metadata" PROVE j <= 1
      <4>1. j # 1 => events'[j - 1] \in Range(events') BY <1>1 DEF Range
      <4>2. j = 1 BY <1>1, <1>6, <3>2, <4>1
      <4>. QED BY <4>2
    <3>. QED BY <3>1, <3>2 DEF LastStatus
  <2>. QED BY <2>1, <2>2
<1>7. LastStatus(v) => LastStatus(v)' BY <1>3, <1>4 DEF LastStatus
<1>8. LastStatus(v)' => LastStatus(v) BY <1>5, <1>6 DEF LastStatus
<1>. QED BY <1>7, <1>8
-----------------------------------------------------------------------------
(* One generator of metadata at work.                                      *)

Alone   == \A i, j \in DOMAIN gens : AtWork(gens[i]) /\ AtWork(gens[j]) => i = j
Working == \E g \in Runs : AtWork(g)

LEMMA AtWorkMade ==
  /\ \A at, open : ~AtWork(Batch(at, open))
  /\ ~AtWork(Writer("started")) /\ AtWork(Writer("generating")) /\ AtWork(Writer("generated"))
BY DEF AtWork, Batch, Writer

LEMMA AloneSplit ==
  ASSUME Alone, NEW i \in DOMAIN gens, AtWork(gens[i])
  PROVE  \A g \in RunsBut(i) : ~AtWork(g)
BY DEF Alone, RunsBut

LEMMA AloneReplaced ==
  ASSUME Typed, NEW i \in DOMAIN gens, NEW g \in Generators, g.kind = "thumbnails" /\ g.open => g.at < NumClips,
         gens' = [gens EXCEPT ![i] = g],
         \/ Alone /\ (AtWork(g) => AtWork(gens[i]))
         \/ \A j \in DOMAIN gens \ {i} : ~AtWork(gens[j])
  PROVE  Alone'
<1>1. DOMAIN gens' = DOMAIN gens /\ gens'[i] = g /\ \A j \in DOMAIN gens \ {i} : gens'[j] = gens[j]
  BY GensReplaced DEF Typed, ServerOK
<1>. QED BY <1>1 DEF Alone

LEMMA AloneWithout ==
  ASSUME Typed, Alone, NEW i \in DOMAIN gens, gens' = RemoveAt(gens, i)
  PROVE  Alone'
<1>1. /\ Len(gens) \in Nat /\ DOMAIN gens = 1 .. Len(gens) /\ DOMAIN gens' = 1 .. Len(gens) - 1
      /\ \A j \in DOMAIN gens' : j < i => j \in DOMAIN gens /\ gens'[j] = gens[j]
      /\ \A j \in DOMAIN gens' : j >= i => j + 1 \in DOMAIN gens /\ gens'[j] = gens[j + 1]
  BY GensWithout DEF Typed, ServerOK
<1>2. SUFFICES ASSUME NEW j \in DOMAIN gens', NEW k \in DOMAIN gens', AtWork(gens'[j]), AtWork(gens'[k])
               PROVE  j = k
  BY DEF Alone
<1>3. i \in Int /\ j \in Int /\ k \in Int BY <1>1
<1>4. CASE j < i /\ k < i BY <1>1, <1>2, <1>4 DEF Alone
<1>5. CASE j >= i /\ k >= i
  <2>1. j + 1 = k + 1 BY <1>1, <1>2, <1>5 DEF Alone
  <2>. QED BY <1>3, <2>1
<1>6. CASE j < i /\ k >= i
  <2>1. j = k + 1 BY <1>1, <1>2, <1>6 DEF Alone
  <2>. QED BY <1>3, <1>6, <2>1
<1>7. CASE j >= i /\ k < i
  <2>1. j + 1 = k BY <1>1, <1>2, <1>7 DEF Alone
  <2>. QED BY <1>3, <1>7, <2>1
<1>. QED BY <1>3, <1>4, <1>5, <1>6, <1>7

LEMMA AloneAppended ==
  ASSUME Typed, Alone, NEW g \in Generators, ~AtWork(g), g.kind = "thumbnails" => ~g.open, gens' = Append(gens, g)
  PROVE  Alone' /\ (Working' <=> Working)
<1>1. /\ Runs' = Runs \cup {g} /\ Len(gens) \in Nat /\ DOMAIN gens = 1 .. Len(gens)
      /\ DOMAIN gens' = 1 .. Len(gens) + 1
      /\ \A j \in DOMAIN gens : gens'[j] = gens[j]
      /\ gens'[Len(gens) + 1] = g
  BY GensAppended DEF Typed, ServerOK
<1>2. \A j \in DOMAIN gens' : AtWork(gens'[j]) => j \in DOMAIN gens /\ gens'[j] = gens[j] BY <1>1
<1>3. Alone' BY <1>2 DEF Alone
<1>. QED BY <1>1, <1>3 DEF Working

Progress == LastStatus("generating")

LEMMA WorkServed ==
  ASSUME Typed, Alone, live, NEW i \in DOMAIN pending, Served(i) \/ InVain(i)
  PROVE  Alone' /\ (Working' <=> Working) /\ \A v : LastStatus(v)' <=> LastStatus(v)
<1>1. UNCHANGED <<live, metadataProgress>> BY DEF Served, InVain, StoreFrame
<1>2. \A v : LastStatus(v)' <=> LastStatus(v)
  <2>1. CASE events' = events BY <1>1, <2>1, StatusSame
  <2>2. CASE Published(StateEvent(state')) /\ StateEvent(state') \in Events
    <3>1. StateEvent(state').type # "metadata" BY DEF StateEvent
    <3>. QED BY <1>1, <2>2, <3>1, StatusPublished
  <2>. QED BY <2>1, <2>2, ServedStates
<1>3. CASE gens' = gens BY <1>2, <1>3 DEF Alone, Working, Runs
<1>4. CASE gens' = Append(gens, Batch(0, FALSE))
  <2>1. 0 \in 0 .. NumClips BY ReviewConstants
  <2>2. Batch(0, FALSE) \in Generators /\ ~Batch(0, FALSE).open /\ ~AtWork(Batch(0, FALSE))
    BY <2>1, GeneratorsMade, AtWorkMade
  <2>. QED BY <1>2, <1>4, <2>2, AloneAppended
<1>5. CASE gens' = Append(gens, Writer("started"))
  <2>1. Writer("started") \in Generators /\ Writer("started").kind = "metadata" /\ ~AtWork(Writer("started"))
    BY GeneratorsMade, AtWorkMade DEF Stages
  <2>. QED BY <1>2, <1>5, <2>1, AloneAppended
<1>6. gens' = gens \/ gens' = Append(gens, Batch(0, FALSE)) \/ gens' = Append(gens, Writer("started"))
  BY DEF Served, ServedLoad, ServedGenerate, ServedThumbnail, ServedAdvance, ServedRegenerate, ServedSingle,
         ServedMetadata, ServedChoice, InVain, TakenUp, WritesOn, server, NewWriter
<1>. QED BY <1>3, <1>4, <1>5, <1>6

LEMMA WorkDrawn ==
  ASSUME Typed, Alone, live, NEW i \in DOMAIN gens, ThumbnailStep(i)
  PROVE  Alone' /\ (Working' <=> Working) /\ \A v : LastStatus(v)' <=> LastStatus(v)
<1>0. /\ gens[i].kind = "thumbnails" /\ ~AtWork(gens[i]) /\ UNCHANGED <<live, metadataProgress>>
      /\ Runs = RunsBut(i) \cup {gens[i]}
  BY ThumbnailStepCases, GensSplit DEF Typed, ServerOK, Behind, store, AtWork
<1>1. ASSUME NEW v PROVE LastStatus(v)' <=> LastStatus(v)
  <2>1. \/ events' = events
        \/ \E e \in Events : Published(e) /\ e.type = "thumbnail"
    BY GeneratorEvents
  <2>. QED BY <1>0, <2>1, StatusPublished, StatusSame
<1>2. \/ gens' = RemoveAt(gens, i) /\ Runs' = RunsBut(i)
      \/ \E at \in 0 .. NumClips, open \in BOOLEAN :
            /\ open => at < NumClips
            /\ gens' = [gens EXCEPT ![i] = Batch(at, open)] /\ Runs' = RunsBut(i) \cup {Batch(at, open)}
  <2>1. gens[i].at \in 0 .. NumClips /\ (gens[i].open \/ gens[i].at < NumClips => gens[i].at + 1 \in 0 .. NumClips)
    <3>1. gens[i].at \in 0 .. NumClips /\ (gens[i].open \/ gens[i].at < NumClips => gens[i].at + 1 \in Clips)
      BY ThumbnailStepCases DEF Typed
    <3>2. Clips \subseteq 0 .. NumClips BY ReviewConstants DEF Clips
    <3>. QED BY <3>1, <3>2
  <2>. QED BY <2>1, ThumbnailStepCases DEF Typed
<1>3. CASE gens' = RemoveAt(gens, i) /\ Runs' = RunsBut(i)
  <2>1. Alone' BY <1>3, AloneWithout
  <2>. QED BY <1>0, <1>1, <1>3, <2>1 DEF Working
<1>4. ASSUME NEW at \in 0 .. NumClips, NEW open \in BOOLEAN, open => at < NumClips,
             gens' = [gens EXCEPT ![i] = Batch(at, open)], Runs' = RunsBut(i) \cup {Batch(at, open)}
      PROVE  Alone' /\ (Working' <=> Working)
  <2>. DEFINE b == Batch(at, open)
  <2>1. b \in Generators /\ b.open = open /\ b.at = at /\ ~AtWork(b) BY GeneratorsMade, AtWorkMade
  <2>. HIDE DEF b
  <2>2. gens' = [gens EXCEPT ![i] = b] /\ Runs' = RunsBut(i) \cup {b} BY <1>4 DEF b
  <2>3. Alone' BY <1>4, <2>1, <2>2, AloneReplaced
  <2>. QED BY <1>0, <2>1, <2>2, <2>3 DEF Working
<1>. QED BY <1>1, <1>2, <1>3, <1>4

LEMMA WorkTold ==
  ASSUME Typed, calm /\ live => Alone /\ (Working <=> Progress), NEW i \in DOMAIN gens, MetadataStep(i), calm', live
  PROVE  Alone' /\ (Working' <=> Progress')
<1>. DEFINE g == gens[i]
<1>0. /\ UNCHANGED <<live, metadataProgress>> /\ g.kind = "metadata" /\ calm /\ g \in Runs
      /\ Alone /\ (Working <=> Progress)
      /\ \A s \in {"generating", "error", "done"} : Published(MetaEvent(s)) => (Progress' <=> s = "generating")
  <2>1. UNCHANGED <<live, metadataProgress>> /\ g.kind = "metadata" /\ g \in Runs
    BY MetadataStepCases DEF Typed, Behind, store
  <2>2. calm BY GeneratorFrame
  <2>3. ASSUME NEW s \in {"generating", "error", "done"}, Published(MetaEvent(s))
        PROVE  LastStatus("generating")' <=> s = "generating"
    <3>1. MetaEvent(s) \in Events /\ MetaEvent(s).type = "metadata" /\ MetaEvent(s).status = s
      BY EventsMade DEF MetaEvent
    <3>. QED BY <2>1, <2>3, <3>1, StatusPublished
  <2>. QED BY <2>1, <2>2, <2>3 DEF Progress
<1>1. CASE /\ g.stage = "started" /\ Published(MetaEvent("generating"))
           /\ gens' = [gens EXCEPT ![i] = Writer("generating")] /\ Runs' = RunsBut(i) \cup {Writer("generating")}
           /\ calm' = (calm /\ \A j \in DOMAIN gens \ {i} : gens[j].kind # "metadata")
  <2>1. \A j \in DOMAIN gens \ {i} : ~AtWork(gens[j]) BY <1>1 DEF AtWork
  <2>2. Writer("generating") \in Generators /\ Writer("generating").kind = "metadata" /\ AtWork(Writer("generating"))
    BY GeneratorsMade, AtWorkMade DEF Stages
  <2>3. Alone' BY <1>1, <2>1, <2>2, AloneReplaced
  <2>. QED BY <1>0, <1>1, <2>2, <2>3 DEF Working
<1>2. CASE /\ g.stage = "generating" /\ UNCHANGED events
           /\ gens' = [gens EXCEPT ![i] = Writer("generated")] /\ Runs' = RunsBut(i) \cup {Writer("generated")}
  <2>1. AtWork(g) BY <1>0, <1>2 DEF AtWork
  <2>2. Writer("generated") \in Generators /\ Writer("generated").kind = "metadata" /\ AtWork(Writer("generated"))
    BY GeneratorsMade, AtWorkMade DEF Stages
  <2>3. Alone' BY <1>0, <1>2, <2>1, <2>2, AloneReplaced
  <2>4. Progress' = Progress BY <1>0, <1>2, StatusSame DEF Progress
  <2>. QED BY <1>0, <1>2, <2>1, <2>2, <2>3, <2>4 DEF Working
<1>3. CASE /\ g.stage \in {"generating", "generated"}
           /\ \E s \in {"error", "done"} : Published(MetaEvent(s))
           /\ gens' = RemoveAt(gens, i) /\ Runs' = RunsBut(i)
  <2>1. AtWork(g) BY <1>0, <1>3 DEF AtWork
  <2>2. ~Progress' BY <1>0, <1>3
  <2>3. ~Working' BY <1>0, <1>3, <2>1, AloneSplit DEF Working
  <2>4. Alone' BY <1>0, <1>3, AloneWithout
  <2>. QED BY <2>2, <2>3, <2>4
<1>. QED BY <1>1, <1>2, <1>3, MetadataStepCases DEF Typed

LEMMA WorkParts == OneAtWork <=> (calm /\ live => Alone /\ (Working <=> Progress))
BY DEF OneAtWork, Alone, Working, Progress

LEMMA WorkStep == ASSUME OneAtWork, Typed, Moves PROVE OneAtWork'
<1>0. (calm' => calm) /\ (live' => live) BY CalmBefore
<1>1. SUFFICES ASSUME calm', live' PROVE Alone' /\ (Working' <=> Progress')
  BY DEF OneAtWork, Alone, Working, Progress
<1>2. Alone /\ (Working <=> Progress) BY <1>0, <1>1, WorkParts
<1>3. CASE UNCHANGED <<gens, events, metadataProgress>>
  <2>1. Progress' = Progress BY <1>3, StatusSame DEF Progress
  <2>. QED BY <1>2, <1>3, <2>1 DEF Alone, Working, Runs
<1>4. CASE \/ UNCHANGED <<server, events, live, store, ui, pending, calm>> \/ ActEffect \/ Back
           \/ \E i \in DOMAIN pending : AnswerTaken(i)
  BY <1>3, <1>4 DEF ActEffect, ActFrame, Back, AnswerTaken, AnswerFrame, server, store
<1>5. CASE Resubmit \/ StreamLost BY <1>1, <1>5, LeftTypes, LostTypes DEF Typed
<1>6. CASE Heard
  <2>1. Progress' <=> Progress BY <1>6, StatusHeard DEF Progress
  <2>. QED BY <1>2, <1>6, <2>1 DEF Heard, server, Alone, Working, Runs
<1>7. ASSUME NEW i \in DOMAIN gens, ThumbnailStep(i) PROVE Alone' /\ (Working' <=> Progress')
  BY <1>0, <1>1, <1>2, <1>7, WorkDrawn DEF Progress
<1>8. ASSUME NEW i \in DOMAIN gens, MetadataStep(i) PROVE Alone' /\ (Working' <=> Progress')
  BY <1>0, <1>1, <1>2, <1>8, WorkTold
<1>9. ASSUME NEW i \in DOMAIN pending, Served(i) \/ InVain(i) PROVE Alone' /\ (Working' <=> Progress')
  BY <1>0, <1>1, <1>2, <1>9, WorkServed DEF Progress
<1>. QED BY <1>4, <1>5, <1>6, <1>7, <1>8, <1>9 DEF Moves
-----------------------------------------------------------------------------
(* The choice of clips shows the texts of the server.                      *)

AtChoice == state = Choice /\ shown = Choice /\ ~Midway("choice")
LoadMine == \E r \in Asks : LoadOf(r) /\ r.mine
Clean    == ui.typed # {} \/ ui.toggled => ~ui.loading
Waiting  == ui.loading /\ LoadMine /\ \A r \in Asks : Answered(r) /\ r.mine => Exact(r.reply)
Filled ==
  /\ ~ui.loading
  /\ \A r \in Asks : Answered(r) => Exact(r.reply)
  /\ clips # <<>> /\ ui.edits \in [Clips -> Nat]
  /\ \A c \in Clips : ui.edits[c] = rows[c].text \/ (c \in ui.typed /\ ui.edits[c] # 0)
  /\ ui.toggled \/ ui.selected = Clips
ChoiceRight == Clean /\ (Waiting \/ Filled)

LEMMA ChoiceParts == ChoiceShown <=> (calm /\ live /\ AtChoice => ChoiceRight)
BY DEF ChoiceShown, AtChoice, ChoiceRight, Clean, Waiting, Filled, LoadMine

LEMMA ChoiceMade == ASSUME calm' /\ live' /\ AtChoice' => ChoiceRight' PROVE ChoiceShown'
BY DEF ChoiceShown, AtChoice, ChoiceRight, Clean, Waiting, Filled, LoadMine

(* The texts of the server are the same, and what is on its way of them.   *)
SameRowTexts == \A c \in Clips : rows'[c].text = rows[c].text
SameLoads ==
  \A q \in Asks' : Answered(q) => \/ \E r \in Asks : Answered(r) /\ q.reply = r.reply /\ (q.mine => r.mine)
                                  \/ q.reply = rows

LEMMA ChoiceKept ==
  ASSUME ChoiceRight, SameRowTexts, SameLoads, LoadMine => LoadMine', UNCHANGED clips,
         SameTexts, SameChoice, ui'.loading = ui.loading
  PROVE  ChoiceRight'
<1>1. Clean' BY DEF ChoiceRight, Clean, SameTexts, SameChoice
<1>2. \A list : Exact(list) => Exact(list)' BY DEF Exact, SameRowTexts
<1>3. Exact(rows) BY DEF Exact
<1>4. ASSUME Waiting PROVE Waiting' BY <1>2, <1>3, <1>4 DEF Waiting, SameLoads, Answered, LoadOf
<1>5. ASSUME Filled PROVE Filled'
  <2>1. \A q \in Asks' : Answered(q) => Exact(q.reply)'
    BY <1>2, <1>3, <1>5 DEF Filled, SameLoads, Answered, LoadOf
  <2>. QED BY <1>5, <2>1 DEF Filled, SameTexts, SameChoice, SameRowTexts, Answered, LoadOf
<1>. QED BY <1>1, <1>4, <1>5 DEF ChoiceRight

LEMMA ChoiceMounted ==
  ASSUME NEW S, S \subseteq Requests, NEW end, Displayed(Choice, end, S), shown # Choice
  PROVE  ChoiceRight'
<1>1. /\ Asks' \subseteq LeftOf(S) \cup {Load, Preview} /\ Load \in Asks'
      /\ ui'.loading /\ ui'.typed = {} /\ ~ui'.toggled
  <2>1. Choice # Confirm BY DEF Choice, Confirm
  <2>2. ui'.loading = (Choice = Choice) BY DEF Displayed
  <2>3. ui'.loading BY <2>2
  <2>. QED BY <2>1, <2>3 DEF Displayed
<1>2. \A q \in LeftOf(S) : ~q.mine
  <2>1. \A r \in S : ~[r EXCEPT !.mine = FALSE].mine BY RequestLeft
  <2>. QED BY <2>1 DEF LeftOf
<1>3. LoadOf(Load) /\ Load.mine /\ \A q \in {Load, Preview} : ~Answered(q)
  BY LoadMade, LoadKinds DEF LoadOf, Answered
<1>. QED BY <1>1, <1>2, <1>3 DEF ChoiceRight, Clean, Waiting, LoadMine, Answered, LoadOf

LEMMA ChoiceActed ==
  ASSUME ChoiceRight, AtChoice, ActEffect
  PROVE  ChoiceRight'
<1>0. rows' = rows /\ clips' = clips /\ ui'.loading = ui.loading BY DEF ActEffect, ActFrame, server
<1>1. SameLoads BY DEF SameLoads, ActEffect, NewRequest, Answered, LoadOf
<1>2. LoadMine => LoadMine' BY DEF LoadMine, ActEffect, LoadOf
<1>3. CASE SameTexts /\ SameChoice BY <1>0, <1>1, <1>2, <1>3, ChoiceKept DEF SameRowTexts
<1>4. CASE ~(SameTexts /\ SameChoice)
  <2>1. Chooser
    <3>1. TypedText => Chooser BY DEF TypedText, AtChoice, Metadata, Choice
    <3>. QED BY <1>4, <3>1 DEF ActEffect
  <2>2. ~ui.loading /\ Filled BY <2>1 DEF Chooser, ChoiceRight, Waiting, Filled
  <2>3. \A q \in Asks' : Answered(q) => Exact(q.reply)'
    BY <1>0, <1>1, <2>2 DEF SameLoads, Filled, Exact, Answered, LoadOf
  <2>4. /\ ui'.edits \in [Clips -> Nat]
        /\ \A c \in Clips : ui'.edits[c] = rows[c].text \/ (c \in ui'.typed /\ ui'.edits[c] # 0)
    <3>1. CASE SameTexts BY <2>2, <3>1 DEF Filled, SameTexts
    <3>2. CASE TypedText BY <2>2, <3>2 DEF Filled, TypedText
    <3>. QED BY <3>1, <3>2 DEF ActEffect
  <2>5. ui'.toggled \/ ui'.selected = Clips BY <2>2 DEF ActEffect, SameChoice, Filled
  <2>6. Filled' BY <1>0, <2>2, <2>3, <2>4, <2>5 DEF Filled, Answered, LoadOf
  <2>. QED BY <1>0, <2>2, <2>6 DEF ChoiceRight, Clean
<1>. QED BY <1>3, <1>4

LEMMA ChoiceServed ==
  ASSUME ChoiceRight, state = Choice, calm', ~Midway("choice")', Typed, NEW i \in DOMAIN pending,
         Served(i) \/ InVain(i)
  PROVE  ChoiceRight'
<1>. DEFINE r == pending[i]
<1>0. /\ ServerAsked(i) /\ clips' = clips /\ SameTexts /\ SameChoice /\ ui'.loading = ui.loading
      /\ Asks = RestOf(i) \cup {r}
  <2>1. SameTexts /\ SameChoice /\ ui'.loading = ui.loading
    <3>1. CASE ui' = ui BY <3>1 DEF SameTexts, SameChoice
    <3>2. CASE InVain(i) BY <3>2 DEF InVain
    <3>. QED
      BY <3>1, <3>2 DEF Served, ServedLoad, ServedGenerate, ServedThumbnail, ServedAdvance, ServedRegenerate,
                        ServedSingle, ServedMetadata, ServedChoice, TakenUp, WritesOn, Told
  <2>2. clips' = clips BY DEF Served, InVain, StoreFrame
  <2>. QED BY <2>1, <2>2, ServerAsks DEF ServerAsked
<1>1. SameRowTexts
  <2>1. ~ServedSingle(i)
    <3>1. Metadata # Choice BY DEF Metadata, Choice
    <3>. QED BY <3>1, SingleAt
  <2>2. ~WritesOn(i)
    <3>1. WritesOn(i) => r.kind = "choice" BY DEF WritesOn, Metadata, Choice
    <3>. QED BY <3>1, WrittenMidway
  <2>. QED BY <2>1, <2>2, RowsWritten DEF SameRowTexts
<1>2. SameLoads
  <2>. SUFFICES ASSUME NEW q \in Asks', Answered(q), q \notin RestOf(i) PROVE q.reply = rows
    BY <1>0 DEF SameLoads
  <2>. QED BY ServedReplies DEF Answered, LoadOf
<1>3. LoadMine => LoadMine'
  <2>1. CASE ~LoadOf(r) BY <1>0, <2>1 DEF LoadMine, ServerAsked, LoadOf
  <2>2. CASE LoadOf(r)
    <3>1. ~InVain(i) BY <2>2 DEF InVain, LoadOf
    <3>2. ServedLoad(i)
      BY <2>2, <3>1 DEF LoadOf, Served, ServedGenerate, ServedThumbnail, ServedAdvance, ServedRegenerate,
                        ServedSingle, ServedMetadata, ServedChoice, TakenUp, WritesOn
    <3>3. PICK q : Asks' = RestOf(i) \cup {q} /\ AnswerTo(q, r, rows) BY <3>2 DEF ServedLoad, RepliedWith
    <3>4. LoadOf(q) /\ q.mine = r.mine BY <2>2, <3>3 DEF AnswerTo, SameRequest, LoadOf
    <3>. QED BY <1>0, <3>3, <3>4 DEF LoadMine, LoadOf
  <2>. QED BY <2>1, <2>2
<1>. QED BY <1>0, <1>1, <1>2, <1>3, ChoiceKept

LEMMA ChoiceLoaded ==
  ASSUME ChoiceRight, AtChoice, calm', top <= state, Early, Typed, NEW i \in DOMAIN pending, AnsweredLoad(i), AnswerFrame
  PROVE  ChoiceRight'
<1>. DEFINE r == pending[i]
<1>0. /\ r.reply \in [Clips -> Row] /\ Answered(r) /\ ~StaleIn(RestOf(i)) /\ rows' = rows
      /\ Asks = RestOf(i) \cup {r} /\ r.mine \in BOOLEAN /\ ui.loading \in BOOLEAN
  <2>1. r \in Requests BY AskedFor DEF Typed, PageOK
  <2>2. r.mine \in BOOLEAN BY <2>1, RequestFormed DEF Formed
  <2>. QED BY <2>2, AskedFor DEF AnsweredLoad, AnswerFrame, server, Typed, PageOK, Steps
<1>1. /\ clips' = r.reply /\ (ui'.loading <=> ui.loading /\ ~r.mine)
      /\ ui'.edits = Texts(r.reply) /\ ui'.selected = {c \in Clips : r.reply[c].sel}
      /\ ui'.typed = {} /\ ~ui'.toggled
      /\ RestOf(i) \subseteq Asks' /\ Asks' \subseteq RestOf(i) \cup {Preview}
  <2>1. PICK u : u.loading = (ui.loading /\ ~r.mine) /\ Refreshed(r.reply, u, RestOf(i)) BY DEF AnsweredLoad
  <2>2. ~Historical(shown, top)
    <3>1. ~(shown < top) BY DEF AtChoice, Typed, PageOK, Choice, Confirm
    <3>. QED BY <3>1 DEF Historical
  <2>3. r.reply # <<>> BY <1>0, ClipsAreThere
  <2>4. /\ ui'.loading = u.loading /\ ui'.edits = Texts(r.reply) /\ ui'.selected = {c \in Clips : r.reply[c].sel}
        /\ ui'.typed = {} /\ ~ui'.toggled /\ clips' = r.reply
        /\ RestOf(i) \subseteq Asks' /\ Asks' \subseteq RestOf(i) \cup {Preview}
    BY <2>1, <2>2, <2>3 DEF Refreshed, AtChoice
  <2>. QED BY <2>1, <2>4
<1>2. Clean' BY <1>1 DEF Clean
<1>3. \A q \in Asks' : Answered(q) => q \in RestOf(i) /\ q.reply = rows
  BY <1>0, <1>1, LoadKinds DEF StaleIn, Answered, LoadOf
<1>4. CASE ui.loading /\ ~r.mine
  <2>1. LoadMine' BY <1>0, <1>1, <1>4 DEF ChoiceRight, Waiting, Filled, LoadMine, LoadOf
  <2>2. Waiting' BY <1>0, <1>1, <1>3, <1>4, <2>1 DEF Waiting, Exact, Answered, LoadOf
  <2>. QED BY <1>2, <2>2 DEF ChoiceRight
<1>5. CASE ~(ui.loading /\ ~r.mine)
  <2>1. Exact(r.reply) BY <1>0, <1>5 DEF ChoiceRight, Waiting, Filled
  <2>2. Whole(r.reply)
    <3>1. r.reply \in KnownLists BY <1>0, ListsHere
    <3>2. calm BY DEF AnsweredLoad
    <3>. QED BY <3>1, <3>2 DEF Early, AtChoice
  <2>3. ui'.edits \in [Clips -> Nat] /\ \A c \in Clips : ui'.edits[c] = rows[c].text
    <3>1. DOMAIN r.reply = Clips /\ \A c \in Clips : r.reply[c].text \in Nat BY <1>0 DEF Row
    <3>. QED BY <1>1, <2>1, <3>1 DEF Texts, Exact
  <2>4. ui'.selected = Clips BY <1>1, <2>2 DEF Whole
  <2>5. clips' # <<>> BY <1>0, <1>1, ClipsAreThere
  <2>6. \A q \in Asks' : Answered(q) => Exact(q.reply)' BY <1>0, <1>3 DEF Exact
  <2>7. Filled' BY <1>0, <1>1, <1>5, <2>3, <2>4, <2>5, <2>6 DEF Filled, Answered, LoadOf
  <2>. QED BY <1>2, <2>7 DEF ChoiceRight
<1>. QED BY <1>4, <1>5

LEMMA ChoiceStep == ASSUME ChoiceShown, NotAhead, Early, Singles, ClipsCome, Typed, Moves PROVE ChoiceShown'
<1>0. /\ (calm' => calm) /\ (live' => live) /\ Asks \subseteq Requests
      /\ \A i \in DOMAIN pending : RestOf(i) \subseteq Requests /\ Asks = RestOf(i) \cup {pending[i]}
  BY CalmBefore, RangeIn, AskedFor DEF Typed, PageOK, Asks
<1>1. SUFFICES ASSUME calm', live', AtChoice' PROVE ChoiceRight'
  BY ChoiceMade
<1>2. calm /\ live /\ top <= state /\ shown <= top /\ NoneRefused /\ top \in Nat /\ state \in Nat /\ shown \in Nat
  BY <1>0, <1>1, ClipsParts DEF NotAhead, Typed, PageOK, ServerOK
<1>3. state = Choice /\ ~Midway("choice")
  <2>0. ~Midway("choice")
    <3>1. state' \in {Thumbnails, Metadata, Choice} /\ ~Midway("choice")' BY <1>1 DEF AtChoice
    <3>. QED BY <1>1, <3>1, NoChoiceBefore
  <2>1. CASE state' = state BY <1>1, <2>0, <2>1 DEF AtChoice
  <2>2. CASE state' = state + 1 /\ shown' = shown
    <3>1. shown = 3 /\ state = 2 BY <1>1, <1>2, <2>2 DEF AtChoice, Choice
    <3>. QED BY <1>2, <3>1
  <2>3. CASE state' = 0 BY <1>1, <2>3 DEF AtChoice, Choice
  <2>. QED BY <2>0, <2>1, <2>2, <2>3, StateNext
<1>4. ASSUME shown = Choice PROVE AtChoice /\ ChoiceRight /\ shown > Thumbnails /\ shown # Metadata
  BY <1>2, <1>3, <1>4, ChoiceParts DEF AtChoice, Choice, Thumbnails, Metadata
<1>5. ASSUME NEW T, T \subseteq Requests, T \subseteq Asks, \A r \in Asks \ T : ~LoadOf(r),
             NEW gate, NEW end, Displayed(gate, end, T), UNCHANGED <<rows, clips>>
      PROVE  ChoiceRight'
  <2>1. gate = Choice BY <1>1, <1>5 DEF AtChoice, Displayed
  <2>2. CASE shown # Choice BY <1>5, <2>1, <2>2, ChoiceMounted
  <2>3. CASE shown = Choice
    <3>1. ui' = ui /\ Asks' = T BY <1>5, <2>1, <2>3 DEF Displayed
    <3>2. SameLoads /\ (LoadMine => LoadMine') BY <1>5, <3>1 DEF SameLoads, LoadMine, LoadOf
    <3>. QED BY <1>4, <1>5, <2>3, <3>1, <3>2, ChoiceKept DEF SameRowTexts, SameTexts, SameChoice
  <2>. QED BY <2>2, <2>3
<1>6. ASSUME SameRowTexts, Asks' = Asks, UNCHANGED <<shown, clips>>, SameTexts, SameChoice, ui'.loading = ui.loading
      PROVE  ChoiceRight'
  <2>1. SameLoads /\ (LoadMine => LoadMine') BY <1>6 DEF SameLoads, LoadMine
  <2>2. shown = Choice BY <1>1, <1>6 DEF AtChoice
  <2>. QED BY <1>4, <1>6, <2>1, <2>2, ChoiceKept
<1>7. CASE UNCHANGED <<server, events, live, store, ui, pending, calm>>
  BY <1>6, <1>7 DEF server, store, SameRowTexts, SameTexts, SameChoice, Asks
<1>8. CASE ActEffect
  <2>1. shown = Choice BY <1>1, <1>8 DEF ActEffect, ActFrame, AtChoice
  <2>. QED BY <1>4, <1>8, <2>1, ChoiceActed
<1>9. CASE Back
  <2>1. Displayed(shown - 1, top, Asks) /\ UNCHANGED <<rows, clips>> BY <1>9 DEF Back, server
  <2>. QED BY <1>0, <1>5, <2>1
<1>10. CASE Resubmit \/ StreamLost BY <1>1, <1>10, LeftTypes, LostTypes DEF Typed
<1>11. CASE Heard
  <2>. DEFINE e == Head(events)
  <2>0. rows' = rows BY <1>11 DEF Heard, server
  <2>1. CASE HeardState(e)
    <3>1. CASE e.to = top
      <4>1. UNCHANGED <<shown, clips, ui, pending>> BY <2>1, <3>1 DEF HeardState
      <4>. QED BY <1>6, <2>0, <4>1 DEF SameRowTexts, SameTexts, SameChoice, Asks
    <3>2. CASE e.to # top
      <4>1. Displayed(e.to, e.to, Asks) /\ clips' = clips BY <2>1, <3>2 DEF HeardState
      <4>. QED BY <1>0, <1>5, <2>0, <4>1
    <3>. QED BY <3>1, <3>2
  <2>2. CASE HeardThumbnail(e)
    <3>1. shown = Choice BY <1>1, <2>2 DEF AtChoice, HeardThumbnail
    <3>2. /\ UNCHANGED <<shown, clips, pending>> /\ SameTexts /\ SameChoice /\ ui'.loading = ui.loading
      BY <1>1, <1>4, <2>2, <3>1 DEF HeardThumbnail
    <3>. QED BY <1>6, <2>0, <3>2 DEF SameRowTexts, Asks
  <2>3. CASE HeardMetadata(e)
    <3>1. shown = Choice BY <1>1, <2>3 DEF AtChoice, HeardMetadata
    <3>2. UNCHANGED <<shown, clips, ui, pending>> BY <1>4, <2>3, <3>1 DEF HeardMetadata
    <3>. QED BY <1>6, <2>0, <3>2 DEF SameRowTexts, SameTexts, SameChoice, Asks
  <2>. QED BY <1>11, <2>1, <2>2, <2>3 DEF Heard
<1>12. ASSUME NEW i \in DOMAIN gens, ThumbnailStep(i) \/ MetadataStep(i) PROVE ChoiceRight'
  <2>1. UNCHANGED Behind /\ Asks' = Asks BY <1>12, GeneratorFrame
  <2>2. SameRowTexts
    <3>1. CASE ThumbnailStep(i) BY <3>1, RowsDrawn DEF SameRowTexts
    <3>2. CASE MetadataStep(i)
      <4>1. state # Metadata BY <1>3 DEF Metadata, Choice
      <4>2. rows' = rows BY <1>1, <3>2, <4>1, RowsTold
      <4>. QED BY <4>2 DEF SameRowTexts
    <3>. QED BY <1>12, <3>1, <3>2
  <2>. QED BY <1>6, <2>1, <2>2 DEF Behind, store, SameTexts, SameChoice
<1>13. ASSUME NEW i \in DOMAIN pending, Served(i) \/ InVain(i) PROVE ChoiceRight'
  <2>1. shown = Choice /\ ~Midway("choice")' BY <1>1, <1>13 DEF AtChoice, Served, InVain, StoreFrame
  <2>. QED BY <1>1, <1>3, <1>4, <1>13, <2>1, ChoiceServed
<1>14. ASSUME NEW i \in DOMAIN pending, AnswerTaken(i) PROVE ChoiceRight'
  <2>0. AnswerFrame /\ rows' = rows BY <1>14 DEF AnswerTaken, AnswerFrame, server
  <2>1. CASE AnsweredAdvance(i)
    <3>1. ~LoadOf(pending[i]) BY <2>1 DEF AnsweredAdvance, LoadOf
    <3>2. clips' = clips /\ \E gate : Displayed(gate, gate, RestOf(i)) BY <2>1 DEF AnsweredAdvance
    <3>3. RestOf(i) \subseteq Asks /\ RestOf(i) \subseteq Requests BY <1>0
    <3>4. \A r \in Asks \ RestOf(i) : ~LoadOf(r) BY <1>0, <3>1
    <3>. QED BY <1>5, <2>0, <3>2, <3>3, <3>4
  <2>2. CASE ~AnsweredAdvance(i)
    <3>0. shown = Choice
      BY <1>1, <1>14, <2>2 DEF AtChoice, AnswerTaken, AnsweredInVain, AnsweredLoad, AnsweredThumbnail,
                               AnsweredSingle, SameView
    <3>1. CASE AnsweredInVain(i)
      <4>1. pending[i].kind # "load" BY <1>0, <1>2, <3>1 DEF AnsweredInVain, NoneRefused
      <4>2. /\ UNCHANGED clips /\ Asks' = RestOf(i) /\ SameTexts /\ SameChoice /\ ui'.loading = ui.loading
        BY <3>1, <4>1 DEF AnsweredInVain, SameView, Gone, Alike, SameTexts, SameChoice
      <4>3. SameLoads /\ (LoadMine => LoadMine') BY <1>0, <4>1, <4>2 DEF SameLoads, LoadMine, LoadOf
      <4>. QED BY <1>4, <2>0, <3>0, <4>2, <4>3, ChoiceKept DEF SameRowTexts
    <3>2. CASE AnsweredLoad(i) BY <1>1, <1>2, <1>4, <2>0, <3>0, <3>2, ChoiceLoaded
    <3>3. CASE AnsweredThumbnail(i) BY <1>1, <1>4, <3>0, <3>3 DEF AnsweredThumbnail
    <3>4. CASE AnsweredSingle(i)
      <4>1. pending[i] \in Asks /\ pending[i].kind = "single" /\ pending[i].mine BY <1>0, <1>1, <3>4 DEF AnsweredSingle
      <4>. QED BY <1>4, <3>0, <4>1 DEF Singles
    <3>. QED BY <1>14, <2>2, <3>1, <3>2, <3>3, <3>4 DEF AnswerTaken
  <2>. QED BY <2>1, <2>2
<1>. QED BY <1>7, <1>8, <1>9, <1>10, <1>11, <1>12, <1>13, <1>14 DEF Moves
-----------------------------------------------------------------------------
(* The report that the texts have been generated.                          *)

LEMMA DoneSame == ASSUME UNCHANGED <<events, metadataProgress>> PROVE DoneComes' = DoneComes
BY DEF DoneComes

LEMMA DonePublished ==
  ASSUME Typed, DoneComes, events' = events \/ \E e \in Events : Published(e), UNCHANGED metadataProgress
  PROVE  DoneComes'
<1>1. \A k \in DOMAIN events : k \in DOMAIN events' /\ events'[k] = events[k]
  BY PublishedEffect DEF Typed, ServerOK, RestOK
<1>. QED BY <1>1 DEF DoneComes

LEMMA DoneMade ==
  ASSUME Typed, live, LastStatus("generating"), Published(MetaEvent("done")), UNCHANGED metadataProgress
  PROVE  DoneComes'
<1>. DEFINE e == MetaEvent("done")
            n == Len(events) + 1
<1>1. e \in Events /\ e.type = "metadata" /\ e.status = "done" BY EventsMade DEF MetaEvent
<1>. HIDE DEF e
<1>2. /\ Len(events) \in Nat /\ DOMAIN events = 1 .. Len(events) /\ DOMAIN events' = 1 .. Len(events) + 1
      /\ \A k \in DOMAIN events : k \in DOMAIN events' /\ events'[k] = events[k]
      /\ events'[n] = e
  BY <1>1, PublishedEffect DEF Typed, ServerOK, e
<1>3. n \in DOMAIN events' /\ events'[n].type = "metadata" /\ events'[n].status = "done" BY <1>1, <1>2
<1>4. metadataProgress' # "done" \/ \E k \in DOMAIN events : events[k].type = "metadata" /\ events[k].status # "done"
  BY DEF LastStatus
<1>5. \A k \in DOMAIN events : k \in DOMAIN events' /\ k < n /\ events'[k] = events[k] BY <1>2
<1>. HIDE DEF n
<1>. QED BY <1>3, <1>4, <1>5 DEF DoneComes

DoneNow == Head(events).type = "metadata" /\ Head(events).status = "done" /\ metadataProgress # "done"

LEMMA DoneHeard ==
  ASSUME Typed, Heard, DoneComes
  PROVE  DoneComes' \/ DoneNow
<1>. DEFINE e == Head(events)
<1>0. /\ Len(events) \in Nat \ {0} /\ DOMAIN events = 1 .. Len(events) /\ e = events[1]
      /\ DOMAIN events' = 1 .. Len(events) - 1
      /\ \A k \in DOMAIN events' : k + 1 \in DOMAIN events /\ events'[k] = events[k + 1]
  BY EventTaken DEF Heard, Typed, ServerOK
<1>. HIDE DEF e
<1>1. \A k \in DOMAIN events : k # 1 => k - 1 \in DOMAIN events' /\ events'[k - 1] = events[k] BY <1>0
<1>2. IF e.type = "metadata" THEN metadataProgress' = e.status ELSE metadataProgress' = metadataProgress
  BY DEF Heard, HeardState, HeardThumbnail, HeardMetadata, e
<1>3. PICK k \in DOMAIN events :
         /\ events[k].type = "metadata" /\ events[k].status = "done"
         /\ \/ metadataProgress # "done"
            \/ \E j \in DOMAIN events : j < k /\ events[j].type = "metadata" /\ events[j].status # "done"
  BY DEF DoneComes
<1>4. CASE k = 1
  <2>1. metadataProgress # "done" BY <1>0, <1>3, <1>4
  <2>. QED BY <1>0, <1>3, <1>4, <2>1 DEF DoneNow, e
<1>5. CASE k # 1
  <2>1. k - 1 \in DOMAIN events' /\ events'[k - 1].type = "metadata" /\ events'[k - 1].status = "done"
    BY <1>1, <1>3, <1>5
  <2>2. metadataProgress' # "done" => DoneComes' BY <2>1 DEF DoneComes
  <2>3. CASE metadataProgress # "done" BY <1>2, <2>2, <2>3 DEF DoneNow, e
  <2>4. ASSUME NEW j \in DOMAIN events, j < k, events[j].type = "metadata", events[j].status # "done"
        PROVE  DoneComes'
    <3>1. CASE j = 1 BY <1>0, <1>2, <2>2, <2>4, <3>1
    <3>2. CASE j # 1
      <4>1. j - 1 \in DOMAIN events' /\ events'[j - 1] = events[j] /\ j - 1 < k - 1 BY <1>0, <1>1, <2>4, <3>2
      <4>. QED BY <2>1, <2>4, <4>1 DEF DoneComes
    <3>. QED BY <3>1, <3>2
  <2>. QED BY <1>3, <2>3, <2>4
<1>. QED BY <1>4, <1>5
-----------------------------------------------------------------------------
(* The metadata step has the texts of the server, or is about to.          *)

SinglesRight == \A r \in Asks : r.kind = "single" /\ r.reply \in Nat => TextComes(r.clip)
EditsRight ==
  /\ ui.edits \in [Clips -> Nat]
  /\ \A c \in Clips \ ui.typed : ui.edits[c] = rows[c].text \/ TextComes(c)
Behindhand == \E r \in Asks : Answered(r) /\ ~UpToDate(r.reply)
StepRight  == (TextsCome \/ EditsRight) /\ (Behindhand => TextsCome)
MetaRight  == SinglesRight /\ (shown = Metadata => StepRight)

LEMMA MetaParts == MetadataShown <=> (calm /\ live /\ state = Metadata /\ ~Midway("metadata") => MetaRight)
BY DEF MetadataShown, MetaRight, SinglesRight, StepRight, EditsRight, Behindhand, TextComes

LEMMA MetaMade ==
  ASSUME calm' /\ live' /\ state' = Metadata /\ ~Midway("metadata")' => MetaRight'
  PROVE  MetadataShown'
BY DEF MetadataShown, MetaRight, SinglesRight, StepRight, EditsRight, Behindhand, TextComes

(* A clip whose text is the same, or comes with the answer to a request.   *)
Held(c) == TextComes(c)' \/ (rows'[c].text = rows[c].text /\ ~TextComes(c))
AllHeld == \A c \in Clips : Held(c)

NothingNew ==
  /\ \A q \in Asks' : q.kind = "single" /\ q.reply \in Nat =>
        TextComes(q.clip)' \/ \E r \in Asks : r.kind = "single" /\ r.clip = q.clip /\ r.reply = q.reply /\ r.clip \in Clips
  /\ \A q \in Asks' : Answered(q) => (\E r \in Asks : Answered(r) /\ r.reply = q.reply) \/ q.reply = rows'

LEMMA UpToDateKept == ASSUME AllHeld, NEW list, UpToDate(list) PROVE UpToDate(list)'
BY DEF AllHeld, Held, UpToDate

LEMMA MetaKept ==
  ASSUME AllHeld, NothingNew, SinglesRight, shown' = Metadata => StepRight /\ SameTexts, TextsCome => TextsCome'
  PROVE  MetaRight'
<1>1. SinglesRight'
  <2>. SUFFICES ASSUME NEW q \in Asks', q.kind = "single", q.reply \in Nat PROVE TextComes(q.clip)'
    BY DEF SinglesRight
  <2>. QED BY DEF NothingNew, SinglesRight, AllHeld, Held
<1>2. ASSUME StepRight, SameTexts PROVE StepRight'
  <2>1. CASE TextsCome BY <2>1 DEF StepRight
  <2>2. CASE ~TextsCome
    <3>1. EditsRight' BY <1>2, <2>2 DEF StepRight, EditsRight, SameTexts, AllHeld, Held
    <3>2. ASSUME NEW q \in Asks', Answered(q) PROVE UpToDate(q.reply)'
      <4>1. CASE q.reply = rows' BY <4>1 DEF UpToDate
      <4>2. ASSUME NEW r \in Asks, Answered(r), r.reply = q.reply PROVE UpToDate(q.reply)'
        <5>1. UpToDate(r.reply) BY <1>2, <2>2, <4>2 DEF StepRight, Behindhand
        <5>. QED BY <4>2, <5>1, UpToDateKept
      <4>. QED BY <3>2, <4>1, <4>2 DEF NothingNew
    <3>3. ~Behindhand' BY <3>2 DEF Behindhand, Answered, LoadOf
    <3>. QED BY <3>1, <3>3 DEF StepRight
  <2>. QED BY <2>1, <2>2
<1>. QED BY <1>1, <1>2 DEF MetaRight

(* The texts come from where they came from.                               *)
LEMMA TextsComing ==
  ASSUME TextsCome, AllHeld, DoneComes => TextsCome',
         \A g \in Runs : g.kind = "metadata" /\ g.stage = "generated" => TextsCome',
         \A r \in Asks : LoadOf(r) => TextsCome' \/ \E q \in Asks' : LoadOf(q) /\ q.reply = r.reply
  PROVE  TextsCome'
<1>1. ASSUME NEW r \in Asks, LoadOf(r), r.reply = Null PROVE TextsCome' BY <1>1 DEF TextsCome, LoadOf
<1>2. ASSUME NEW r \in Asks, Answered(r), UpToDate(r.reply) PROVE TextsCome'
  <2>. SUFFICES ASSUME NEW q \in Asks', LoadOf(q), q.reply = r.reply PROVE TextsCome'
    BY <1>2 DEF Answered, LoadOf
  <2>1. UpToDate(q.reply)' BY <1>2, UpToDateKept
  <2>. QED BY <1>2, <2>1 DEF TextsCome, Answered, LoadOf
<1>. QED BY <1>1, <1>2 DEF TextsCome

(* Rows and requests are what they were.                                   *)
LEMMA MetaAsked ==
  ASSUME Typed, NEW S, S \subseteq Asks, From(S), Keeps(S), \A r \in Asks \ S : r.kind \notin {"load", "single"},
         SameRowTexts
  PROVE  /\ AllHeld /\ NothingNew
         /\ \A r \in Asks : LoadOf(r) => \E q \in Asks' : LoadOf(q) /\ q.reply = r.reply
<1>0. \A r \in Asks : r.kind \in {"load", "single"} => \E q \in Asks' : Same(q, r) BY DEF Keeps
<1>1. AllHeld
  <2>. SUFFICES ASSUME NEW c \in Clips, TextComes(c) PROVE TextComes(c)' BY DEF AllHeld, Held, SameRowTexts
  <2>1. PICK r \in Asks : r.kind = "single" /\ r.clip = c /\ r.reply = rows[c].text BY DEF TextComes
  <2>2. PICK q \in Asks' : Same(q, r) BY <1>0, <2>1
  <2>. QED BY <2>1, <2>2 DEF TextComes, Same, SameRequest, SameRowTexts
<1>2. NothingNew
  <2>1. \A r \in Asks : r.kind = "single" => r.clip \in Clips
    BY RangeIn, RequestFormed DEF Formed, Places, Typed, PageOK, Asks
  <2>2. \A q \in Asks' : (q.kind = "single" /\ q.reply \in Nat) \/ Answered(q) => \E r \in S : Same(q, r)
    BY LoadKinds, NullRefused DEF From, Answered, LoadOf
  <2>. QED BY <2>1, <2>2 DEF NothingNew, Same, SameRequest, Answered, LoadOf
<1>3. \A r \in Asks : LoadOf(r) => \E q \in Asks' : LoadOf(q) /\ q.reply = r.reply
  BY <1>0 DEF LoadOf, Same, SameRequest
<1>. QED BY <1>1, <1>2, <1>3
-----------------------------------------------------------------------------
LEMMA AsksSame == ASSUME Asks' = Asks PROVE From(Asks) /\ Keeps(Asks)
BY DEF From, Keeps, Same, SameRequest

LEMMA LoadAsked == ASSUME Load \in Asks' PROVE TextsCome'
BY LoadMade DEF TextsCome, LoadOf

LEMMA GensHeld ==
  ASSUME Runs \subseteq Runs', NEW g \in Runs, g.kind = "metadata", g.stage = "generated"
  PROVE  TextsCome'
BY DEF TextsCome

LEMMA MetaActed ==
  ASSUME MetaRight, Typed, ActEffect
  PROVE  MetaRight'
<1>0. /\ UNCHANGED <<rows, gens, shown, clips, events, metadataProgress>> /\ Asks \subseteq Asks'
      /\ \A q \in Asks' \ Asks : NewRequest(q)
  BY DEF ActEffect, ActFrame, server
<1>1. \A r \in Asks : r.kind = "single" => r.clip \in Clips
  BY RangeIn, RequestFormed DEF Formed, Places, Typed, PageOK, Asks
<1>2. \A c \in Clips : TextComes(c) => TextComes(c)' BY <1>0 DEF TextComes
<1>3. AllHeld BY <1>0, <1>2 DEF AllHeld, Held
<1>4. NothingNew BY <1>0, <1>1, NullRefused DEF NothingNew, NewRequest, Answered, LoadOf
<1>5. TextsCome => TextsCome'
  <2>1. DoneComes' = DoneComes BY <1>0, DoneSame
  <2>2. Runs' = Runs BY <1>0 DEF Runs
  <2>. QED BY <1>0, <1>3, <2>1, <2>2, TextsComing, GensHeld DEF TextsCome
<1>6. CASE SameTexts BY <1>3, <1>4, <1>5, <1>6, MetaKept DEF MetaRight, ActEffect, ActFrame
<1>7. CASE TypedText
  <2>1. SinglesRight' /\ (shown' = Metadata => TextsCome' \/ EditsRight') /\ (shown = Metadata /\ Behindhand' => TextsCome')
    <3>1. SinglesRight'
      <4>. SUFFICES ASSUME NEW q \in Asks', q.kind = "single", q.reply \in Nat PROVE TextComes(q.clip)'
        BY DEF SinglesRight
      <4>. QED BY <1>3, <1>4 DEF NothingNew, MetaRight, SinglesRight, AllHeld, Held
    <3>2. ASSUME EditsRight PROVE EditsRight' BY <1>3, <1>7, <3>2 DEF EditsRight, TypedText, AllHeld, Held
    <3>3. ASSUME Behindhand', shown = Metadata PROVE TextsCome'
      <4>1. PICK q \in Asks' : Answered(q) /\ ~UpToDate(q.reply)' BY <3>3 DEF Behindhand, Answered, LoadOf
      <4>2. CASE q.reply = rows' BY <4>1, <4>2 DEF UpToDate
      <4>3. ASSUME NEW r \in Asks, Answered(r), r.reply = q.reply PROVE TextsCome'
        <5>1. ~UpToDate(r.reply) BY <1>3, <4>1, <4>3, UpToDateKept
        <5>. QED BY <1>5, <3>3, <4>3, <5>1 DEF MetaRight, StepRight, Behindhand
      <4>. QED BY <1>4, <4>1, <4>2, <4>3 DEF NothingNew
    <3>. QED BY <1>0, <1>5, <3>1, <3>2, <3>3 DEF MetaRight, StepRight
  <2>. QED BY <1>0, <2>1 DEF MetaRight, StepRight
<1>. QED BY <1>6, <1>7 DEF ActEffect

LEMMA MetaDisplayed ==
  ASSUME MetaRight, Typed, NEW S, S \subseteq Asks, S \subseteq Requests, NEW gate, NEW end, Displayed(gate, end, S),
         \A r \in Asks \ S : r.kind \notin {"load", "single"},
         UNCHANGED <<rows, gens>>, DoneComes => DoneComes' \/ Load \in Asks'
  PROVE  MetaRight'
<1>1. From(S) /\ Keeps(S) BY DisplayedAsks
<1>2. /\ AllHeld /\ NothingNew
      /\ \A r \in Asks : LoadOf(r) => \E q \in Asks' : LoadOf(q) /\ q.reply = r.reply
  BY <1>1, MetaAsked DEF SameRowTexts
<1>3. Runs' = Runs BY DEF Runs
<1>4. TextsCome => TextsCome' BY <1>2, <1>3, TextsComing, GensHeld, LoadAsked DEF TextsCome
<1>5. CASE gate = shown
  <2>1. shown' = shown /\ SameTexts BY <1>5 DEF Displayed, SameTexts
  <2>. QED BY <1>2, <1>4, <2>1, MetaKept DEF MetaRight
<1>6. CASE gate # shown
  <2>1. shown' = Metadata => TextsCome'
    <3>1. gate = Metadata => gate # Confirm BY DEF Metadata, Confirm
    <3>. QED BY <1>6, <3>1, LoadAsked DEF Displayed
  <2>2. SinglesRight'
    <3>. SUFFICES ASSUME NEW q \in Asks', q.kind = "single", q.reply \in Nat PROVE TextComes(q.clip)'
      BY DEF SinglesRight
    <3>. QED BY <1>2 DEF NothingNew, MetaRight, SinglesRight, AllHeld, Held
  <2>. QED BY <2>1, <2>2 DEF MetaRight, StepRight
<1>. QED BY <1>5, <1>6

LEMMA MetaHeard ==
  ASSUME MetaRight, Typed, Heard, calm'
  PROVE  MetaRight'
<1>. DEFINE e == Head(events)
<1>0. /\ UNCHANGED <<rows, gens>> /\ From(Asks) /\ Keeps(Asks) /\ Asks \subseteq Asks /\ Asks \subseteq Requests
      /\ (DoneComes => DoneComes' \/ DoneNow)
  BY PageAsks, DoneHeard, RangeIn DEF Heard, server, Typed, PageOK, Asks
<1>1. /\ AllHeld /\ NothingNew
      /\ \A r \in Asks : LoadOf(r) => \E q \in Asks' : LoadOf(q) /\ q.reply = r.reply
  BY <1>0, MetaAsked DEF SameRowTexts
<1>2. Runs' = Runs BY <1>0 DEF Runs
<1>3. SinglesRight'
  <2>. SUFFICES ASSUME NEW q \in Asks', q.kind = "single", q.reply \in Nat PROVE TextComes(q.clip)'
    BY DEF SinglesRight
  <2>. QED BY <1>1 DEF NothingNew, MetaRight, SinglesRight, AllHeld, Held
<1>4. ASSUME UNCHANGED shown, SameTexts, DoneComes => DoneComes' \/ Load \in Asks' PROVE MetaRight'
  <2>1. TextsCome => TextsCome' BY <1>1, <1>2, <1>4, TextsComing, GensHeld, LoadAsked DEF TextsCome
  <2>. QED BY <1>1, <1>4, <2>1, MetaKept DEF MetaRight
<1>5. CASE HeardState(e)
  <2>1. DoneComes => DoneComes' BY <1>0, <1>5 DEF HeardState, DoneNow
  <2>2. CASE e.to = top BY <1>4, <1>5, <2>1, <2>2 DEF HeardState, SameTexts
  <2>3. CASE e.to # top BY <1>0, <1>5, <2>1, <2>3, MetaDisplayed DEF HeardState
  <2>. QED BY <2>2, <2>3
<1>6. CASE HeardThumbnail(e)
  <2>1. DoneComes => DoneComes' BY <1>0, <1>6 DEF HeardThumbnail, DoneNow
  <2>2. CASE SameTexts BY <1>4, <1>6, <2>1, <2>2 DEF HeardThumbnail
  <2>3. CASE ~SameTexts
    <3>1. shown' = shown /\ ~(shown > Thumbnails) BY <1>6, <2>3 DEF HeardThumbnail
    <3>2. shown' # Metadata BY <3>1 DEF Thumbnails, Metadata
    <3>. QED BY <1>3, <3>2 DEF MetaRight
  <2>. QED BY <2>2, <2>3
<1>7. CASE HeardMetadata(e)
  <2>1. SameTexts /\ shown' = shown BY <1>7 DEF HeardMetadata, SameTexts
  <2>2. CASE shown = Metadata
    <3>1. DoneComes => DoneComes' \/ Load \in Asks' BY <1>0, <1>7, <2>2 DEF HeardMetadata, DoneNow
    <3>. QED BY <1>4, <2>1, <3>1
  <2>3. CASE shown # Metadata BY <1>3, <2>1, <2>3 DEF MetaRight
  <2>. QED BY <2>2, <2>3
<1>. QED BY <1>5, <1>6, <1>7 DEF Heard
-----------------------------------------------------------------------------
LEMMA MetaDrawn ==
  ASSUME MetaRight, Typed, NEW i \in DOMAIN gens, ThumbnailStep(i)
  PROVE  MetaRight'
<1>0. /\ UNCHANGED Behind /\ Asks' = Asks /\ SameRowTexts /\ gens[i].kind = "thumbnails"
      /\ RunsBut(i) \subseteq Runs' /\ Runs = RunsBut(i) \cup {gens[i]}
  <2>1. gens[i].kind = "thumbnails" /\ RunsBut(i) \subseteq Runs' BY ThumbnailStepCases DEF Typed
  <2>. QED BY <2>1, GeneratorFrame, RowsDrawn, GensSplit DEF Typed, ServerOK, SameRowTexts
<1>1. /\ AllHeld /\ NothingNew
      /\ \A r \in Asks : LoadOf(r) => \E q \in Asks' : LoadOf(q) /\ q.reply = r.reply
  BY <1>0, AsksSame, MetaAsked
<1>2. DoneComes => DoneComes'
  <2>1. events' = events \/ \E e \in Events : Published(e) BY GeneratorEvents
  <2>. QED BY <1>0, <2>1, DonePublished DEF Behind, store
<1>3. TextsCome => TextsCome' BY <1>0, <1>1, <1>2, TextsComing DEF TextsCome
<1>. QED BY <1>0, <1>1, <1>3, MetaKept DEF MetaRight, Behind, store, SameTexts

LEMMA MetaTold ==
  ASSUME MetaRight, Typed, Singles, calm', live, Working => LastStatus("generating"),
         NEW i \in DOMAIN gens, MetadataStep(i)
  PROVE  MetaRight'
<1>. DEFINE g == gens[i]
<1>0. /\ UNCHANGED Behind /\ UNCHANGED metadataProgress /\ Asks' = Asks /\ g \in Runs /\ Runs = RunsBut(i) \cup {g}
      /\ g.kind = "metadata"
  BY MetadataStepCases, GeneratorFrame, GensSplit DEF Typed, ServerOK, Behind, store
<1>1. CASE rows' # rows
  <2>1. Runs' = RunsBut(i) \cup {Writer("generated")} /\ \A r \in Asks : r.kind = "single" => ~r.busy
    BY <1>1, RowsTold
  <2>2. TextsCome' BY <2>1, GeneratorsMade DEF TextsCome, Stages
  <2>3. SinglesRight' BY <1>0, <2>1 DEF SinglesRight, Singles
  <2>. QED BY <2>2, <2>3 DEF MetaRight, StepRight
<1>2. CASE rows' = rows
  <2>1. /\ AllHeld /\ NothingNew
        /\ \A r \in Asks : LoadOf(r) => \E q \in Asks' : LoadOf(q) /\ q.reply = r.reply
    BY <1>0, <1>2, AsksSame, MetaAsked DEF SameRowTexts
  <2>2. DoneComes => DoneComes'
    <3>1. events' = events \/ \E e \in Events : Published(e) BY GeneratorEvents
    <3>. QED BY <1>0, <3>1, DonePublished
  <2>3. CASE RunsBut(i) \subseteq Runs' /\ (g.stage = "generated" => DoneComes')
    <3>1. ASSUME NEW h \in Runs, h.kind = "metadata", h.stage = "generated" PROVE TextsCome'
      <4>1. h = g => DoneComes' BY <2>3, <3>1
      <4>2. h # g => h \in Runs' BY <1>0, <2>3
      <4>. QED BY <3>1, <4>1, <4>2 DEF TextsCome
    <3>2. TextsCome => TextsCome' BY <2>1, <2>2, <3>1, TextsComing DEF TextsCome
    <3>. QED BY <1>0, <2>1, <3>2, MetaKept DEF MetaRight, Behind, store, SameTexts
  <2>4. RunsBut(i) \subseteq Runs' BY MetadataStepCases DEF Typed
  <2>5. ASSUME g.stage = "generated" PROVE DoneComes'
    <3>1. Published(MetaEvent("done")) BY <2>5, MetadataStepCases DEF Typed
    <3>2. Working BY <1>0, <2>5 DEF Working, AtWork
    <3>. QED BY <1>0, <3>1, <3>2, DoneMade
  <2>. QED BY <2>3, <2>4, <2>5
<1>. QED BY <1>1, <1>2

LEMMA MetaServed ==
  ASSUME MetaRight, Typed, calm', state = Metadata, ~Midway("metadata")', NEW i \in DOMAIN pending,
         Served(i) \/ InVain(i)
  PROVE  MetaRight'
<1>. DEFINE r == pending[i]
<1>0. /\ ServerAsked(i) /\ UNCHANGED <<shown, metadataProgress>> /\ SameTexts /\ RestOf(i) \subseteq Asks
      /\ Asks = RestOf(i) \cup {r} /\ r.reply = Null /\ rows \in [Clips -> Row]
  <2>1. UNCHANGED <<shown, metadataProgress>> /\ r.reply = Null BY DEF Served, InVain, StoreFrame
  <2>2. SameTexts
    <3>1. CASE InVain(i) BY <3>1 DEF InVain
    <3>2. CASE ui' = ui BY <3>2 DEF SameTexts
    <3>. QED BY <3>1, <3>2 DEF Served, ServedLoad, ServedGenerate, ServedThumbnail, ServedAdvance, ServedRegenerate,
                              ServedSingle, ServedMetadata, ServedChoice, TakenUp, WritesOn, Told
  <2>3. Asks = RestOf(i) \cup {r} /\ RestOf(i) \subseteq Asks BY AskedFor DEF Typed, PageOK
  <2>. QED BY <2>1, <2>2, <2>3, ServerAsks DEF Typed, ServerOK
<1>a. \A c \in Clips : rows[c].text \in Nat BY <1>0 DEF Row
<1>1. ~WritesOn(i)
  <2>1. WritesOn(i) => r.kind = "metadata" BY DEF WritesOn, Metadata, Choice
  <2>. QED BY <2>1, WrittenMidway
<1>2. \A c \in Clips : TextComes(c) => \E q \in RestOf(i) : q.kind = "single" /\ q.clip = c /\ q.reply = rows[c].text
  BY <1>0, <1>a, NullRefused DEF TextComes
<1>3. AllHeld
  <2>1. CASE ServedSingle(i)
    <3>. SUFFICES ASSUME NEW c \in Clips PROVE Held(c) BY DEF AllHeld
    <3>1. CASE c = r.clip
      <4>1. rows'[c].text = NewText BY <2>1, <3>1, RowsWritten
      <4>2. PICK q : Asks' = RestOf(i) \cup {q} /\ AnswerTo(q, r, NewText) BY <2>1 DEF ServedSingle, RepliedWith
      <4>3. q \in Asks' /\ q.kind = "single" /\ q.clip = c /\ q.reply = rows'[c].text
        BY <2>1, <3>1, <4>1, <4>2 DEF AnswerTo, SameRequest, ServedSingle
      <4>. QED BY <4>3 DEF TextComes, Held
    <3>2. CASE c # r.clip
      <4>1. rows'[c].text = rows[c].text BY <2>1, <3>2, RowsWritten
      <4>. QED BY <1>0, <1>2, <4>1 DEF Held, TextComes, ServerAsked
    <3>. QED BY <3>1, <3>2
  <2>2. CASE ~ServedSingle(i)
    <3>1. \A c \in Clips : rows'[c].text = rows[c].text BY <1>1, <2>2, RowsWritten
    <3>. QED BY <1>0, <1>2, <3>1 DEF AllHeld, Held, TextComes, ServerAsked
  <2>. QED BY <2>1, <2>2
<1>4. NothingNew
  <2>1. ASSUME NEW q \in Asks', q.kind = "single", q.reply \in Nat
        PROVE  TextComes(q.clip)' \/ (q \in Asks /\ q.clip \in Clips)
    <3>1. CASE q \in RestOf(i) BY <1>0, <2>1, <3>1, RangeIn, RequestFormed DEF Formed, Places, Typed, PageOK, Asks
    <3>2. CASE q \notin RestOf(i)
      <4>1. ServedSingle(i) /\ q.reply = NewText BY <2>1, <3>2, ServedReplies, NullRefused
      <4>2. q.clip = r.clip BY <1>0, <1>1, <3>2 DEF ServerAsked
      <4>3. rows'[r.clip].text = NewText BY <4>1, RowsWritten
      <4>. QED BY <2>1, <4>1, <4>2, <4>3 DEF TextComes
    <3>. QED BY <3>1, <3>2
  <2>2. ASSUME NEW q \in Asks', Answered(q) PROVE q \in Asks \/ q.reply = rows'
    <3>1. CASE q \in RestOf(i) BY <1>0, <3>1
    <3>2. CASE q \notin RestOf(i)
      <4>1. q.reply = rows /\ ServedLoad(i) BY <2>2, <3>2, ServedReplies DEF Answered, LoadOf
      <4>. QED BY <4>1 DEF ServedLoad, server
    <3>. QED BY <3>1, <3>2
  <2>. QED BY <2>1, <2>2 DEF NothingNew
<1>5. TextsCome => TextsCome'
  <2>1. DoneComes => DoneComes'
    <3>1. events' = events \/ \E e \in Events : Published(e) BY ServedStates
    <3>. QED BY <1>0, <3>1, DonePublished
  <2>2. Runs \subseteq Runs'
    BY DEF Served, ServedLoad, ServedGenerate, ServedThumbnail, ServedAdvance, ServedRegenerate,
           ServedSingle, ServedMetadata, ServedChoice, TakenUp, WritesOn, InVain, server, Runs
  <2>3. ASSUME NEW p \in Asks, LoadOf(p) PROVE TextsCome' \/ \E q \in Asks' : LoadOf(q) /\ q.reply = p.reply
    <3>1. CASE p \in RestOf(i) BY <1>0, <2>3, <3>1 DEF ServerAsked
    <3>2. CASE p = r
      <4>1. ~InVain(i) BY <2>3, <3>2 DEF InVain, LoadOf
      <4>2. ServedLoad(i)
        BY <2>3, <3>2, <4>1 DEF LoadOf, Served, ServedGenerate, ServedThumbnail, ServedAdvance, ServedRegenerate,
                                ServedSingle, ServedMetadata, ServedChoice, TakenUp, WritesOn
      <4>3. PICK q : Asks' = RestOf(i) \cup {q} /\ AnswerTo(q, r, rows) BY <4>2 DEF ServedLoad, RepliedWith
      <4>4. LoadOf(q) /\ q.reply = rows /\ rows' = rows
        BY <4>2, <4>3 DEF AnswerTo, SameRequest, LoadOf, ServedLoad, server
      <4>5. Answered(q) /\ UpToDate(q.reply)' BY <1>0, <4>4, NullRefused DEF Answered, UpToDate
      <4>. QED BY <4>3, <4>5 DEF TextsCome, Answered, LoadOf
    <3>. QED BY <1>0, <3>1, <3>2
  <2>. QED BY <1>3, <2>1, <2>2, <2>3, TextsComing, GensHeld DEF TextsCome
<1>. QED BY <1>0, <1>3, <1>4, <1>5, MetaKept DEF MetaRight
-----------------------------------------------------------------------------
LEMMA MetaAnswered ==
  ASSUME MetaRight, Typed, Singles, NoneRefused, calm', NEW i \in DOMAIN pending, AnswerTaken(i)
  PROVE  MetaRight'
<1>. DEFINE r == pending[i]
            S == RestOf(i)
<1>0. /\ Asks = S \cup {r} /\ S \subseteq Asks /\ S \subseteq Requests /\ r \in Asks
      /\ UNCHANGED <<rows, gens, events, metadataProgress>> /\ r.reply # Null
      /\ \A c \in Clips : rows[c].text \in Nat
  BY AskedFor DEF Typed, PageOK, ServerOK, AnswerTaken, AnswerFrame, server, Row
<1>. HIDE DEF S
<1>1. From(S) /\ Keeps(S) BY PageAsks DEF S
<1>2. DoneComes' = DoneComes /\ Runs' = Runs BY <1>0, DoneSame DEF Runs
<1>3. ASSUME NEW c \in Clips, TextComes(c), r.kind # "single", S \subseteq Asks' PROVE TextComes(c)'
  BY <1>0, <1>3 DEF TextComes
<1>4. ASSUME S \subseteq Asks', Asks' \subseteq S \cup {Preview}, r.kind # "single" PROVE SinglesRight'
  <2>. SUFFICES ASSUME NEW q \in Asks', q.kind = "single", q.reply \in Nat PROVE TextComes(q.clip)'
    BY DEF SinglesRight
  <2>1. q \in S BY <1>4, LoadKinds
  <2>2. q.clip \in Clips BY <1>0, <2>1, RequestFormed DEF Formed, Places
  <2>. QED BY <1>0, <1>3, <1>4, <2>1, <2>2 DEF SinglesRight, MetaRight
<1>5. CASE AnsweredInVain(i)
  <2>1. r.kind \notin {"load", "single"} BY <1>0, <1>5 DEF AnsweredInVain, NoneRefused
  <2>2. /\ AllHeld /\ NothingNew
        /\ \A p \in Asks : LoadOf(p) => \E q \in Asks' : LoadOf(q) /\ q.reply = p.reply
    BY <1>0, <1>1, <2>1, MetaAsked DEF SameRowTexts
  <2>3. TextsCome => TextsCome' BY <1>2, <2>2, TextsComing, GensHeld DEF TextsCome
  <2>4. shown' = shown /\ SameTexts BY <1>5 DEF AnsweredInVain, SameView, Alike, SameTexts
  <2>. QED BY <2>2, <2>3, <2>4, MetaKept DEF MetaRight
<1>6. CASE AnsweredLoad(i)
  <2>1. /\ r.kind = "load" /\ r.reply \in [Clips -> Row] /\ Answered(r) /\ ~StaleIn(S) /\ shown' = shown
        /\ S \subseteq Asks' /\ Asks' \subseteq S \cup {Preview}
    BY <1>6 DEF AnsweredLoad, Refreshed, S
  <2>2. SinglesRight' BY <1>4, <2>1
  <2>3. ASSUME shown' = Metadata PROVE StepRight'
    <3>1. PICK list : list = r.reply OBVIOUS
    <3>2. ui'.edits = Texts(list) /\ ui'.typed = {} BY <1>6, <2>1, <2>3, <3>1 DEF AnsweredLoad, Refreshed
    <3>3. ~Behindhand'
      <4>. SUFFICES ASSUME NEW q \in Asks', Answered(q) PROVE UpToDate(q.reply)' BY DEF Behindhand, Answered, LoadOf
      <4>1. q \in S BY <2>1, LoadKinds DEF Answered, LoadOf
      <4>. QED BY <1>0, <2>1, <4>1 DEF StaleIn, UpToDate
    <3>4. CASE UpToDate(list)
      <4>1. EditsRight'
        <5>1. ui'.edits \in [Clips -> Nat] /\ \A c \in Clips : ui'.edits[c] = list[c].text
          BY <2>1, <3>1, <3>2, TextsOf
        <5>2. \A c \in Clips : list[c].text = rows[c].text \/ TextComes(c)' BY <1>3, <2>1, <3>4 DEF UpToDate
        <5>. QED BY <1>0, <5>1, <5>2 DEF EditsRight
      <4>. QED BY <3>3, <4>1 DEF StepRight
    <3>5. CASE ~UpToDate(list)
      <4>1. TextsCome BY <1>0, <2>1, <2>3, <3>1, <3>5 DEF MetaRight, StepRight, Behindhand
      <4>2. TextsCome'
        <5>1. CASE \E p \in Asks : LoadOf(p) /\ p.reply = Null BY <1>0, <2>1, <5>1 DEF TextsCome, LoadOf
        <5>2. CASE \E g \in Runs : g.kind = "metadata" /\ g.stage = "generated" BY <1>2, <5>2 DEF TextsCome
        <5>3. CASE DoneComes BY <1>2, <5>3 DEF TextsCome
        <5>4. CASE \E p \in Asks : Answered(p) /\ UpToDate(p.reply)
          <6>1. PICK p \in S : Answered(p) BY <1>0, <3>1, <3>5, <5>4
          <6>2. UpToDate(p.reply)' BY <1>0, <2>1, <6>1 DEF StaleIn, UpToDate
          <6>. QED BY <2>1, <6>1, <6>2 DEF TextsCome, Answered, LoadOf
        <5>. QED BY <4>1, <5>1, <5>2, <5>3, <5>4 DEF TextsCome
      <4>. QED BY <3>3, <4>2 DEF StepRight
    <3>. QED BY <3>4, <3>5
  <2>. QED BY <2>2, <2>3 DEF MetaRight
<1>7. CASE AnsweredThumbnail(i)
  <2>1. shown' # Metadata
    <3>1. ~(shown > Thumbnails) /\ shown' = shown BY <1>7 DEF AnsweredThumbnail
    <3>. QED BY <3>1 DEF Thumbnails, Metadata
  <2>2. S \subseteq Asks' /\ Asks' \subseteq S \cup {Preview} /\ r.kind # "single"
    BY <1>7 DEF AnsweredThumbnail, Refreshed, S
  <2>. QED BY <1>4, <2>1, <2>2 DEF MetaRight
<1>8. CASE AnsweredAdvance(i)
  <2>1. Displayed(r.reply, r.reply, S) /\ r.kind = "advance" BY <1>8 DEF AnsweredAdvance, S
  <2>. QED BY <1>0, <1>2, <2>1, MetaDisplayed
<1>9. CASE AnsweredSingle(i)
  <2>0. PICK d : d = r.clip OBVIOUS
  <2>1. /\ r.kind = "single" /\ d \in Clips /\ r.reply \in {Refused} \cup Nat /\ Asks' = S
        /\ r.mine /\ ~StaleIn(Asks) /\ \A q \in S : ~(q.kind = "single" /\ q.clip = d) /\ shown' = shown
    BY <1>9, <2>0 DEF AnsweredSingle, S, Gone, SameView
  <2>2. shown = Metadata BY <1>0, <2>1 DEF Singles
  <2>3. \A c \in Clips \ {d} : TextComes(c) => TextComes(c)' BY <1>0, <2>0, <2>1 DEF TextComes
  <2>4. SinglesRight'
    <3>. SUFFICES ASSUME NEW q \in S, q.kind = "single", q.reply \in Nat PROVE TextComes(q.clip)'
      BY <2>1 DEF SinglesRight
    <3>1. q.clip \in Clips \ {d} BY <1>0, <2>1, RequestFormed DEF Formed, Places
    <3>. QED BY <1>0, <2>3, <3>1 DEF SinglesRight, MetaRight
  <2>5. ~Behindhand'
    <3>. SUFFICES ASSUME NEW q \in Asks', Answered(q) PROVE UpToDate(q.reply)' BY DEF Behindhand, Answered, LoadOf
    <3>. QED BY <1>0, <2>1 DEF StaleIn, UpToDate
  <2>6. TextsCome => TextsCome'
    <3>1. CASE \E p \in Asks : LoadOf(p) /\ p.reply = Null BY <1>0, <2>1, <3>1 DEF TextsCome, LoadOf
    <3>2. CASE \E g \in Runs : g.kind = "metadata" /\ g.stage = "generated" BY <1>2, <3>2 DEF TextsCome
    <3>3. CASE DoneComes BY <1>2, <3>3 DEF TextsCome
    <3>4. CASE \E p \in Asks : Answered(p) /\ UpToDate(p.reply)
      <4>1. PICK p \in Asks : Answered(p) BY <3>4
      <4>2. UpToDate(p.reply)' BY <1>0, <2>1, <4>1 DEF StaleIn, UpToDate
      <4>3. p \in Asks' BY <1>0, <2>1, <4>1 DEF Answered, LoadOf
      <4>. QED BY <4>1, <4>2, <4>3 DEF TextsCome, Answered, LoadOf
    <3>. QED BY <3>1, <3>2, <3>3, <3>4 DEF TextsCome
  <2>7. EditsRight => EditsRight'
    <3>. HAVE EditsRight
    <3>0. ui.edits # <<>> BY ClipsAreThere DEF EditsRight
    <3>1. TextComes(d) => r.reply = rows[d].text BY <1>0, <2>1 DEF TextComes
    <3>2. CASE r.reply = Refused
      <4>1. ~TextComes(d) BY <1>0, <2>1, <3>1, <3>2, NullRefused
      <4>2. SameTexts BY <1>9, <3>2 DEF AnsweredSingle
      <4>. QED BY <1>0, <2>3, <4>1, <4>2 DEF EditsRight, SameTexts
    <3>3. CASE r.reply # Refused
      <4>1. ui'.edits = [ui.edits EXCEPT ![d] = r.reply] /\ ui'.typed = ui.typed \ {d}
        BY <1>9, <2>0, <2>1, <3>0, <3>3 DEF AnsweredSingle
      <4>2. r.reply \in Nat BY <2>1, <3>3
      <4>3. r.reply = rows[d].text BY <1>0, <2>0, <2>1, <3>1, <4>2 DEF MetaRight, SinglesRight
      <4>. QED BY <1>0, <2>1, <2>3, <4>1, <4>2, <4>3 DEF EditsRight
    <3>. QED BY <3>2, <3>3
  <2>. QED BY <2>1, <2>2, <2>4, <2>5, <2>6, <2>7 DEF MetaRight, StepRight
<1>. QED BY <1>5, <1>6, <1>7, <1>8, <1>9 DEF AnswerTaken
-----------------------------------------------------------------------------
LEMMA MetaEntered ==
  ASSUME NotAhead, Early, Singles, Typed, Moves, live, state # Metadata, state' = Metadata
  PROVE  MetaRight'
<1>1. state = Thumbnails /\ shown' = shown
  <2>1. state' # state /\ state' # 0 BY DEF Metadata
  <2>2. state \in Nat /\ state' = state + 1 /\ shown' = shown BY <2>1, StateNext
  <2>. QED BY <2>2 DEF Metadata, Thumbnails
<1>2. shown' # Metadata
  <2>1. top <= 1 /\ shown <= top /\ top \in Nat /\ shown \in Nat
    BY <1>1 DEF NotAhead, Typed, PageOK, Thumbnails
  <2>. QED BY <1>1, <2>1 DEF Metadata
<1>3. \A r \in Asks : r.kind = "single" => ~r.busy /\ r.reply \notin Nat BY <1>1 DEF Early, Singles
<1>4. \A q \in Asks' : ~(q.kind = "single" /\ q.reply \in Nat)
  <2>. SUFFICES ASSUME NEW q \in Asks', q.kind = "single" PROVE q.reply \notin Nat
    OBVIOUS
  <2>1. CASE From(Asks) BY <1>3, <2>1, LoadKinds, NullRefused DEF From, Same, SameRequest
  <2>2. CASE Asks' = {} BY <2>2
  <2>3. CASE Asks \subseteq Asks' /\ \A p \in Asks' \ Asks : NewRequest(p)
    BY <1>3, <2>3, NullRefused DEF NewRequest
  <2>4. CASE \E i \in DOMAIN pending : ServerAsked(i) /\ (Served(i) \/ InVain(i))
    <3>1. PICK i \in DOMAIN pending : ServerAsked(i) /\ (Served(i) \/ InVain(i)) BY <2>4
    <3>2. Asks = RestOf(i) \cup {pending[i]} BY <3>1 DEF ServerAsked
    <3>3. CASE q \in RestOf(i) BY <1>3, <3>2, <3>3
    <3>4. CASE q \notin RestOf(i)
      <4>1. ~ServedSingle(i) BY <1>3, <3>2 DEF ServedSingle
      <4>. QED BY <3>1, <3>4, <4>1, ServedReplies, NullRefused
    <3>. QED BY <3>3, <3>4
  <2>. QED BY <2>1, <2>2, <2>3, <2>4, AsksMove
<1>. QED BY <1>2, <1>4 DEF MetaRight, SinglesRight

LEMMA MetaStep ==
  ASSUME MetadataShown, NotAhead, Early, Singles, ClipsCome, OneAtWork, Typed, Moves
  PROVE  MetadataShown'
<1>0. (calm' => calm) /\ (live' => live) /\ Asks \subseteq Requests
  BY CalmBefore, RangeIn DEF Typed, PageOK, Asks
<1>1. SUFFICES ASSUME calm', live', state' = Metadata, ~Midway("metadata")' PROVE MetaRight'
  BY MetaMade
<1>2. calm /\ live /\ NoneRefused /\ (Working => LastStatus("generating"))
  BY <1>0, <1>1, ClipsParts, WorkParts DEF Progress
<1>3. CASE state # Metadata BY <1>1, <1>2, <1>3, MetaEntered
<1>4. CASE state = Metadata
  <2>0. MetaRight
    <3>1. ~Midway("metadata") BY <1>1, <1>4, MidwayStays
    <3>. QED BY <1>2, <1>4, <3>1, MetaParts
  <2>1. CASE UNCHANGED <<server, events, live, store, ui, pending, calm>>
    <3>1. Asks' = Asks /\ Runs' = Runs /\ DoneComes' = DoneComes
      BY <2>1, DoneSame DEF server, store, Asks, Runs
    <3>2. AllHeld /\ NothingNew /\ \A r \in Asks : LoadOf(r) => \E q \in Asks' : LoadOf(q) /\ q.reply = r.reply
      BY <2>1, <3>1, AsksSame, MetaAsked DEF SameRowTexts, server
    <3>3. TextsCome => TextsCome' BY <3>1, <3>2, TextsComing, GensHeld DEF TextsCome
    <3>. QED BY <2>0, <2>1, <3>2, <3>3, MetaKept DEF MetaRight, SameTexts, store
  <2>2. CASE ActEffect BY <2>0, <2>2, MetaActed
  <2>3. CASE Back
    <3>1. /\ Displayed(shown - 1, top, Asks) /\ UNCHANGED <<rows, gens>> /\ DoneComes' = DoneComes
      BY <2>3, DoneSame DEF Back, server
    <3>. QED BY <1>0, <2>0, <3>1, MetaDisplayed
  <2>4. CASE Resubmit \/ StreamLost BY <1>1, <2>4, LeftTypes, LostTypes DEF Typed
  <2>5. CASE Heard BY <1>1, <2>0, <2>5, MetaHeard
  <2>6. ASSUME NEW i \in DOMAIN gens, ThumbnailStep(i) PROVE MetaRight' BY <2>0, <2>6, MetaDrawn
  <2>7. ASSUME NEW i \in DOMAIN gens, MetadataStep(i) PROVE MetaRight' BY <1>1, <1>2, <2>0, <2>7, MetaTold
  <2>8. ASSUME NEW i \in DOMAIN pending, Served(i) \/ InVain(i) PROVE MetaRight'
    BY <1>1, <1>4, <2>0, <2>8, MetaServed
  <2>9. ASSUME NEW i \in DOMAIN pending, AnswerTaken(i) PROVE MetaRight' BY <1>1, <1>2, <2>0, <2>9, MetaAnswered
  <2>. QED BY <2>1, <2>2, <2>3, <2>4, <2>5, <2>6, <2>7, <2>8, <2>9 DEF Moves
<1>. QED BY <1>3, <1>4
-----------------------------------------------------------------------------
(* The texts that the loading screen waits for.                            *)

RowsText  == state >= Metadata => HasText(rows) \/ MetadataRuns \/ LastStatus("error")
DoneText  == (\E g \in Runs : g.kind = "metadata" /\ g.stage = "generated") => HasText(rows)
PicksText ==
  state = Choice =>
     \A r \in Asks : r.kind = "choice" /\ r.reply = Null => Fits(r) \/ (r.clip = 0 /\ Midway("choice"))
ClipsText == shown = Metadata /\ clips # <<>> => HasText(clips) \/ TextExpected
LoadsText == shown = Metadata /\ (\E r \in Asks : Answered(r) /\ ~HasText(r.reply)) => TextExpected

LEMMA TextsParts == TextsThere <=> (calm /\ live /\ Cli => RowsText /\ DoneText /\ PicksText /\ ClipsText /\ LoadsText)
BY DEF TextsThere, RowsText, DoneText, PicksText, ClipsText, LoadsText

LEMMA TextsMade ==
  ASSUME calm' /\ live' /\ Cli => RowsText' /\ DoneText' /\ PicksText' /\ ClipsText' /\ LoadsText'
  PROVE  TextsThere'
BY DEF TextsThere, RowsText, DoneText, PicksText, ClipsText, LoadsText

(* Whatever is not a step of a text generator.                             *)
LEMMA StatusMove ==
  ASSUME Typed, Moves, Alone, live', NEW v
  PROVE  (LastStatus(v)' <=> LastStatus(v)) \/ \E i \in DOMAIN gens : MetadataStep(i)
<1>0. live BY CalmBefore
<1>1. CASE \/ UNCHANGED <<server, events, live, store, ui, pending, calm>> \/ ActEffect \/ Back
           \/ \E i \in DOMAIN pending : AnswerTaken(i)
  <2>1. UNCHANGED <<events, metadataProgress>>
    BY <1>1 DEF ActEffect, ActFrame, Back, AnswerTaken, AnswerFrame, store
  <2>. QED BY <2>1, StatusSame
<1>2. CASE Resubmit \/ StreamLost BY <1>2, LeftTypes, LostTypes DEF Typed
<1>3. CASE Heard BY <1>3, StatusHeard
<1>4. ASSUME NEW i \in DOMAIN gens, ThumbnailStep(i) PROVE LastStatus(v)' <=> LastStatus(v)
  BY <1>0, <1>4, WorkDrawn
<1>5. ASSUME NEW i \in DOMAIN pending, Served(i) \/ InVain(i) PROVE LastStatus(v)' <=> LastStatus(v)
  BY <1>0, <1>5, WorkServed
<1>. QED BY <1>1, <1>2, <1>3, <1>4, <1>5 DEF Moves

LEMMA WritersStay ==
  ASSUME Typed, Moves, live', NEW g \in Runs, g.kind = "metadata"
  PROVE  g \in Runs' \/ \E i \in DOMAIN gens : MetadataStep(i)
<1>1. CASE \/ UNCHANGED <<server, events, live, store, ui, pending, calm>> \/ ActEffect \/ Back \/ Heard
           \/ \E i \in DOMAIN pending : AnswerTaken(i)
  <2>1. gens' = gens
    BY <1>1 DEF ActEffect, ActFrame, Back, Heard, AnswerTaken, AnswerFrame, server
  <2>. QED BY <2>1 DEF Runs
<1>2. CASE Resubmit \/ StreamLost BY <1>2, LeftTypes, LostTypes DEF Typed
<1>3. ASSUME NEW i \in DOMAIN gens, ThumbnailStep(i) PROVE g \in Runs'
  <2>1. gens[i].kind = "thumbnails" /\ RunsBut(i) \subseteq Runs' BY <1>3, ThumbnailStepCases DEF Typed
  <2>2. Runs = RunsBut(i) \cup {gens[i]} BY GensSplit DEF Typed, ServerOK
  <2>. QED BY <2>1, <2>2
<1>4. ASSUME NEW i \in DOMAIN pending, Served(i) \/ InVain(i) PROVE g \in Runs'
  BY <1>4 DEF Served, ServedLoad, ServedGenerate, ServedThumbnail, ServedAdvance, ServedRegenerate,
              ServedSingle, ServedMetadata, ServedChoice, TakenUp, WritesOn, InVain, server, Runs
<1>. QED BY <1>1, <1>2, <1>3, <1>4 DEF Moves

(* The report that texts are there is not lost on a metadata step.         *)
LEMMA DoneMove ==
  ASSUME Typed, Moves, live', DoneComes
  PROVE  DoneComes' \/ shown # Metadata \/ Load \in Asks'
<1>0. live BY CalmBefore
<1>1. CASE \/ UNCHANGED <<server, events, live, store, ui, pending, calm>> \/ ActEffect \/ Back
           \/ \E i \in DOMAIN pending : AnswerTaken(i)
  <2>1. UNCHANGED <<events, metadataProgress>>
    BY <1>1 DEF ActEffect, ActFrame, Back, AnswerTaken, AnswerFrame, store
  <2>. QED BY <2>1, DoneSame
<1>2. CASE Resubmit \/ StreamLost BY <1>2, LeftTypes, LostTypes DEF Typed
<1>3. CASE Heard
  <2>1. DoneComes' \/ DoneNow BY <1>3, DoneHeard
  <2>2. DoneNow => HeardMetadata(Head(events)) BY <1>3 DEF DoneNow, Heard, HeardState, HeardThumbnail
  <2>. QED BY <2>1, <2>2 DEF DoneNow, HeardMetadata
<1>4. ASSUME NEW i \in DOMAIN gens, ThumbnailStep(i) \/ MetadataStep(i) PROVE DoneComes'
  <2>1. events' = events \/ \E e \in Events : Published(e) BY <1>4, GeneratorEvents
  <2>2. metadataProgress' = metadataProgress BY <1>4, GeneratorFrame DEF Behind, store
  <2>. QED BY <2>1, <2>2, DonePublished
<1>5. ASSUME NEW i \in DOMAIN pending, Served(i) \/ InVain(i) PROVE DoneComes'
  <2>1. events' = events \/ \E e \in Events : Published(e) BY <1>5, ServedStates
  <2>2. metadataProgress' = metadataProgress BY <1>5 DEF Served, InVain, StoreFrame
  <2>. QED BY <2>1, <2>2, DonePublished
<1>. QED BY <1>1, <1>2, <1>3, <1>4, <1>5 DEF Moves

(* A text generator goes on, or has said how it ended.                     *)
LEMMA WriterStep ==
  ASSUME Typed, live, NEW i \in DOMAIN gens, MetadataStep(i)
  PROVE  \/ MetadataRuns' \/ LastStatus("error")'
         \/ gens[i].stage = "generated" /\ Published(MetaEvent("done"))
<1>1. metadataProgress' = metadataProgress BY GeneratorFrame DEF Behind, store
<1>2. MetaEvent("error") \in Events /\ MetaEvent("error").type = "metadata" /\ MetaEvent("error").status = "error"
  BY EventsMade DEF MetaEvent
<1>3. Published(MetaEvent("error")) => LastStatus("error")' BY <1>1, <1>2, StatusPublished
<1>4. Writer("generating").kind = "metadata" /\ Writer("generated").kind = "metadata" BY DEF Writer
<1>. QED BY <1>3, <1>4, MetadataStepCases DEF Typed, MetadataRuns

(* The clips that have a text keep one.                                    *)
LEMMA TextStays ==
  ASSUME Typed, Moves, Singles, calm', PicksText, HasText(rows)
  PROVE  HasText(rows)'
<1>0. \A c \in Clips : rows[c].text # 0 /\ rows'[c].text = rows[c].text => HasText(rows)' BY DEF HasText
<1>1. CASE rows' = rows BY <1>1 DEF HasText
<1>2. ASSUME NEW i \in DOMAIN pending, Served(i) \/ InVain(i) PROVE HasText(rows)'
  <2>1. CASE ServedSingle(i) BY <1>2, <2>1, RowsWritten DEF HasText
  <2>0. pending[i] \in Asks /\ rows \in [Clips -> Row] BY AskedFor DEF Typed, PageOK, ServerOK
  <2>2. CASE WritesOn(i) /\ pending[i].kind = "metadata"
    <3>1. \A c \in Clips : pending[i].body[c] # 0 BY <2>0, <2>2 DEF WritesOn, Singles
    <3>2. \A c \in Clips : rows[c].text # 0 => rows'[c].text # 0 BY <1>2, <2>2, <3>1, RowsWritten
    <3>. QED BY <3>2 DEF HasText
  <2>3. CASE WritesOn(i) /\ pending[i].kind = "choice"
    <3>1. Fits(pending[i]) \/ pending[i].clip = 0 BY <2>0, <2>3 DEF WritesOn, PicksText
    <3>2. CASE pending[i].clip = 0
      <4>1. \A c \in Clips : rows'[c].text = rows[c].text BY <2>0, <2>3, <3>2, SubmissionWritten
      <4>. QED BY <4>1 DEF HasText
    <3>3. CASE Fits(pending[i])
      <4>1. \A c \in Clips : rows[c].text # 0 => rows'[c].text # 0 BY <1>2, <2>3, <3>3, RowsWritten DEF Fits
      <4>. QED BY <4>1 DEF HasText
    <3>. QED BY <3>1, <3>2, <3>3
  <2>4. CASE \A c \in Clips : rows'[c].text = rows[c].text BY <2>4 DEF HasText
  <2>5. WritesOn(i) => pending[i].kind \in {"metadata", "choice"} BY DEF WritesOn
  <2>. QED BY <1>2, <2>1, <2>2, <2>3, <2>4, <2>5, RowsWritten
<1>3. ASSUME NEW i \in DOMAIN gens, ThumbnailStep(i) PROVE HasText(rows)' BY <1>3, RowsDrawn DEF HasText
<1>4. ASSUME NEW i \in DOMAIN gens, MetadataStep(i), rows' # rows PROVE HasText(rows)'
  BY <1>4, RowsTold DEF HasText
<1>. QED BY <1>1, <1>2, <1>3, <1>4, RowsMove
-----------------------------------------------------------------------------
LEMMA StateMove ==
  ASSUME Moves, live', Typed, state' # state
  PROVE  \E i \in DOMAIN pending : Served(i)
<1>1. CASE Resubmit \/ StreamLost BY <1>1, LeftTypes, LostTypes DEF Typed
<1>2. CASE \/ UNCHANGED <<server, events, live, store, ui, pending, calm>> \/ ActEffect \/ Back \/ Heard
           \/ \E i \in DOMAIN pending : AnswerTaken(i) \/ InVain(i)
  BY <1>2 DEF ActEffect, ActFrame, Back, Heard, AnswerTaken, AnswerFrame, InVain, server
<1>3. CASE \E i \in DOMAIN gens : ThumbnailStep(i) \/ MetadataStep(i) BY <1>3, GeneratorFrame DEF Behind
<1>. QED BY <1>1, <1>2, <1>3 DEF Moves

LEMMA RowsTextStep ==
  ASSUME Typed, Moves, Singles, OneAtWork, calm', live', Cli, RowsText, DoneText, PicksText
  PROVE  RowsText'
<1>0. calm /\ live /\ Alone BY CalmBefore, WorkParts
<1>. SUFFICES ASSUME state' >= Metadata PROVE HasText(rows)' \/ MetadataRuns' \/ LastStatus("error")'
  BY DEF RowsText
<1>1. CASE state >= Metadata
  <2>1. CASE HasText(rows) BY <2>1, TextStays
  <2>2. ASSUME NEW i \in DOMAIN gens, MetadataStep(i) PROVE HasText(rows)' \/ MetadataRuns' \/ LastStatus("error")'
    <3>1. CASE gens[i].stage = "generated"
      <4>1. gens[i] \in Runs /\ gens[i].kind = "metadata" BY <2>2, MetadataStepCases DEF Typed
      <4>. QED BY <3>1, <4>1, TextStays DEF DoneText
    <3>2. CASE gens[i].stage # "generated" BY <1>0, <2>2, <3>2, WriterStep
    <3>. QED BY <3>1, <3>2
  <2>3. CASE MetadataRuns /\ ~\E i \in DOMAIN gens : MetadataStep(i) BY <2>3, WritersStay DEF MetadataRuns
  <2>4. CASE LastStatus("error") /\ ~\E i \in DOMAIN gens : MetadataStep(i) BY <1>0, <2>4, StatusMove
  <2>. QED BY <1>1, <2>1, <2>2, <2>3, <2>4 DEF RowsText
<1>2. CASE ~(state >= Metadata)
  <2>1. state \in Nat /\ state' = state + 1 /\ state' = 2
    BY <1>2, StateNext DEF Typed, ServerOK, Metadata, Choice, Confirm
  <2>2. state = Thumbnails /\ state' # state BY <2>1 DEF Thumbnails
  <2>3. PICK i \in DOMAIN pending : Served(i) BY <2>2, StateMove
  <2>4. ServedAdvance(i)
    <3>1. ~ServedLoad(i) /\ ~ServedGenerate(i) /\ ~ServedThumbnail(i) /\ ~ServedRegenerate(i) /\ ~ServedSingle(i)
      BY <2>2 DEF ServedLoad, ServedGenerate, ServedThumbnail, ServedRegenerate, ServedSingle, server
    <3>2. ~ServedMetadata(i) /\ ~ServedChoice(i)
      BY <2>2 DEF ServedMetadata, ServedChoice, Thumbnails, Metadata, Choice
    <3>3. ~TakenUp(i) /\ ~InVain(i) /\ ~WritesOn(i) BY <2>2 DEF TakenUp, InVain, WritesOn, server
    <3>. QED BY <2>3, <3>1, <3>2, <3>3 DEF Served
  <2>5. Writer("started") \in Runs' BY <2>2, <2>4 DEF ServedAdvance, Thumbnails, Metadata
  <2>. QED BY <2>5, GeneratorsMade DEF MetadataRuns, Stages
<1>. QED BY <1>1, <1>2

LEMMA DoneTextStep ==
  ASSUME Typed, Moves, Singles, calm', live', DoneText, PicksText
  PROVE  DoneText'
<1>1. SUFFICES ASSUME NEW g \in Runs', g.kind = "metadata", g.stage = "generated", g \notin Runs PROVE HasText(rows)'
  BY TextStays DEF DoneText
<1>2. CASE \/ UNCHANGED <<server, events, live, store, ui, pending, calm>> \/ ActEffect \/ Back \/ Heard
           \/ \E i \in DOMAIN pending : AnswerTaken(i)
  <2>1. gens' = gens
    BY <1>2 DEF ActEffect, ActFrame, Back, Heard, AnswerTaken, AnswerFrame, server
  <2>. QED BY <1>1, <2>1 DEF Runs
<1>3. CASE Resubmit \/ StreamLost BY <1>3, LeftTypes, LostTypes DEF Typed
<1>4. ASSUME NEW i \in DOMAIN gens, ThumbnailStep(i) PROVE FALSE
  <2>1. RunsBut(i) \subseteq Runs BY GensSplit DEF Typed, ServerOK
  <2>2. \A at, open : Batch(at, open).kind = "thumbnails" BY DEF Batch
  <2>3. g.kind # "metadata" BY <1>1, <1>4, <2>1, <2>2, ThumbnailStepCases DEF Typed
  <2>. QED BY <1>1, <2>3
<1>5. ASSUME NEW i \in DOMAIN gens, MetadataStep(i) PROVE HasText(rows)'
  <2>1. RunsBut(i) \subseteq Runs BY GensSplit DEF Typed, ServerOK
  <2>2. Writer("generating").stage = "generating" BY DEF Writer
  <2>3. PICK n \in 0 .. NumClips :
          /\ rows' = [c \in Clips |-> IF c <= n THEN [rows[c] EXCEPT !.text = NewText] ELSE rows[c]]
          /\ calm' = (calm /\ state = Metadata /\ n > 0 /\ ~Singled)
    BY <1>1, <1>5, <2>1, <2>2, MetadataStepCases DEF Typed
  <2>4. n > 0 BY <2>3
  <2>5. rows'[1].text # 0 BY <2>3, <2>4, TextsWritten, ClipsAreThere DEF Typed, ServerOK
  <2>. QED BY <2>5, ClipsAreThere DEF HasText
<1>6. ASSUME NEW i \in DOMAIN pending, Served(i) \/ InVain(i) PROVE FALSE
  <2>1. Runs' \subseteq Runs \cup {Batch(0, FALSE), Writer("started")}
    BY <1>6 DEF Served, ServedLoad, ServedGenerate, ServedThumbnail, ServedAdvance, ServedRegenerate,
                ServedSingle, ServedMetadata, ServedChoice, TakenUp, WritesOn, InVain, server, Runs
  <2>. QED BY <1>1, <2>1 DEF Batch, Writer
<1>. QED BY <1>2, <1>3, <1>4, <1>5, <1>6 DEF Moves

LEMMA PicksTextStep ==
  ASSUME Typed, Moves, NotAhead, Singles, ChoiceShown, calm', live', PicksText
  PROVE  PicksText'
<1>0. calm /\ live /\ top <= state /\ shown <= top /\ top \in Nat /\ state \in Nat /\ shown \in Nat
  BY CalmBefore DEF NotAhead, Typed, PageOK, ServerOK
<1>1. SUFFICES ASSUME state' = Choice, NEW q \in Asks', q.kind = "choice", q.reply = Null
               PROVE  Fits(q)' \/ (q.clip = 0 /\ Midway("choice")')
  BY DEF PicksText, Fits
<1>2. ASSUME state = Choice, NEW i \in DOMAIN pending, WritesOn(i)
      PROVE  Fits(q)' \/ (q.clip = 0 /\ Midway("choice")')
  <2>. DEFINE r == pending[i]
  <2>1. r \in Asks /\ Asks = RestOf(i) \cup {r} /\ ServerAsked(i) /\ Served(i)
    BY <1>2, AskedFor, ServerAsks DEF Typed, PageOK, Served, WritesOn
  <2>2. r.kind = "choice" /\ r.reply = Null /\ Sole(i) BY <1>2 DEF WritesOn, Metadata, Choice
  <2>3. CASE q \in RestOf(i)
    <3>1. q.clip = 0 BY <1>1, <2>1, <2>2, <2>3 DEF Sole, Singles
    <3>2. Midway("choice")' BY <1>2, <2>2, WrittenMidway
    <3>. QED BY <3>1, <3>2
  <2>4. CASE q \notin RestOf(i)
    <3>1. ~(r.clip = 0 /\ Midway("choice"))
      <4>. SUFFICES ASSUME r.clip = 0, NEW p \in Asks, p.kind = "choice", p.busy, p.clip > 0, p.reply = Null
                    PROVE  FALSE
        BY DEF Midway
      <4>1. p \in RestOf(i) BY <2>1
      <4>. QED BY <2>2, <4>1 DEF Sole
    <3>2. Fits(r) BY <1>2, <2>1, <2>2, <3>1 DEF PicksText
    <3>3. q.body = r.body BY <2>1, <2>4 DEF ServerAsked, SameRequest
    <3>4. \A c \in Clips : rows'[c].text \in {rows[c].text, r.body.edits[c]} BY <1>2, <2>1, <2>2, RowsWritten
    <3>. QED BY <3>2, <3>3, <3>4 DEF Fits
  <2>. QED BY <2>3, <2>4
<1>3. CASE state = Choice /\ ~\E i \in DOMAIN pending : WritesOn(i)
  <2>1. \A c \in Clips : rows'[c].text = rows[c].text
    <3>1. ASSUME NEW i \in DOMAIN pending, Served(i) \/ InVain(i) PROVE \A c \in Clips : rows'[c].text = rows[c].text
      <4>1. ~ServedSingle(i)
        <5>1. Metadata # Choice BY DEF Metadata, Choice
        <5>. QED BY <1>3, <5>1, SingleAt
      <4>. QED BY <1>3, <3>1, <4>1, RowsWritten
    <3>2. ASSUME NEW i \in DOMAIN gens, MetadataStep(i) PROVE rows' = rows
      BY <1>3, <3>2, RowsTold DEF Metadata, Choice
    <3>. QED BY <3>1, <3>2, RowsMove, RowsDrawn
  <2>2. Midway("choice") => Midway("choice")' BY <1>1, <1>3, MidwayStays
  <2>3. ASSUME NEW r \in Asks, SameRequest(q, r), q.clip = r.clip, r.reply = Null
        PROVE  Fits(q)' \/ (q.clip = 0 /\ Midway("choice")')
    <3>1. Fits(r) \/ (r.clip = 0 /\ Midway("choice")) BY <1>1, <1>3, <2>3 DEF PicksText, SameRequest
    <3>. QED BY <2>1, <2>2, <2>3, <3>1 DEF Fits, SameRequest
  <2>4. ASSUME NewRequest(q) PROVE Fits(q)' \/ (q.clip = 0 /\ Midway("choice")')
    <3>1. shown = Choice /\ ~ui.loading /\ q.body.edits = ui.edits /\ q.clip = 0
      BY <1>1, <2>4 DEF NewRequest, Chooser
    <3>2. CASE ~Midway("choice")
      <4>1. Filled BY <1>0, <1>3, <3>1, <3>2, ChoiceParts DEF ChoiceRight, Waiting, AtChoice
      <4>2. \A c \in Clips : rows[c].text # 0 => ui.edits[c] # 0 BY <4>1 DEF Filled
      <4>. QED BY <2>1, <3>1, <4>2 DEF Fits
    <3>. QED BY <2>2, <3>1, <3>2
  <2>5. ASSUME NEW i \in DOMAIN pending, ServerAsked(i), Served(i) \/ InVain(i)
        PROVE  Fits(q)' \/ (q.clip = 0 /\ Midway("choice")')
    <3>1. pending[i].reply = Null BY <2>5 DEF Served, InVain
    <3>2. CASE q \in RestOf(i) BY <1>1, <2>3, <2>5, <3>2 DEF ServerAsked, SameRequest
    <3>3. CASE q \notin RestOf(i) BY <1>3, <2>3, <2>5, <3>1, <3>3 DEF ServerAsked
    <3>. QED BY <3>2, <3>3
  <2>6. CASE From(Asks) BY <1>1, <2>3, <2>6, LoadKinds DEF From, Same
  <2>7. ASSUME q \in Asks PROVE Fits(q)' \/ (q.clip = 0 /\ Midway("choice")') BY <1>1, <2>3, <2>7 DEF SameRequest
  <2>. QED BY <1>1, <2>4, <2>5, <2>6, <2>7, AsksMove
<1>4. CASE state # Choice
  <2>1. state = 2 BY <1>0, <1>1, <1>4, StateNext DEF Choice
  <2>2. \A r \in Asks : r.kind # "choice" BY <1>0, <2>1, NotAheadParts DEF ChoicesLate, Choice
  <2>3. ~NewRequest(q) BY <1>0, <1>1, <2>1 DEF NewRequest, Chooser, Choice
  <2>. QED BY <1>1, <2>2, <2>3, AsksMove, LoadKinds DEF From, Same, ServerAsked, SameRequest
<1>. QED BY <1>2, <1>3, <1>4
-----------------------------------------------------------------------------
(* A list of clips that is asked for, or is a list with a text.            *)
LoadText(r) == LoadOf(r) /\ (r.reply = Null \/ (Answered(r) /\ HasText(r.reply)))
LoadsGo    == \A r \in Asks : LoadText(r) => \E q \in Asks' : LoadText(q)
LoadsHeld  == \A q \in Asks' : Answered(q) => HasText(q.reply) \/ \E r \in Asks : Answered(r) /\ r.reply = q.reply

LEMMA ExpectedKept ==
  ASSUME Typed, Moves, OneAtWork, calm', live', shown = Metadata, TextExpected, LoadsGo
  PROVE  TextExpected'
<1>0. calm /\ live /\ Alone /\ (Working => LastStatus("generating")) BY CalmBefore, WorkParts DEF Progress
<1>1. ASSUME NEW i \in DOMAIN gens, MetadataStep(i) PROVE TextExpected'
  <2>1. CASE gens[i].stage = "generated" /\ Published(MetaEvent("done"))
    <3>1. Working BY <1>1, <2>1, MetadataStepCases DEF Working, AtWork, Typed
    <3>2. metadataProgress' = metadataProgress BY <1>1, GeneratorFrame DEF Behind, store
    <3>. QED BY <1>0, <2>1, <3>1, <3>2, DoneMade DEF TextExpected
  <2>. QED BY <1>0, <1>1, <2>1, WriterStep DEF TextExpected
<1>2. CASE ~\E i \in DOMAIN gens : MetadataStep(i)
  <2>1. CASE MetadataRuns BY <1>2, <2>1, WritersStay DEF MetadataRuns, TextExpected
  <2>2. CASE LastStatus("error") BY <1>0, <1>2, <2>2, StatusMove DEF TextExpected
  <2>3. CASE DoneComes BY <2>3, DoneMove, LoadMade DEF TextExpected, LoadOf
  <2>4. CASE \E r \in Asks : LoadText(r) BY <2>4 DEF LoadsGo, LoadText, TextExpected, Answered, LoadOf
  <2>. QED BY <2>1, <2>2, <2>3, <2>4 DEF TextExpected, LoadText
<1>. QED BY <1>1, <1>2

LEMMA LoadsFrom ==
  ASSUME NEW S, S \subseteq Asks, From(S), Keeps(S), \A r \in Asks \ S : ~LoadOf(r)
  PROVE  LoadsGo /\ LoadsHeld
<1>1. LoadsGo BY DEF LoadsGo, LoadText, LoadOf, Answered, Keeps, Same, SameRequest
<1>2. LoadsHeld
  <2>. SUFFICES ASSUME NEW q \in Asks', Answered(q) PROVE \E r \in Asks : Answered(r) /\ r.reply = q.reply
    BY DEF LoadsHeld
  <2>1. q \notin {Load, Preview} BY LoadKinds, NullRefused DEF Answered
  <2>. QED BY <2>1 DEF From, Same, SameRequest, Answered, LoadOf
<1>. QED BY <1>1, <1>2

LEMMA LoadsMove ==
  ASSUME Typed, Moves, NoneRefused, calm', live', HasText(rows)'
  PROVE  (LoadsGo /\ LoadsHeld) \/ \E i \in DOMAIN pending : AnsweredLoad(i) /\ AnswerFrame
<1>1. CASE UNCHANGED <<server, events, live, store, ui, pending, calm>>
           \/ \E i \in DOMAIN gens : ThumbnailStep(i) \/ MetadataStep(i)
  <2>1. Asks' = Asks BY <1>1, GeneratorFrame DEF Asks
  <2>. QED BY <2>1, AsksSame, LoadsFrom
<1>2. CASE ActEffect
  <2>1. Asks \subseteq Asks' /\ \A q \in Asks' \ Asks : ~LoadOf(q) BY <1>2 DEF ActEffect, NewRequest, LoadOf
  <2>. QED BY <2>1 DEF LoadsGo, LoadsHeld, Answered
<1>3. CASE Back \/ Heard BY <1>3, PageAsks, LoadsFrom
<1>4. CASE Resubmit \/ StreamLost BY <1>4, LeftTypes, LostTypes DEF Typed
<1>5. ASSUME NEW i \in DOMAIN pending, Served(i) \/ InVain(i) PROVE LoadsGo /\ LoadsHeld
  <2>0. /\ RestOf(i) \subseteq Asks' /\ Asks = RestOf(i) \cup {pending[i]} /\ rows \in [Clips -> Row]
        /\ pending[i].reply = Null
    BY <1>5, ServerAsks DEF ServerAsked, Typed, ServerOK, Served, InVain
  <2>1. LoadsGo
    <3>. SUFFICES ASSUME NEW r \in Asks, LoadText(r) PROVE \E q \in Asks' : LoadText(q) BY DEF LoadsGo
    <3>1. CASE r \in RestOf(i) BY <2>0, <3>1
    <3>2. CASE r = pending[i]
      <4>1. pending[i].kind = "load" BY <3>2 DEF LoadText, LoadOf
      <4>2. ~InVain(i) BY <4>1 DEF InVain
      <4>3. ServedLoad(i)
        BY <1>5, <4>1, <4>2 DEF Served, ServedGenerate, ServedThumbnail, ServedAdvance, ServedRegenerate,
                                ServedSingle, ServedMetadata, ServedChoice, TakenUp, WritesOn
      <4>4. rows' = rows BY <4>3 DEF ServedLoad, server
      <4>5. PICK q : Asks' = RestOf(i) \cup {q} /\ AnswerTo(q, pending[i], rows) BY <4>3 DEF ServedLoad, RepliedWith
      <4>6. q \in Asks' /\ LoadOf(q) /\ q.reply = rows BY <4>1, <4>5 DEF AnswerTo, SameRequest, LoadOf
      <4>7. HasText(rows) BY <4>4 DEF HasText
      <4>. QED BY <2>0, <4>6, <4>7, NullRefused DEF LoadText, Answered
    <3>. QED BY <2>0, <3>1, <3>2
  <2>2. LoadsHeld
    <3>. SUFFICES ASSUME NEW q \in Asks', Answered(q)
                  PROVE  HasText(q.reply) \/ \E r \in Asks : Answered(r) /\ r.reply = q.reply
      BY DEF LoadsHeld
    <3>1. CASE q \in RestOf(i) BY <2>0, <3>1
    <3>2. CASE q \notin RestOf(i)
      <4>1. q.reply = rows /\ ServedLoad(i) BY <1>5, <3>2, ServedReplies DEF Answered, LoadOf
      <4>. QED BY <4>1 DEF ServedLoad, server, HasText
    <3>. QED BY <3>1, <3>2
  <2>. QED BY <2>1, <2>2
<1>6. ASSUME NEW i \in DOMAIN pending, AnswerTaken(i), ~AnsweredLoad(i) PROVE LoadsGo /\ LoadsHeld
  <2>1. Asks = RestOf(i) \cup {pending[i]} BY AskedFor DEF Typed, PageOK
  <2>2. ~LoadOf(pending[i])
    <3>1. CASE AnsweredInVain(i) BY <2>1, <3>1 DEF AnsweredInVain, NoneRefused, LoadOf
    <3>. QED BY <1>6, <3>1 DEF AnswerTaken, AnsweredThumbnail, AnsweredAdvance, AnsweredSingle, LoadOf
  <2>. QED BY <1>6, <2>1, <2>2, PageAsks, LoadsFrom
<1>. QED BY <1>1, <1>2, <1>3, <1>4, <1>5, <1>6 DEF Moves, AnswerTaken

(* A metadata step that is displayed anew asks for the clips.              *)
LEMMA MetadataAsks ==
  ASSUME Typed, Moves, live', shown # Metadata, shown' = Metadata
  PROVE  Load \in Asks'
<1>1. ASSUME NEW gate, NEW end, NEW S, Displayed(gate, end, S) PROVE Load \in Asks'
  <2>1. gate = Metadata /\ gate # shown /\ gate # Confirm BY <1>1 DEF Displayed, Metadata, Confirm
  <2>. QED BY <1>1, <2>1 DEF Displayed
<1>2. CASE Back BY <1>1, <1>2 DEF Back
<1>3. CASE Heard
  <2>1. CASE HeardState(Head(events)) BY <1>1, <2>1 DEF HeardState
  <2>2. CASE HeardThumbnail(Head(events)) \/ HeardMetadata(Head(events)) BY <2>2 DEF HeardThumbnail, HeardMetadata
  <2>. QED BY <1>3, <2>1, <2>2 DEF Heard
<1>4. ASSUME NEW i \in DOMAIN pending, AnswerTaken(i) PROVE Load \in Asks'
  <2>1. CASE AnsweredAdvance(i) BY <1>1, <2>1 DEF AnsweredAdvance
  <2>2. CASE ~AnsweredAdvance(i)
    BY <1>4, <2>2 DEF AnswerTaken, AnsweredInVain, AnsweredLoad, AnsweredThumbnail, AnsweredSingle, SameView
  <2>. QED BY <2>1, <2>2
<1>5. CASE Resubmit \/ StreamLost BY <1>5, LeftTypes, LostTypes DEF Typed
<1>6. CASE \/ UNCHANGED <<server, events, live, store, ui, pending, calm>> \/ ActEffect
           \/ \E i \in DOMAIN pending : Served(i) \/ InVain(i)
  BY <1>6 DEF ActEffect, ActFrame, Served, InVain, StoreFrame, store
<1>7. CASE \E i \in DOMAIN gens : ThumbnailStep(i) \/ MetadataStep(i) BY <1>7, GeneratorFrame DEF Behind, store
<1>. QED BY <1>2, <1>3, <1>4, <1>5, <1>6, <1>7 DEF Moves

LEMMA ClipsMove ==
  ASSUME Typed, Moves, calm', live', shown = Metadata
  PROVE  clips' = clips \/ \E i \in DOMAIN pending : AnsweredLoad(i) /\ AnswerFrame
<1>0. shown > Thumbnails BY DEF Metadata, Thumbnails
<1>1. CASE Back BY <1>1 DEF Back
<1>2. CASE Heard
  <2>1. CASE HeardState(Head(events)) \/ HeardMetadata(Head(events)) BY <2>1 DEF HeardState, HeardMetadata
  <2>2. CASE HeardThumbnail(Head(events)) BY <1>0, <2>2 DEF HeardThumbnail
  <2>. QED BY <1>2, <2>1, <2>2 DEF Heard
<1>3. ASSUME NEW i \in DOMAIN pending, AnswerTaken(i) PROVE clips' = clips \/ (AnsweredLoad(i) /\ AnswerFrame)
  <2>1. ~AnsweredThumbnail(i) BY <1>0 DEF AnsweredThumbnail
  <2>. QED BY <1>3, <2>1 DEF AnswerTaken, AnsweredInVain, AnsweredAdvance, AnsweredSingle, SameView
<1>4. CASE Resubmit \/ StreamLost BY <1>4, LeftTypes, LostTypes DEF Typed
<1>5. CASE \/ UNCHANGED <<server, events, live, store, ui, pending, calm>> \/ ActEffect
           \/ \E i \in DOMAIN pending : Served(i) \/ InVain(i)
  BY <1>5 DEF ActEffect, ActFrame, Served, InVain, StoreFrame, store
<1>6. CASE \E i \in DOMAIN gens : ThumbnailStep(i) \/ MetadataStep(i) BY <1>6, GeneratorFrame DEF Behind, store
<1>. QED BY <1>1, <1>2, <1>3, <1>4, <1>5, <1>6 DEF Moves
-----------------------------------------------------------------------------
LEMMA ListsTextStep ==
  ASSUME Typed, Moves, OneAtWork, NoneRefused, calm', live', ClipsText, LoadsText,
         shown' = Metadata => RowsText' /\ state' >= Metadata
  PROVE  ClipsText' /\ LoadsText'
<1>. SUFFICES ASSUME shown' = Metadata, ~TextExpected' PROVE ClipsText' /\ LoadsText'
  BY DEF ClipsText, LoadsText
<1>1. HasText(rows)' BY DEF RowsText, TextExpected
<1>2. CASE shown # Metadata BY <1>2, MetadataAsks, LoadMade DEF TextExpected, LoadOf
<1>3. CASE shown = Metadata
  <2>1. ASSUME LoadsGo PROVE ~TextExpected BY <1>3, <2>1, ExpectedKept
  <2>2. CASE \E i \in DOMAIN pending : AnsweredLoad(i) /\ AnswerFrame
    <3>1. PICK i \in DOMAIN pending : AnsweredLoad(i) /\ AnswerFrame BY <2>2
    <3>2. /\ pending[i].reply \in [Clips -> Row] /\ Answered(pending[i]) /\ ~StaleIn(RestOf(i))
          /\ clips' = pending[i].reply /\ rows' = rows
          /\ RestOf(i) \subseteq Asks' /\ Asks' \subseteq RestOf(i) \cup {Preview}
      BY <3>1 DEF AnsweredLoad, AnswerFrame, Refreshed, server
    <3>3. Asks = RestOf(i) \cup {pending[i]} BY AskedFor DEF Typed, PageOK
    <3>4. \A q \in Asks' : Answered(q) => HasText(q.reply)
      <4>. SUFFICES ASSUME NEW q \in Asks', Answered(q) PROVE HasText(q.reply) OBVIOUS
      <4>1. q \in RestOf(i) BY <3>2, LoadKinds DEF Answered, LoadOf
      <4>. QED BY <1>1, <3>2, <4>1 DEF StaleIn, HasText
    <3>5. HasText(pending[i].reply)
      <4>. SUFFICES ASSUME ~HasText(pending[i].reply) PROVE FALSE OBVIOUS
      <4>1. TextExpected BY <1>3, <3>2, <3>3 DEF LoadsText
      <4>2. ~LoadText(pending[i]) BY <3>2 DEF LoadText, Answered
      <4>3. LoadsGo BY <3>2, <3>3, <4>2 DEF LoadsGo
      <4>. QED BY <2>1, <4>1, <4>3
    <3>6. HasText(clips)' BY <3>2, <3>5 DEF HasText
    <3>7. LoadsText' BY <3>4 DEF LoadsText, Answered, LoadOf, HasText
    <3>. QED BY <3>6, <3>7 DEF ClipsText
  <2>3. CASE ~\E i \in DOMAIN pending : AnsweredLoad(i) /\ AnswerFrame
    <3>1. LoadsGo /\ LoadsHeld /\ clips' = clips BY <1>1, <1>3, <2>3, LoadsMove, ClipsMove
    <3>2. ~TextExpected BY <2>1, <3>1
    <3>3. ClipsText' BY <1>3, <3>1, <3>2 DEF ClipsText, HasText
    <3>4. \A q \in Asks' : Answered(q) => HasText(q.reply) BY <1>3, <3>1, <3>2 DEF LoadsText, LoadsHeld
    <3>5. LoadsText' BY <3>4 DEF LoadsText, Answered, LoadOf, HasText
    <3>. QED BY <3>3, <3>5
  <2>. QED BY <2>2, <2>3
<1>. QED BY <1>2, <1>3

LEMMA TextsStep ==
  ASSUME TextsThere, NotAhead, NotAhead', Singles, ChoiceShown, ClipsCome, OneAtWork, Typed, TypeOK', Moves
  PROVE  TextsThere'
<1>1. SUFFICES ASSUME calm', live', Cli PROVE RowsText' /\ DoneText' /\ PicksText' /\ ClipsText' /\ LoadsText'
  BY TextsMade
<1>2. calm /\ live BY <1>1, CalmBefore
<1>3. RowsText /\ DoneText /\ PicksText /\ ClipsText /\ LoadsText /\ NoneRefused BY <1>1, <1>2, TextsParts, ClipsParts
<1>4. RowsText' BY <1>1, <1>3, RowsTextStep
<1>5. DoneText' BY <1>1, <1>3, DoneTextStep
<1>6. PicksText' BY <1>1, <1>3, PicksTextStep
<1>7. shown' = Metadata => state' >= Metadata
  <2>. HAVE shown' = Metadata
  <2>1. top' <= state' /\ shown' <= top' /\ top' \in Nat /\ state' \in Nat /\ shown' \in Nat
    BY <1>1 DEF NotAhead, TypeOK
  <2>. QED BY <2>1 DEF Metadata
<1>8. ClipsText' /\ LoadsText' BY <1>1, <1>3, <1>4, <1>7, ListsTextStep
<1>. QED BY <1>4, <1>5, <1>6, <1>8

LEMMA TextsFirst == ASSUME Init PROVE TextsThere
<1>1. state = 1 /\ shown = 1 /\ gens = <<>> BY DEF Init, Thumbnails
<1>2. Runs = {} BY <1>1, EmptyPending DEF Runs
<1>. QED BY <1>1, <1>2 DEF TextsThere, Metadata, Choice
-----------------------------------------------------------------------------
(* The invariant of the steps.                                             *)

LEMMA OneInRange == ASSUME NEW x PROVE Range(<<x>>) = {x}
<1>1. DOMAIN <<x>> = {1} /\ <<x>>[1] = x OBVIOUS
<1>. QED BY <1>1 DEF Range

LEMMA StepsFirst == ASSUME Init PROVE StepsIInv
<1>1. /\ state = 1 /\ top = 1 /\ shown = 1 /\ events = <<>> /\ gens = <<>> /\ clips = <<>>
      /\ metadataProgress = "none"
      /\ \A c \in Clips : rows[c].text = 0 /\ rows[c].path = FALSE /\ rows[c].sel = TRUE
  BY DEF Init, Thumbnails
<1>2. Asks = {Load} /\ Runs = {} /\ Range(events) = {} /\ DOMAIN gens = {} /\ DOMAIN events = {}
  BY <1>1, OneInRange, EmptyPending DEF Asks, Runs, Init
<1>3. Load.kind = "load" /\ Load.reply = Null /\ ~Load.busy /\ Load.mine BY LoadMade
<1>4. TypeOK BY StepsTypesFirst
<1>5. KnownLists = {} BY <1>1, <1>2, <1>3 DEF KnownLists
<1>6. NotAhead BY <1>1, <1>2, <1>3 DEF NotAhead
<1>7. EndIsState BY <1>1, <1>2 DEF EndIsState
<1>8. Singles BY <1>2, <1>3 DEF Singles
<1>9. Early BY <1>1, <1>2, <1>3, <1>5 DEF Early, AsCut, Whole, Thumbnails
<1>10. PathsCome BY <1>1, <1>2, <1>3, <1>5 DEF PathsCome, PathComes
<1>11. ClipsCome BY <1>2, <1>3, NullRefused DEF ClipsCome
<1>12. OneAtWork BY <1>1, <1>2 DEF OneAtWork, LastStatus
<1>13. MetadataShown /\ ChoiceShown BY <1>1 DEF MetadataShown, ChoiceShown, Metadata, Choice
<1>14. BatchEnds /\ TextsThere BY BatchFirst, TextsFirst
<1>. QED BY <1>4, <1>6, <1>7, <1>8, <1>9, <1>10, <1>11, <1>12, <1>13, <1>14 DEF StepsIInv

LEMMA StepsStep == ASSUME StepsIInv, [Next]_vars PROVE StepsIInv'
<1>1. Moves /\ TypeOK' /\ Typed BY StepMoves DEF StepsIInv, Typed
<1>3. NotAhead' /\ EndIsState' BY <1>1, AheadStep DEF StepsIInv, Ahead
<1>4. Singles' BY <1>1, SinglesStep DEF StepsIInv
<1>5. Early' BY <1>1, EarlyStep DEF StepsIInv
<1>6. PathsCome' BY <1>1, PathsStep DEF StepsIInv
<1>7. ClipsCome' BY <1>1, ClipsStep DEF StepsIInv
<1>8. OneAtWork' BY <1>1, WorkStep DEF StepsIInv
<1>9. MetadataShown' BY <1>1, MetaStep DEF StepsIInv
<1>10. ChoiceShown' BY <1>1, ChoiceStep DEF StepsIInv
<1>11. BatchEnds' BY <1>1, BatchStep DEF StepsIInv
<1>12. TextsThere' BY <1>1, <1>3, TextsStep DEF StepsIInv
<1>. QED BY <1>1, <1>3, <1>4, <1>5, <1>6, <1>7, <1>8, <1>9, <1>10, <1>11, <1>12 DEF StepsIInv

LEMMA StepsInvariant == Spec => []StepsIInv
BY StepsFirst, StepsStep, PTL DEF Spec

(* With nothing under way, that is what is stored.                         *)
LEMMA QuietStored == StepsIInv => ShownIsStored
<1>. SUFFICES ASSUME StepsIInv, calm, live, Quiet
              PROVE  CASE shown = Thumbnails -> clips = rows
                       [] shown = Metadata   -> \A c \in Clips \ ui.typed : ui.edits[c] = rows[c].text
                       [] shown = Choice     -> /\ \A c \in Clips \ ui.typed : ui.edits[c] = rows[c].text
                                                /\ ui.toggled \/ ui.selected = {c \in Clips : rows[c].sel}
                       [] OTHER              -> TRUE
  BY DEF ShownIsStored
<1>. USE DEF StepsIInv
<1>0. Typed BY TypesSplit DEF Typed
<1>1. Asks = {} /\ Runs = {} /\ Range(events) = {} /\ DOMAIN events = {}
  BY EmptyPending DEF Quiet, Asks, Runs
<1>2. state = shown BY <1>1 DEF EndIsState, Quiet
<1>3. shown = Thumbnails => clips = rows
  <2>. HAVE shown = Thumbnails
  <2>1. clips # <<>> BY <1>1 DEF ClipsCome, Thumbnails, Confirm
  <2>2. clips \in [Clips -> Row] /\ rows \in [Clips -> Row] /\ clips \in KnownLists
    BY <1>0, <2>1 DEF Typed, PageOK, ServerOK, ClipLists, KnownLists
  <2>3. AsCut(clips) /\ AsCut(rows) /\ Whole(clips) /\ Whole(rows) BY <1>1, <1>2, <2>2 DEF Early, Midway
  <2>4. \A c \in Clips : ~PathComes(c) BY <1>1 DEF PathComes
  <2>5. \A c \in Clips : clips[c].path <=> rows[c].path BY <2>2, <2>4 DEF PathsCome
  <2>6. ASSUME NEW c \in Clips PROVE clips[c] = rows[c]
    <3>1. clips[c] \in Row /\ rows[c] \in Row BY <2>2
    <3>2. clips[c].text = rows[c].text BY <2>3 DEF AsCut
    <3>3. clips[c].path = rows[c].path BY <2>5, <3>1 DEF Row
    <3>4. clips[c].sel = rows[c].sel BY <2>3, <3>1 DEF Whole, Row
    <3>. QED BY <3>1, <3>2, <3>3, <3>4 DEF Row
  <2>. QED BY <2>2, <2>6
<1>4. shown = Metadata => \A c \in Clips \ ui.typed : ui.edits[c] = rows[c].text
  <2>. HAVE shown = Metadata
  <2>1. MetaRight BY <1>1, <1>2, MetaParts DEF Midway
  <2>2. ~TextsCome BY <1>1 DEF TextsCome, DoneComes
  <2>3. \A c \in Clips : ~TextComes(c) BY <1>1 DEF TextComes
  <2>. QED BY <2>1, <2>2, <2>3 DEF MetaRight, StepRight, EditsRight
<1>5. shown = Choice => /\ \A c \in Clips \ ui.typed : ui.edits[c] = rows[c].text
                        /\ ui.toggled \/ ui.selected = {c \in Clips : rows[c].sel}
  <2>. HAVE shown = Choice
  <2>1. ChoiceRight BY <1>1, <1>2, ChoiceParts DEF AtChoice, Midway
  <2>2. Filled BY <1>1, <2>1 DEF ChoiceRight, Waiting, LoadMine
  <2>3. \A c \in Clips : rows[c].sel BY <1>1, <1>2 DEF Early, Whole, Midway
  <2>. QED BY <2>2, <2>3 DEF Filled
<1>. QED BY <1>3, <1>4, <1>5 DEF Thumbnails, Metadata, Choice

(* A step that nothing has disturbed shows, when nothing is under way, what *)
(* the server has stored, but for what the user has edited: for all numbers *)
(* of clips, acts, batches and orders of events and answers.                *)
THEOREM ShownWhenQuiet == Spec => []ShownIsStored
BY StepsInvariant, QuietStored, PTL

LEMMA LoadingIsAwaited == ASSUME StepsIInv, Cli PROVE LoadingEnds
<1>. SUFFICES ASSUME calm, live, ShowLoading
              PROVE  \/ Asked("load") \/ \E i \in DOMAIN pending : pending[i].kind = "preview" /\ pending[i].mine
                     \/ gens # <<>> \/ events # <<>>
  BY DEF LoadingEnds
<1>1. Typed BY TypesSplit DEF StepsIInv, Typed
<1>2. (\E r \in Asks : LoadOf(r)) => Asked("load") BY DEF Asks, Range, Asked, LoadOf
<1>3. (\E g \in Runs : TRUE) => gens # <<>> BY EmptyPending DEF Runs
<1>4. (\E e \in Range(events) : TRUE) => events # <<>> BY EmptyPending
<1>5. (\E k \in DOMAIN events : TRUE) => events # <<>> OBVIOUS
<1>6. CASE clips = <<>>
  <2>1. shown # Confirm BY DEF ShowLoading, Metadata, Confirm
  <2>. QED BY <1>2, <1>6, <2>1 DEF StepsIInv, ClipsCome, LoadOf
<1>7. CASE Generating
  <2>1. LastStatus("generating") \/ \E e \in Range(events) : TRUE BY <1>7 DEF Generating, LastStatus
  <2>2. LastStatus("generating") => \E g \in Runs : AtWork(g) BY DEF StepsIInv, OneAtWork
  <2>. QED BY <1>3, <1>4, <2>1, <2>2
<1>8. CASE clips # <<>> /\ ~HasMetadata /\ metadataProgress # "error"
  <2>1. ~HasText(clips)
    <3>1. DOMAIN clips = Clips BY <1>1, <1>8, ClipsAreThere DEF Typed, PageOK, ClipLists
    <3>. QED BY <1>8, <3>1 DEF HasMetadata, HasText
  <2>2. TextExpected BY <1>8, <2>1, TextsParts DEF StepsIInv, ClipsText, ShowLoading
  <2>3. CASE MetadataRuns BY <1>3, <2>3 DEF MetadataRuns
  <2>4. CASE LastStatus("error") BY <1>5, <1>8, <2>4 DEF LastStatus
  <2>5. CASE DoneComes BY <1>5, <2>5 DEF DoneComes
  <2>6. CASE \E r \in Asks : LoadOf(r) BY <1>2, <2>6
  <2>. QED BY <2>2, <2>3, <2>4, <2>5, <2>6 DEF TextExpected
<1>9. CASE HasMetadata /\ ~ui.ready
  <2>1. \E r \in Asks : OwnPreview(r) BY <1>1, <1>9 DEF Typed, PageOK, ReadyComes
  <2>. QED BY <2>1 DEF OwnPreview, Asks, Range
<1>. QED BY <1>6, <1>7, <1>8, <1>9 DEF ShowLoading

(* Where the text generator is installed, the loading screen of the        *)
(* metadata step, which has no button, is shown only while something that  *)
(* can end it is under way: the clips, a batch of previews of its own, a   *)
(* generator or its report.                                                *)
THEOREM LoadingScreenEnds == ASSUME Cli PROVE Spec => []LoadingEnds
<1>1. StepsIInv => LoadingEnds BY LoadingIsAwaited
<1>. QED BY <1>1, StepsInvariant, PTL
=============================================================================
