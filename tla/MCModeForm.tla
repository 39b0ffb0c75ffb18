----------------------------- MODULE MCModeForm -----------------------------
(* Instances of ModeForm for TLC. *)
EXTENDS ModeForm

(* The last click and the second edit are for submissions without presets  *)
(* and faults; after a second edit the form is not default in the mode and *)
(* in one section of each kind at most.                                    *)
Presets == saves # <<>> \/ stored # <<>> \/ presets # <<>>
Few == \A s \in Sections \ {"captions", "antiDup", "minimum"} : form.sec[s] = Default(s)

Bounded ==
  /\ spent.edits = 2 \/ spent.clicks = 5 \/ Len(submits) = 2 => ~Presets /\ spent.faults = 0
  /\ spent.edits = 2 => Few
=============================================================================
