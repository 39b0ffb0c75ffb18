---------------------------- MODULE UploadLedger ----------------------------
(***************************************************************************)
(* What the upload queue promises: the user asks for clips to be           *)
(* published, no publisher publishes a clip more often than it was asked   *)
(* for, and a run that is done has asked for all of its clips.  Publishers *)
(* do not know of each other.                                              *)
(***************************************************************************)
EXTENDS Naturals

CONSTANTS
  Clips,       \* the selected clips of a run
  Publishers

VARIABLES
  asked,    \* asked[k]  : how often clip k was put in the queue
  videos,   \* videos[p][k] : how many videos of clip k are by p
  run       \* the state of the run

vars == <<asked, videos, run>>

Init ==
  /\ asked = [k \in Clips |-> 0]
  /\ videos = [p \in Publishers |-> [k \in Clips |-> 0]]
  /\ run = "WAITING_UPLOAD_CONFIRM"

Ask(k) ==
  /\ asked' = [asked EXCEPT ![k] = @ + 1]
  /\ UNCHANGED <<videos, run>>

Publish(p, k) ==
  /\ videos[p][k] < asked[k]
  /\ videos' = [videos EXCEPT ![p][k] = @ + 1]
  /\ UNCHANGED <<asked, run>>

Complete ==
  /\ run = "WAITING_UPLOAD_CONFIRM"
  /\ \A k \in Clips : asked[k] > 0
  /\ run' = "DONE"
  /\ UNCHANGED <<asked, videos>>

End ==
  /\ run = "WAITING_UPLOAD_CONFIRM"
  /\ run' = "CANCELLED"
  /\ UNCHANGED <<asked, videos>>

Next ==
  \/ Complete
  \/ End
  \/ \E k \in Clips : Ask(k) \/ \E p \in Publishers : Publish(p, k)

Spec == Init /\ [][Next]_vars
=============================================================================
