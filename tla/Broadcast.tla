----------------------------- MODULE Broadcast -----------------------------
(***************************************************************************)
(* What a fan-out of events promises its listeners: each is shown events   *)
(* that were emitted, none of them twice, and those of one source in the   *)
(* order of the source.  Events may be missing.  A listener that has left  *)
(* is shown nothing more.                                                  *)
(***************************************************************************)
EXTENDS Naturals, Sequences

CONSTANTS Listeners, Events    \* an event has fields from and no

VARIABLES
  emitted,   \* the events so far
  stream,    \* stream[l] : what listener l is shown
  member     \* who listens

vars == <<emitted, stream, member>>

Init ==
  /\ emitted = {}
  /\ stream = [l \in Listeners |-> <<>>]
  /\ member = {}

Faithful(s) ==
  /\ \A i \in DOMAIN s : s[i] \in emitted
  /\ \A i, j \in DOMAIN s :
       (i < j /\ s[i].from = s[j].from) => s[i].no < s[j].no

Emit ==
  /\ \E e \in Events \ emitted : emitted' = emitted \cup {e}
  /\ UNCHANGED <<stream, member>>

(* A listener joins, and is shown some of what was emitted before. *)
Join(l) ==
  /\ l \notin member
  /\ member' = member \cup {l}
  /\ stream' = [stream EXCEPT ![l] = stream'[l]]
  /\ Faithful(stream'[l])
  /\ UNCHANGED emitted

Deliver(l) ==
  /\ l \in member
  /\ \E e \in emitted : stream' = [stream EXCEPT ![l] = Append(@, e)]
  /\ Faithful(stream'[l])
  /\ UNCHANGED <<emitted, member>>

Leave(l) ==
  /\ l \in member
  /\ member' = member \ {l}
  /\ UNCHANGED <<emitted, stream>>

Next == Emit \/ \E l \in Listeners : Join(l) \/ Deliver(l) \/ Leave(l)

Spec == Init /\ [][Next]_vars
=============================================================================
