--------------------------- MODULE OAuthSessions ---------------------------
(***************************************************************************)
(* The authorization sessions of the channels.  StartSession opens a port, *)
(* enters the session in the map and starts its callback server; the       *)
(* server ends when the session is cancelled: by its timeout, by a         *)
(* finished or refused callback, or by the session that replaces it.  The  *)
(* goroutine of a server that ended deletes the entry of its channel.      *)
(* Google and the browser are external: a callback may arrive at any time  *)
(* while the server listens, and an exchange may fail.                     *)
(***************************************************************************)
EXTENDS Naturals, FiniteSets

CONSTANTS
  Channels,
  MaxSessions    \* sessions started (bound), numbered as they start

ASSUME SessionConstants == MaxSessions \in Nat

Sessions == 1 .. MaxSessions

VARIABLES
  started,   \* how many sessions were started
  entry,     \* SessionManager.sessions: entry[c] is a session, or 0
  session    \* session[s] : its channel, context, server and callback

vars == <<started, entry, session>>

SessionRecord ==
  [ channel : Channels, ctx : {"live", "cancelled"},
    server : {"serving", "stopped", "gone"},
    callback : {"none", "exchange", "save", "cancel"} ]

Started == 1 .. started
Of(c) == {s \in Started : session[s].channel = c}

TypeOK ==
  /\ started \in 0 .. MaxSessions
  /\ session \in [Started -> SessionRecord]
  /\ entry \in [Channels -> {0} \cup Sessions]
  /\ \A c \in Channels : entry[c] = 0 \/ entry[c] \in Of(c)

Init ==
  /\ started = 0
  /\ session = [s \in {} |-> 0]
  /\ entry = [c \in Channels |-> 0]

-----------------------------------------------------------------------------
Cancelled(s) == [session EXCEPT ![s].ctx = "cancelled"]
Replaced(c) == IF entry[c] = 0 THEN session ELSE Cancelled(entry[c])

New(c) ==
  [channel |-> c, ctx |-> "live", server |-> "serving", callback |-> "none"]

(* mutant: the entry of the channel is kept *)
StartSessionKeeping(c) ==
  /\ started < MaxSessions
  /\ started' = started + 1
  /\ session' = [s \in 1 .. started + 1 |-> IF s > started THEN New(c) ELSE session[s]]
  /\ entry' = [entry EXCEPT ![c] = IF @ = 0 THEN started + 1 ELSE @]

StartSession(c) ==
  /\ started < MaxSessions
  /\ started' = started + 1
  /\ session' = [s \in 1 .. started + 1 |-> IF s > started THEN New(c) ELSE Replaced(c)[s]]
  /\ entry' = [entry EXCEPT ![c] = started + 1]

(* The port cannot be opened: the existing session is cancelled all the    *)
(* same.                                                                   *)
StartFails(c) ==
  /\ entry[c] # 0
  /\ session' = Replaced(c)
  /\ entry' = [entry EXCEPT ![c] = 0]
  /\ UNCHANGED started

Goes(s, from, to) ==
  /\ session[s].callback = from
  /\ session' = [session EXCEPT ![s].callback = to]
  /\ UNCHANGED <<started, entry>>

(* A callback with the session's state: refused by the user, or with a     *)
(* code to exchange.  Other requests change nothing.  (Bound: a session    *)
(* handles one callback at a time.)                                        *)
Callback(s) ==
  /\ session[s].server = "serving"
  /\ session[s].callback = "none"
  /\ \E to \in {"exchange", "cancel"} : Goes(s, "none", to)

(* The exchange fails once its context is cancelled; an answer that came   *)
(* before that counts.                                                     *)
Exchange(s) ==
  \/ session[s].ctx = "live" /\ Goes(s, "exchange", "save")
  \/ Goes(s, "exchange", "cancel")

(* UpdateTokens uses the context of the request, not that of the session.  *)
SaveTokens(s) == Goes(s, "save", "cancel")

(* go session.cancel() *)
CancelSelf(s) ==
  /\ session[s].callback = "cancel"
  /\ session' = [session EXCEPT ![s].callback = "none", ![s].ctx = "cancelled"]
  /\ UNCHANGED <<started, entry>>

(* mutant: the session has no timeout *)
NoTimeout(s) == FALSE /\ UNCHANGED vars

Timeout(s) ==
  /\ session[s].ctx = "live"
  /\ session' = [session EXCEPT ![s].ctx = "cancelled"]
  /\ UNCHANGED <<started, entry>>

(* The context is done: Shutdown closes the port, and Serve returns.       *)
Shutdown(s) ==
  /\ session[s].ctx = "cancelled"
  /\ session[s].server = "serving"
  /\ session' = [session EXCEPT ![s].server = "stopped"]
  /\ UNCHANGED <<started, entry>>

(* mutant: the entry is deleted by the session that replaces it only *)
CleanupForgets(s) ==
  /\ session[s].server = "stopped"
  /\ session' = [session EXCEPT ![s].server = "gone"]
  /\ UNCHANGED <<started, entry>>

(* The deferred function deletes the entry of the channel, whichever       *)
(* session it holds by now.                                                *)
Cleanup(s) ==
  /\ session[s].server = "stopped"
  /\ session' = [session EXCEPT ![s].server = "gone"]
  /\ entry' = [entry EXCEPT ![session[s].channel] = 0]
  /\ UNCHANGED started

Serving(s) ==
  Exchange(s) \/ SaveTokens(s) \/ CancelSelf(s) \/ Shutdown(s) \/ Cleanup(s)

Next ==
  \/ \E c \in Channels : StartSession(c) \/ StartFails(c)
  \/ \E s \in Started : Callback(s) \/ Timeout(s) \/ Serving(s)

Spec == Init /\ [][Next]_vars

(* The timeout of a context comes, and goroutines that can go on do; each  *)
(* of the three happens once to a session, so that fairness to any of them *)
(* is fairness to all.                                                     *)
Fairness == WF_vars(\E s \in Started : Timeout(s) \/ Shutdown(s) \/ Cleanup(s))

-----------------------------------------------------------------------------
(* Properties *)

(* The entry of a channel is never one of an earlier session than the one  *)
(* started last: a session that was replaced does not come back, whatever  *)
(* the order in which servers end.                                         *)
EntryIsLatest == \A c \in Channels : \A s \in Of(c) : entry[c] = 0 \/ s <= entry[c]

(* An entry is left behind by no session: once its server has ended, the   *)
(* entry is that of another one.                                           *)
EntryNotGone ==
  \A c \in Channels : entry[c] # 0 => session[entry[c]].server # "gone"

(* Every session ends and gives its port back, used or not. *)
PortReleased ==
  \A s \in Sessions : s \in Started ~> (s \in Started /\ session[s].server = "gone")
=============================================================================
