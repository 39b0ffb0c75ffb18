------------------------------- MODULE SSEHub -------------------------------
(***************************************************************************)
(* The hub of server-sent events, for one job.  A publisher appends its    *)
(* event to the replay history and copies the list of listeners under the  *)
(* lock, and sends to the copy after it has released the lock.  A listener *)
(* is registered, and the history replayed to it, under the lock.          *)
(***************************************************************************)
EXTENDS Naturals, Sequences, FiniteSets, Functions

CONSTANTS
  Publishers,   \* goroutines and handlers that publish on the job
  Listeners,    \* connections; each registers once and leaves once
  Readers,      \* the listeners whose client keeps reading
  MaxHistory,   \* maxHistory
  ChanCap,      \* capacity of a listener's channel
  MaxEvents     \* events per publisher (bound)

ASSUME HubConstants ==
  /\ Readers \subseteq Listeners
  /\ MaxHistory \in Nat
  /\ ChanCap \in Nat
  /\ MaxHistory <= ChanCap     \* 128 both
  /\ MaxEvents \in Nat

VARIABLES
  clients,     \* the registered listeners
  history,     \* the replay buffer
  connection,  \* connection[l] : the state of the connection
  chan,        \* chan[l] : the content of the channel
  got,         \* got[l]  : what was written to the client
  dropped,     \* dropped[l] : history, what did not fit into the channel
  publisher,   \* publisher[p] : the events so far, and who is still to be sent the last
  published    \* history: all events, in the order of Publish

hubVars == <<clients, history, connection, chan, got, dropped, publisher, published>>

Events == [from : Publishers, no : 1 .. MaxEvents]
PublisherRecord == [pc : {"idle", "sending", "panicked"}, sent : 0 .. MaxEvents,
                    left : SUBSET Listeners]

HubTypeOK ==
  /\ connection \in [Listeners -> {"new", "open", "closed"}]
  /\ clients = {l \in Listeners : connection[l] = "open"}
  /\ history \in Seq(Events) /\ Len(history) <= MaxHistory
  /\ chan \in [Listeners -> Seq(Events)]
  /\ \A l \in Listeners : Len(chan[l]) <= ChanCap
  /\ got \in [Listeners -> Seq(Events)]
  /\ dropped \in [Listeners -> SUBSET Events]
  /\ publisher \in [Publishers -> PublisherRecord]
  /\ \A p \in Publishers : publisher[p].pc = "sending" <=> publisher[p].left # {}
  /\ published \in Seq(Events)

HubInit ==
  /\ clients = {}
  /\ history = <<>>
  /\ connection = [l \in Listeners |-> "new"]
  /\ chan = [l \in Listeners |-> <<>>]
  /\ got = [l \in Listeners |-> <<>>]
  /\ dropped = [l \in Listeners |-> {}]
  /\ publisher = [p \in Publishers |-> [pc |-> "idle", sent |-> 0, left |-> {}]]
  /\ published = <<>>

-----------------------------------------------------------------------------
(* What fits into an empty channel: a send to a full one is skipped. *)
Fitting(s) == SubSeq(s, 1, IF Len(s) < ChanCap THEN Len(s) ELSE ChanCap)

(* mutants: no replay, and a channel that is one event too small *)
RegisterWithoutReplay(l) ==
  /\ connection[l] = "new"
  /\ connection' = [connection EXCEPT ![l] = "open"]
  /\ clients' = clients \cup {l}
  /\ UNCHANGED <<history, chan, got, dropped, publisher, published>>

RegisterSmaller(l) ==
  /\ connection[l] = "new"
  /\ connection' = [connection EXCEPT ![l] = "open"]
  /\ clients' = clients \cup {l}
  /\ chan' = [chan EXCEPT ![l] =
                SubSeq(history, 1, IF Len(history) < ChanCap THEN Len(history) ELSE ChanCap - 1)]
  /\ UNCHANGED <<history, got, dropped, publisher, published>>

Register(l) ==
  /\ connection[l] = "new"
  /\ connection' = [connection EXCEPT ![l] = "open"]
  /\ clients' = clients \cup {l}
  /\ chan' = [chan EXCEPT ![l] = Fitting(history)]
  /\ dropped' = [dropped EXCEPT ![l] = Range(history) \ Range(Fitting(history))]
  /\ UNCHANGED <<history, got, publisher, published>>

(* The loop of ServeSSE writes what the channel holds; it may lag behind.  *)
Receive(l) ==
  /\ connection[l] = "open"
  /\ chan[l] # <<>>
  /\ got' = [got EXCEPT ![l] = Append(@, Head(chan[l]))]
  /\ chan' = [chan EXCEPT ![l] = Tail(@)]
  /\ UNCHANGED <<clients, history, connection, dropped, publisher, published>>

(* The client goes away and ServeSSE returns: cancel takes the listener    *)
(* out, closes its channel, and the last one deletes the history.          *)
Leave(l) ==
  /\ connection[l] = "open"
  /\ connection' = [connection EXCEPT ![l] = "closed"]
  /\ clients' = clients \ {l}
  /\ history' = IF clients = {l} THEN <<>> ELSE history
  /\ UNCHANGED <<chan, got, dropped, publisher, published>>

-----------------------------------------------------------------------------
(* Publish, up to the release of the lock. *)
NextEvent(p) == [from |-> p, no |-> publisher[p].sent + 1]

PublishWith(p, kept, targets) ==
  /\ publisher[p].pc = "idle"
  /\ publisher[p].sent < MaxEvents
  /\ history' = kept
  /\ published' = Append(published, NextEvent(p))
  /\ publisher' = [publisher EXCEPT ![p] =
                     [pc |-> IF targets = {} THEN "idle" ELSE "sending",
                      sent |-> @.sent + 1, left |-> targets]]
  /\ UNCHANGED <<clients, connection, chan, got, dropped>>

Kept(e) == IF Len(history) < MaxHistory THEN Append(history, e) ELSE history

(* mutant: the listeners are read after the lock is released *)
PublishLateSnapshot(p) ==
  PublishWith(p, Kept(NextEvent(p)), {l \in Listeners : connection[l] # "closed"})

Publish(p) == PublishWith(p, Kept(NextEvent(p)), clients)

(* The rest of Publish sends to the copy.  A full channel is skipped; a    *)
(* send to a channel that was closed in the meantime panics, and the       *)
(* goroutine does not go on.                                               *)
Send(p, l) ==
  LET event == [from |-> p, no |-> publisher[p].sent]
      left == publisher[p].left \ {l}
  IN
  /\ publisher[p].pc = "sending"
  /\ l \in publisher[p].left
  /\ IF connection[l] = "closed"
     THEN /\ publisher' = [publisher EXCEPT ![p].pc = "panicked", ![p].left = {}]
          /\ UNCHANGED <<chan, dropped>>
     ELSE /\ publisher' = [publisher EXCEPT ![p].left = left,
                                            ![p].pc = IF left = {} THEN "idle" ELSE @]
          /\ IF Len(chan[l]) < ChanCap
             THEN /\ chan' = [chan EXCEPT ![l] = Append(@, event)]
                  /\ UNCHANGED dropped
             ELSE /\ dropped' = [dropped EXCEPT ![l] = @ \cup {event}]
                  /\ UNCHANGED chan
  /\ UNCHANGED <<clients, history, connection, got, published>>

Sending(p) == \E l \in Listeners : Send(p, l)

HubNext ==
  \/ \E l \in Listeners : Register(l) \/ Receive(l) \/ Leave(l)
  \/ \E p \in Publishers : Publish(p) \/ Sending(p)

HubSpec == HubInit /\ [][HubNext]_hubVars

(* A goroutine in the middle of Publish goes on.  ServeSSE writes what it  *)
(* is sent as long as its client reads; of the others nothing is assumed.  *)
FairHubSpec ==
  /\ HubSpec
  /\ \A p \in Publishers : WF_hubVars(Sending(p))
  /\ \A l \in Readers : WF_hubVars(Receive(l))

-----------------------------------------------------------------------------
(* Properties *)

(* What listener l has been or will be shown, in order. *)
Stream(l) == got[l] \o chan[l]

(* A listener is shown what was published, nothing twice although it may   *)
(* register between the two halves of Publish, and the events of one       *)
(* publisher in their order, whatever mixture of replay and sends they     *)
(* come by.                                                                *)
Feed == INSTANCE Broadcast
          WITH emitted <- Range(published), member <- clients,
               stream <- [l \in Listeners |-> Stream(l)]
ImplementsBroadcast == Feed!Spec

(* While a listener is connected, every event of the history is in its     *)
(* stream, or about to be sent to it, or was skipped because its channel   *)
(* was full, or its publisher panicked: none falls between the replay and  *)
(* the copy of the listeners.                                              *)
Underway(e, l) ==
  LET p == publisher[e.from] IN
  \/ p.pc = "panicked"
  \/ p.pc = "sending" /\ p.sent = e.no /\ l \in p.left

NothingBetween ==
  \A l \in clients : \A e \in Range(history) :
    e \in Range(Stream(l)) \cup dropped[l] \/ Underway(e, l)

(* The replay itself never skips an event: the channel of a listener is at *)
(* least as large as the history may grow.                                 *)
ReplayComplete ==
  [][\A l \in Listeners : connection'[l] # connection[l] /\ connection'[l] = "open"
                            => chan'[l] = history]_hubVars

(* An event of the history is written to every listener that reads and    *)
(* stays, unless its channel was full or the publisher panicked.           *)
HistoryReachesAll ==
  \A l \in Readers : \A e \in Events :
    (l \in clients /\ e \in Range(history))
      ~> \/ e \in Range(got[l]) \cup dropped[l]
         \/ l \notin clients
         \/ publisher[e.from].pc = "panicked"

=============================================================================
