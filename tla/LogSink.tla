------------------------------ MODULE LogSink ------------------------------
(***************************************************************************)
(* The log handler: every record gets a number, enters a ring of the       *)
(* latest entries and is sent to the connected log viewers.  Number, ring  *)
(* and copy of the viewers are taken under the lock; the sends follow      *)
(* after it is released.                                                   *)
(***************************************************************************)
EXTENDS Naturals, Sequences, FiniteSets, Functions

CONSTANTS
  Loggers,      \* goroutines that log
  Listeners,    \* connections of viewers; each registers once
  BufCap,       \* bufCap
  ChanCap,      \* capacity of a viewer's channel
  MaxEntries    \* records logged (bound)

ASSUME SinkConstants ==
  /\ BufCap \in Nat \ {0}
  /\ ChanCap \in Nat
  /\ MaxEntries \in Nat

VARIABLES
  seq,          \* the last number given out
  buf,          \* the ring
  connection,   \* connection[l] : the state of the connection
  chan,         \* chan[l] : the content of its channel
  got,          \* got[l]  : what was written to the client
  dropped,      \* dropped[l] : history, what did not fit into its channel
  handler,      \* handler[p] : the entry being sent, and to whom still
  logged        \* history: all entries

vars == <<seq, buf, connection, chan, got, dropped, handler, logged>>

Entries == [from : Loggers, no : 1 .. MaxEntries]
Clients == {l \in Listeners : connection[l] = "open"}

TypeOK ==
  /\ seq \in 0 .. MaxEntries
  /\ buf \in Seq(Entries)
  /\ connection \in [Listeners -> {"new", "open", "closed"}]
  /\ chan \in [Listeners -> Seq(Entries)]
  /\ \A l \in Listeners : Len(chan[l]) <= ChanCap
  /\ got \in [Listeners -> Seq(Entries)]
  /\ dropped \in [Listeners -> SUBSET Entries]
  /\ handler \in [Loggers -> [pc : {"idle", "sending", "panicked"}, no : 0 .. MaxEntries,
                              left : SUBSET Listeners]]
  /\ logged \subseteq Entries

Init ==
  /\ seq = 0
  /\ buf = <<>>
  /\ connection = [l \in Listeners |-> "new"]
  /\ chan = [l \in Listeners |-> <<>>]
  /\ got = [l \in Listeners |-> <<>>]
  /\ dropped = [l \in Listeners |-> {}]
  /\ handler = [p \in Loggers |-> [pc |-> "idle", no |-> 0, left |-> {}]]
  /\ logged = {}

-----------------------------------------------------------------------------
Fitting(s) == SubSeq(s, 1, IF Len(s) < ChanCap THEN Len(s) ELSE ChanCap)

(* mutant: the viewer is added and its replay forgotten *)
RegisterWithoutReplay(l) ==
  /\ connection[l] = "new"
  /\ connection' = [connection EXCEPT ![l] = "open"]
  /\ UNCHANGED <<seq, buf, chan, got, dropped, handler, logged>>

(* The ring is replayed from its oldest entry until the channel is full. *)
Register(l) ==
  /\ connection[l] = "new"
  /\ connection' = [connection EXCEPT ![l] = "open"]
  /\ chan' = [chan EXCEPT ![l] = Fitting(buf)]
  /\ dropped' = [dropped EXCEPT ![l] = Range(buf) \ Range(Fitting(buf))]
  /\ UNCHANGED <<seq, buf, got, handler, logged>>

Receive(l) ==
  /\ connection[l] = "open"
  /\ chan[l] # <<>>
  /\ got' = [got EXCEPT ![l] = Append(@, Head(chan[l]))]
  /\ chan' = [chan EXCEPT ![l] = Tail(@)]
  /\ UNCHANGED <<seq, buf, connection, dropped, handler, logged>>

Unregister(l) ==
  /\ connection[l] = "open"
  /\ connection' = [connection EXCEPT ![l] = "closed"]
  /\ UNCHANGED <<seq, buf, chan, got, dropped, handler, logged>>

-----------------------------------------------------------------------------
(* Handle, up to the release of the lock. *)
HandleWith(p, ring, targets) ==
  LET entry == [from |-> p, no |-> seq + 1] IN
  /\ handler[p].pc = "idle"
  /\ seq < MaxEntries
  /\ seq' = seq + 1
  /\ buf' = Append(ring, entry)
  /\ logged' = logged \cup {entry}
  /\ handler' = [handler EXCEPT ![p] =
                   [pc |-> IF targets = {} THEN "idle" ELSE "sending",
                    no |-> seq + 1, left |-> targets]]
  /\ UNCHANGED <<connection, chan, got, dropped>>

Evicted == IF Len(buf) >= BufCap THEN Tail(buf) ELSE buf

(* mutants: a ring with one place too many, and the viewers read after the *)
(* lock is released                                                        *)
HandleOneTooMany(p) ==
  HandleWith(p, IF Len(buf) > BufCap THEN Tail(buf) ELSE buf, Clients)
HandleLateSnapshot(p) ==
  HandleWith(p, Evicted, {l \in Listeners : connection[l] # "closed"})

Handle(p) == HandleWith(p, Evicted, Clients)

(* The sends.  A channel closed in the meantime panics. *)
Send(p, l) ==
  LET entry == [from |-> p, no |-> handler[p].no]
      left == handler[p].left \ {l}
  IN
  /\ handler[p].pc = "sending"
  /\ l \in handler[p].left
  /\ IF connection[l] = "closed"
     THEN /\ handler' = [handler EXCEPT ![p].pc = "panicked", ![p].left = {}]
          /\ UNCHANGED <<chan, dropped>>
     ELSE /\ handler' = [handler EXCEPT ![p].left = left,
                                        ![p].pc = IF left = {} THEN "idle" ELSE @]
          /\ IF Len(chan[l]) < ChanCap
             THEN /\ chan' = [chan EXCEPT ![l] = Append(@, entry)]
                  /\ UNCHANGED dropped
             ELSE /\ dropped' = [dropped EXCEPT ![l] = @ \cup {entry}]
                  /\ UNCHANGED chan
  /\ UNCHANGED <<seq, buf, connection, got, logged>>

Next ==
  \/ \E l \in Listeners : Register(l) \/ Receive(l) \/ Unregister(l)
  \/ \E p \in Loggers : Handle(p) \/ \E l \in Listeners : Send(p, l)

Spec == Init /\ [][Next]_vars

-----------------------------------------------------------------------------
(* Properties *)
Stream(l) == got[l] \o chan[l]

(* The ring holds the latest entries, all of them and in order, however    *)
(* many goroutines log at once.                                            *)
RingIsLatest ==
  LET size == IF seq < BufCap THEN seq ELSE BufCap IN
  /\ Len(buf) = size
  /\ \A i \in 1 .. size : buf[i].no = seq - size + i

(* No entry of the ring falls between the replay and the sends: a viewer   *)
(* has it, is about to be sent it, or had no room for it.                  *)
Underway(e, l) ==
  LET p == handler[e.from] IN
  \/ p.pc = "panicked"
  \/ p.pc = "sending" /\ p.no = e.no /\ l \in p.left

NothingBetween ==
  \A l \in Clients : \A e \in Range(buf) :
    e \in Range(Stream(l)) \cup dropped[l] \/ Underway(e, l)

(* A viewer is shown what was logged, nothing twice, and the entries of    *)
(* one goroutine in their order.                                           *)
Feed == INSTANCE Broadcast
          WITH Events <- Entries, emitted <- logged, member <- Clients,
               stream <- [l \in Listeners |-> Stream(l)]
ImplementsBroadcast == Feed!Spec
=============================================================================
