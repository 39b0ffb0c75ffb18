----------------------------- MODULE LogViewer -----------------------------
(***************************************************************************)
(* The log panel of the web application over the log sink.  An EventSource *)
(* brings the entries of the server, first those of the ring; one that     *)
(* breaks is closed and replaced after a delay.  The store keeps the last  *)
(* of what came, and what the page itself writes to the console.           *)
(***************************************************************************)
EXTENDS LogSink

CONSTANTS
  MaxShown,   \* MAX_ENTRIES
  MaxActs     \* gestures, and lines the page writes to the console (bound)

(* The connections of the page are numbered as it makes them.              *)
ASSUME ViewerConstants ==
  /\ Listeners = 1 .. Cardinality(Listeners)
  /\ {MaxShown, MaxActs} \subseteq Nat
  /\ MaxShown > 0

VARIABLES
  entries,   \* the store
  source,    \* the EventSource: its connection, and how much of it was read
  open,      \* the panel is open
  acts

sink == <<seq, buf, connection, chan, got, dropped, handler, logged>>
page == <<entries, source, open, acts>>

LogEntry == Entries \cup [from : {"web"}, no : 1 .. MaxActs]

ViewerTypeOK ==
  /\ entries \in Seq(LogEntry) /\ Len(entries) <= MaxShown
  /\ source \in [conn : {0} \cup Listeners, state : {"open", "waiting"}, read : Nat]
  /\ open \in BOOLEAN
  /\ acts \in 0 .. MaxActs

ViewerInit ==
  /\ Init
  /\ entries = <<>>
  /\ source = [conn |-> 0, state |-> "waiting", read |-> 0]
  /\ open = FALSE
  /\ acts = 0

-----------------------------------------------------------------------------
(* The store.                                                              *)

AddEntry(e) ==
  LET next == Append(entries, e) IN
  entries' = IF Len(next) > MaxShown THEN Tail(next) ELSE next

Act == acts < MaxActs /\ acts' = acts + 1

(* console.log and its like, which the page patches.                       *)
Console ==
  /\ Act
  /\ AddEntry([from |-> "web", no |-> acts'])
  /\ UNCHANGED <<sink, source, open>>

-----------------------------------------------------------------------------
(* The EventSource.  The last of the connections does not break (bound).   *)

Breaks(l) == l + 1 \in Listeners

(* GET /api/logs/stream arrives at the server.                             *)
Connect ==
  /\ source.state = "waiting"
  /\ source.conn + 1 \in Listeners
  /\ Register(source.conn + 1)
  /\ source' = [conn |-> source.conn + 1, state |-> "open", read |-> 0]
  /\ UNCHANGED <<entries, open, acts>>

Unread == source.state = "open" /\ source.read < Len(got[source.conn])

(* onmessage.                                                              *)
Message ==
  /\ Unread
  /\ AddEntry(got[source.conn][source.read + 1])
  /\ source' = [source EXCEPT !.read = @ + 1]
  /\ UNCHANGED <<sink, open, acts>>

(* mutant: the page does not connect again *)
StreamLostForGood ==
  /\ source.state = "open"
  /\ Breaks(source.conn)
  /\ source' = [source EXCEPT !.state = "closed"]
  /\ UNCHANGED <<sink, entries, open, acts>>

(* onerror: what has not been read is lost, and after a delay the page     *)
(* connects again.                                                         *)
StreamLost ==
  /\ source.state = "open"
  /\ Breaks(source.conn)
  /\ source' = [source EXCEPT !.state = "waiting"]
  /\ UNCHANGED <<sink, entries, open, acts>>

-----------------------------------------------------------------------------
(* The panel.                                                              *)

ToggleOpen ==
  /\ Act
  /\ open' = ~open
  /\ UNCHANGED <<sink, entries, source>>

Clear ==
  /\ open /\ Act
  /\ entries' = <<>>
  /\ UNCHANGED <<sink, source, open>>

-----------------------------------------------------------------------------
(* A request that ends is unregistered; the server may notice before the   *)
(* page does.                                                              *)
SinkStep ==
  /\ \/ \E l \in Listeners : Receive(l) \/ (Breaks(l) /\ Unregister(l))
     \/ \E p \in Loggers : Handle(p) \/ \E l \in Listeners : Send(p, l)
  /\ UNCHANGED page

PageStep == Console \/ Connect \/ Message \/ StreamLost \/ ToggleOpen \/ Clear

ViewerNext == SinkStep \/ PageStep

ViewerVars == <<sink, page>>

(* A server that is up answers and writes, the page reads, and a connection *)
(* that the server has ended is noticed.                                   *)
Broken == source.state = "open" /\ connection[source.conn] = "closed"

ViewerSpec ==
  /\ ViewerInit /\ [][ViewerNext]_ViewerVars
  /\ WF_ViewerVars(Connect) /\ WF_ViewerVars(Message)
  /\ WF_ViewerVars(Broken /\ StreamLost)
  /\ \A l \in Listeners : WF_ViewerVars(Receive(l) /\ UNCHANGED page)
  /\ \A p \in Loggers, l \in Listeners : WF_ViewerVars(Send(p, l) /\ UNCHANGED page)

-----------------------------------------------------------------------------
(* Properties *)

(* What the page has read on this connection.                              *)
Taken == {got[source.conn][i] : i \in 1 .. source.read}

(* An entry that stays in the ring reaches the panel, whatever connections *)
(* break on its way and however often the panel is cleared, unless the     *)
(* channel of the connection was full (useLogsSSE.ts:45-75,                *)
(* logsink.go:90-97, 111-116).                                             *)
RingReachesPanel ==
  \A e \in Entries :
    e \in Range(buf) ~>
      \/ e \in Range(entries) \cup Taken \/ e \notin Range(buf)
      \/ source.conn # 0 /\ e \in dropped[source.conn]
      \/ handler[e.from].pc = "panicked"
============================================================================
