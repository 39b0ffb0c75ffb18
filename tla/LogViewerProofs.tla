--------------------------- MODULE LogViewerProofs ---------------------------
(***************************************************************************)
(* Proofs about LogSink for every number of loggers, viewers and entries   *)
(* and every size of the ring, and about LogViewer: under the page the     *)
(* sink behaves as it does on its own, so that what is proved of the sink  *)
(* holds of the page's connections, for every number of them.              *)
(***************************************************************************)
EXTENDS LogViewer, RangeFacts, TLAPS

RingInv ==
  /\ seq \in 0 .. MaxEntries
  /\ buf \in Seq(Entries)
  /\ RingIsLatest

(* What one record does to the ring: it enters at the end, and the oldest  *)
(* entry leaves once the ring is full.                                     *)
LEMMA RingStep == ASSUME RingInv, NEW p \in Loggers, Handle(p) PROVE RingInv'
<1>. DEFINE entry == [from |-> p, no |-> seq + 1]
            size == IF seq < BufCap THEN seq ELSE BufCap
<1>1. /\ seq \in Nat /\ MaxEntries \in Nat /\ BufCap \in Nat \ {0} /\ seq < MaxEntries
      /\ buf \in Seq(Entries) /\ Len(buf) = size /\ size \in Nat
      /\ \A i \in 1 .. size : buf[i].no = seq - size + i
  BY SinkConstants DEF RingInv, RingIsLatest, SinkConstants, Handle, HandleWith
<1>2. seq' = seq + 1 /\ seq' \in 0 .. MaxEntries /\ buf' = Append(Evicted, entry)
  BY <1>1 DEF Handle, HandleWith
<1>3. entry \in Entries /\ entry.no = seq + 1
  BY <1>1 DEF Entries
<1>. HIDE DEF entry
<1>4. CASE seq < BufCap
  <2>1. Evicted = buf /\ size = seq
    BY <1>1, <1>4 DEF Evicted
  <2>2. /\ buf' \in Seq(Entries) /\ Len(buf') = seq + 1
        /\ \A i \in 1 .. seq : buf'[i] = buf[i]
        /\ buf'[seq + 1] = entry
    BY <1>1, <1>2, <1>3, <2>1
  <2>3. \A i \in 1 .. seq + 1 : buf'[i].no = i
    <3>1. \A i \in 1 .. seq + 1 : i \in 1 .. seq \/ i = seq + 1
      BY <1>1
    <3>2. \A i \in 1 .. seq : buf[i].no = i
      BY <1>1, <2>1
    <3>. QED
      BY <1>3, <2>2, <3>1, <3>2
  <2>4. (IF seq' < BufCap THEN seq' ELSE BufCap) = seq + 1
    BY <1>1, <1>2, <1>4
  <2>. QED
    BY <1>1, <1>2, <2>2, <2>3, <2>4 DEF RingInv, RingIsLatest
<1>5. CASE ~ (seq < BufCap)
  <2>1. Evicted = Tail(buf) /\ size = BufCap /\ Len(buf) = BufCap /\ buf # <<>>
    BY <1>1, <1>5 DEF Evicted
  <2>2. /\ Tail(buf) \in Seq(Entries) /\ Len(Tail(buf)) = BufCap - 1
        /\ \A i \in 1 .. BufCap - 1 : Tail(buf)[i] = buf[i + 1]
    BY <1>1, <2>1
  <2>3. /\ buf' \in Seq(Entries) /\ Len(buf') = BufCap
        /\ \A i \in 1 .. BufCap - 1 : buf'[i] = buf[i + 1]
        /\ buf'[BufCap] = entry
    BY <1>1, <1>2, <1>3, <2>1, <2>2
  <2>4. \A i \in 1 .. BufCap : buf'[i].no = seq + 1 - BufCap + i
    <3>1. \A i \in 1 .. BufCap : i \in 1 .. BufCap - 1 \/ i = BufCap
      BY <1>1
    <3>2. \A i \in 1 .. BufCap - 1 : i + 1 \in 1 .. BufCap
      BY <1>1
    <3>3. \A i \in 1 .. BufCap - 1 : buf[i + 1].no = seq - BufCap + (i + 1)
      BY <1>1, <2>1, <3>2
    <3>4. ASSUME NEW i \in 1 .. BufCap - 1 PROVE buf'[i].no = seq + 1 - BufCap + i
      <4>1. buf'[i].no = seq - BufCap + (i + 1)
        BY <2>3, <3>3
      <4>2. seq - BufCap + (i + 1) = seq + 1 - BufCap + i
        BY <1>1
      <4>. QED
        BY <4>1, <4>2
    <3>5. buf'[BufCap].no = seq + 1 - BufCap + BufCap
      BY <1>1, <1>3, <2>3
    <3>. QED
      BY <3>1, <3>4, <3>5
  <2>5. (IF seq' < BufCap THEN seq' ELSE BufCap) = BufCap
    BY <1>1, <1>2, <1>5
  <2>6. ASSUME NEW i \in 1 .. BufCap PROVE buf'[i].no = seq' - BufCap + i
    <3>1. buf'[i].no = seq + 1 - BufCap + i
      BY <2>4
    <3>2. seq + 1 - BufCap + i = seq' - BufCap + i
      BY <1>1, <1>2
    <3>. QED
      BY <3>1, <3>2
  <2>7. RingIsLatest'
    BY <2>3, <2>5, <2>6 DEF RingIsLatest
  <2>. QED
    BY <1>2, <2>3, <2>7 DEF RingInv
<1>. QED
  BY <1>4, <1>5

(* The ring holds the latest entries, all of them and in order, however    *)
(* many goroutines log at once.                                            *)
THEOREM RingCorrect == Spec => []RingIsLatest
<1>1. Init => RingInv
  <2>1. 0 \in 0 .. MaxEntries /\ BufCap \in Nat \ {0} /\ 0 < BufCap
    BY SinkConstants DEF SinkConstants
  <2>2. <<>> \in Seq(Entries) /\ Len(<<>>) = 0 /\ 1 .. 0 = {}
    OBVIOUS
  <2>. QED
    BY <2>1, <2>2 DEF Init, RingInv, RingIsLatest
<1>2. RingInv /\ [Next]_vars => RingInv'
  <2>1. ASSUME NEW l \in Listeners, Register(l) \/ Receive(l) \/ Unregister(l)
        PROVE  UNCHANGED <<seq, buf>>
    BY <2>1 DEF Register, Receive, Unregister
  <2>2. ASSUME NEW p \in Loggers, NEW l \in Listeners, Send(p, l)
        PROVE  UNCHANGED <<seq, buf>>
    BY <2>2 DEF Send
  <2>3. UNCHANGED vars => UNCHANGED <<seq, buf>>
    BY DEF vars
  <2>4. RingInv /\ UNCHANGED <<seq, buf>> => RingInv'
    BY DEF RingInv, RingIsLatest
  <2>. QED
    BY <2>1, <2>2, <2>3, <2>4, RingStep DEF Next
<1>3. RingInv => RingIsLatest
  BY DEF RingInv
<1>. QED
  BY <1>1, <1>2, <1>3, PTL DEF Spec

-----------------------------------------------------------------------------
(* The inductive invariant: an entry that is being sent has a number.      *)

HandlerRecord == [pc : {"idle", "sending", "panicked"}, no : 0 .. MaxEntries,
                  left : SUBSET Listeners]

Numbered == \A p \in Loggers : handler[p].pc = "sending" => handler[p].no > 0

SinkTyped == TypeOK /\ Numbered

(* Where an entry of the ring is, from the point of view of a viewer.      *)
Shown(e, l) == e \in Range(got[l]) \cup Range(chan[l]) \cup dropped[l]

SinkInv == SinkTyped /\ NothingBetween

LEMMA HandlerFacts ==
  ASSUME SinkTyped, NEW p \in Loggers
  PROVE  /\ handler[p] \in HandlerRecord /\ handler[p].no \in Nat
         /\ handler[p].left \subseteq Listeners
         /\ handler[p].pc = "sending" => [from |-> p, no |-> handler[p].no] \in Entries
<1>1. handler[p] \in HandlerRecord /\ (handler[p].pc = "sending" => handler[p].no > 0)
  BY DEF SinkTyped, TypeOK, Numbered, HandlerRecord
<1>2. handler[p].no \in 0 .. MaxEntries /\ MaxEntries \in Nat
  BY <1>1, SinkConstants DEF HandlerRecord, SinkConstants
<1>. QED
  BY <1>1, <1>2 DEF HandlerRecord, Entries

LEMMA NextEntry ==
  ASSUME SinkTyped, NEW p \in Loggers, Handle(p)
  PROVE  /\ [from |-> p, no |-> seq + 1] \in Entries
         /\ seq + 1 \in 0 .. MaxEntries /\ seq + 1 > 0
<1>1. seq \in 0 .. MaxEntries /\ seq < MaxEntries /\ MaxEntries \in Nat
  BY SinkConstants DEF SinkTyped, TypeOK, Handle, HandleWith, SinkConstants
<1>2. seq + 1 \in 1 .. MaxEntries
  BY <1>1
<1>. QED
  BY <1>1, <1>2 DEF Entries

(* The replay takes from the ring what fits, and notes the rest.           *)
LEMMA Replay ==
  ASSUME SinkTyped
  PROVE  /\ Fitting(buf) \in Seq(Entries) /\ Len(Fitting(buf)) <= ChanCap
         /\ Range(buf) \subseteq Entries
<1>1. buf \in Seq(Entries) /\ Len(buf) \in Nat /\ ChanCap \in Nat
  BY SinkConstants DEF SinkTyped, TypeOK, SinkConstants
<1>2. Range(buf) \subseteq Entries
  BY <1>1, RangeIn
<1>3. CASE Len(buf) < ChanCap
  BY <1>1, <1>2, <1>3 DEF Fitting
<1>4. CASE ~ (Len(buf) < ChanCap)
  <2>1. Fitting(buf) = SubSeq(buf, 1, ChanCap)
    BY <1>1, <1>4 DEF Fitting
  <2>2. SubSeq(buf, 1, ChanCap) \in Seq(Entries) /\ Len(SubSeq(buf, 1, ChanCap)) = ChanCap
    BY <1>1, <1>4
  <2>. QED
    BY <1>1, <1>2, <2>1, <2>2
<1>. QED
  BY <1>3, <1>4

LEMMA EvictedIn ==
  ASSUME SinkTyped
  PROVE  Evicted \in Seq(Entries) /\ Range(Evicted) \subseteq Range(buf)
<1>1. buf \in Seq(Entries) /\ BufCap \in Nat \ {0} /\ Len(buf) \in Nat
  BY SinkConstants DEF SinkTyped, TypeOK, SinkConstants
<1>2. Len(buf) >= BufCap => buf # <<>>
  BY <1>1
<1>. QED
  BY <1>1, <1>2, RangeHeadTail DEF Evicted

LEMMA SinkTypedInit == Init => SinkTyped
<1>1. 0 \in 0 .. MaxEntries /\ 0 <= ChanCap
  BY SinkConstants DEF SinkConstants
<1>2. <<>> \in Seq(Entries) /\ Len(<<>>) = 0
  OBVIOUS
<1>. QED
  BY <1>1, <1>2 DEF Init, SinkTyped, TypeOK, Numbered

LEMMA RegisterTyped == ASSUME SinkTyped, NEW l \in Listeners, Register(l) PROVE SinkTyped'
<1>1. chan' \in [Listeners -> Seq(Entries)] /\ \A m \in Listeners : Len(chan'[m]) <= ChanCap
  BY Replay DEF Register, SinkTyped, TypeOK
<1>2. dropped' \in [Listeners -> SUBSET Entries]
  BY Replay DEF Register, SinkTyped, TypeOK
<1>3. connection' \in [Listeners -> {"new", "open", "closed"}]
  BY DEF Register, SinkTyped, TypeOK
<1>. QED
  BY <1>1, <1>2, <1>3 DEF Register, SinkTyped, TypeOK, Numbered

LEMMA ReceiveTyped == ASSUME SinkTyped, NEW l \in Listeners, Receive(l) PROVE SinkTyped'
<1>1. /\ chan[l] \in Seq(Entries) /\ chan[l] # <<>> /\ Len(chan[l]) <= ChanCap
      /\ ChanCap \in Nat
  BY SinkConstants DEF Receive, SinkTyped, TypeOK, SinkConstants
<1>2. /\ Head(chan[l]) \in Entries /\ Tail(chan[l]) \in Seq(Entries)
      /\ Len(Tail(chan[l])) = Len(chan[l]) - 1
  BY <1>1, RangeHeadTail
<1>3. Len(Tail(chan[l])) <= ChanCap
  BY <1>1, <1>2
<1>4. chan' \in [Listeners -> Seq(Entries)] /\ \A m \in Listeners : Len(chan'[m]) <= ChanCap
  BY <1>2, <1>3 DEF Receive, SinkTyped, TypeOK
<1>5. got' \in [Listeners -> Seq(Entries)]
  BY <1>2 DEF Receive, SinkTyped, TypeOK
<1>. QED
  BY <1>4, <1>5 DEF Receive, SinkTyped, TypeOK, Numbered

LEMMA UnregisterTyped ==
  ASSUME SinkTyped, NEW l \in Listeners, Unregister(l) PROVE SinkTyped'
<1>1. connection' \in [Listeners -> {"new", "open", "closed"}]
  BY DEF Unregister, SinkTyped, TypeOK
<1>. QED
  BY <1>1 DEF Unregister, SinkTyped, TypeOK, Numbered

LEMMA HandleTyped == ASSUME SinkTyped, NEW p \in Loggers, Handle(p) PROVE SinkTyped'
<1>. DEFINE entry == [from |-> p, no |-> seq + 1]
            new == [pc |-> IF Clients = {} THEN "idle" ELSE "sending",
                    no |-> seq + 1, left |-> Clients]
<1>1. entry \in Entries /\ seq + 1 \in 0 .. MaxEntries /\ seq + 1 > 0
  BY NextEntry
<1>2. seq' \in 0 .. MaxEntries
  BY <1>1 DEF Handle, HandleWith
<1>3. buf' \in Seq(Entries)
  BY <1>1, EvictedIn DEF Handle, HandleWith
<1>4. logged' \subseteq Entries
  BY <1>1 DEF Handle, HandleWith, SinkTyped, TypeOK
<1>5. new \in HandlerRecord /\ new.no > 0
  BY <1>1 DEF HandlerRecord, Clients
<1>6. handler' = [handler EXCEPT ![p] = new]
  BY DEF Handle, HandleWith
<1>. HIDE DEF new
<1>7. handler' \in [Loggers -> HandlerRecord] /\ Numbered'
  BY <1>5, <1>6 DEF SinkTyped, TypeOK, Numbered, HandlerRecord
<1>. QED
  BY <1>2, <1>3, <1>4, <1>7 DEF Handle, HandleWith, SinkTyped, TypeOK, HandlerRecord

LEMMA SendTyped ==
  ASSUME SinkTyped, NEW p \in Loggers, NEW l \in Listeners, Send(p, l) PROVE SinkTyped'
<1>. DEFINE entry == [from |-> p, no |-> handler[p].no]
            left == handler[p].left \ {l}
            go == [handler[p] EXCEPT !.left = left,
                                     !.pc = IF left = {} THEN "idle" ELSE @]
            stop == [handler[p] EXCEPT !.pc = "panicked", !.left = {}]
<1>1. entry \in Entries /\ handler[p] \in HandlerRecord /\ handler[p].no > 0
  BY HandlerFacts DEF Send, SinkTyped, Numbered
<1>2. handler' \in [Loggers -> HandlerRecord] /\ Numbered'
  <2>1. \/ handler' = [handler EXCEPT ![p] = go]
        \/ handler' = [handler EXCEPT ![p] = stop]
    BY DEF Send, SinkTyped, TypeOK
  <2>2. /\ go \in HandlerRecord /\ go.no > 0
        /\ stop \in HandlerRecord /\ stop.pc = "panicked"
    BY <1>1 DEF HandlerRecord
  <2>. HIDE DEF go, stop
  <2>. QED
    BY <2>1, <2>2 DEF SinkTyped, TypeOK, Numbered, HandlerRecord
<1>3. /\ chan' \in [Listeners -> Seq(Entries)]
      /\ \A m \in Listeners : Len(chan'[m]) <= ChanCap
      /\ dropped' \in [Listeners -> SUBSET Entries]
  <2>1. /\ chan[l] \in Seq(Entries) /\ Len(chan[l]) \in Nat /\ ChanCap \in Nat
        /\ Append(chan[l], entry) \in Seq(Entries)
        /\ Len(Append(chan[l], entry)) = Len(chan[l]) + 1
    BY <1>1, SinkConstants DEF SinkTyped, TypeOK, SinkConstants
  <2>2. CASE chan' = [chan EXCEPT ![l] = Append(@, entry)] /\ Len(chan[l]) < ChanCap
             /\ UNCHANGED dropped
    BY <2>1, <2>2 DEF SinkTyped, TypeOK
  <2>3. CASE dropped' = [dropped EXCEPT ![l] = @ \cup {entry}] /\ UNCHANGED chan
    BY <1>1, <2>3 DEF SinkTyped, TypeOK
  <2>4. CASE UNCHANGED <<chan, dropped>>
    BY <2>4 DEF SinkTyped, TypeOK
  <2>. QED
    BY <2>2, <2>3, <2>4 DEF Send
<1>. QED
  BY <1>2, <1>3 DEF Send, SinkTyped, TypeOK, HandlerRecord

LEMMA SinkTypedStep == SinkTyped /\ [Next]_vars => SinkTyped'
<1>1. SinkTyped /\ UNCHANGED vars => SinkTyped'
  BY DEF vars, SinkTyped, TypeOK, Numbered
<1>. QED
  BY <1>1, RegisterTyped, ReceiveTyped, UnregisterTyped, HandleTyped, SendTyped DEF Next

-----------------------------------------------------------------------------
(* A viewer loses nothing it was shown, and joins with what the ring holds. *)
LEMMA ShownStays ==
  ASSUME SinkTyped, NEW e, NEW l \in Listeners, Shown(e, l),
         Register(l) => e \in Range(buf),
         \/ \E m \in Listeners : Register(m) \/ Receive(m) \/ Unregister(m)
         \/ \E p \in Loggers : Handle(p) \/ \E m \in Listeners : Send(p, m)
  PROVE  Shown(e, l)'
<1>1. ASSUME NEW m \in Listeners, Register(m) PROVE Shown(e, l)'
  BY <1>1 DEF Register, SinkTyped, TypeOK, Shown
<1>2. ASSUME NEW m \in Listeners, Receive(m) PROVE Shown(e, l)'
  <2>1. CASE l = m
    <3>1. chan[l] \in Seq(Entries) /\ chan[l] # <<>> /\ got[l] \in Seq(Entries)
      BY <1>2, <2>1 DEF Receive, SinkTyped, TypeOK
    <3>2. got'[l] = Append(got[l], Head(chan[l])) /\ chan'[l] = Tail(chan[l])
      BY <1>2, <2>1 DEF Receive, SinkTyped, TypeOK
    <3>3. /\ Range(chan[l]) = {Head(chan[l])} \cup Range(chan'[l])
          /\ Range(got'[l]) = Range(got[l]) \cup {Head(chan[l])}
      BY <3>1, <3>2, RangeHeadTail, RangeAppend
    <3>. QED
      BY <1>2, <3>3 DEF Receive, Shown
  <2>2. CASE l # m
    BY <1>2, <2>2 DEF Receive, SinkTyped, TypeOK, Shown
  <2>. QED
    BY <2>1, <2>2
<1>3. ASSUME NEW m \in Listeners, Unregister(m) PROVE Shown(e, l)'
  BY <1>3 DEF Unregister, Shown
<1>4. ASSUME NEW p \in Loggers, Handle(p) PROVE Shown(e, l)'
  BY <1>4 DEF Handle, HandleWith, Shown
<1>5. ASSUME NEW p \in Loggers, NEW m \in Listeners, Send(p, m) PROVE Shown(e, l)'
  <2>. DEFINE entry == [from |-> p, no |-> handler[p].no]
  <2>1. entry \in Entries /\ chan[m] \in Seq(Entries)
    BY <1>5, HandlerFacts DEF Send, SinkTyped, TypeOK
  <2>2. Range(Append(chan[m], entry)) = Range(chan[m]) \cup {entry}
    BY <2>1, RangeAppend
  <2>3. /\ got' = got
        /\ \/ chan' = [chan EXCEPT ![m] = Append(@, entry)] /\ dropped' = dropped
           \/ dropped' = [dropped EXCEPT ![m] = @ \cup {entry}] /\ chan' = chan
           \/ chan' = chan /\ dropped' = dropped
    BY <1>5 DEF Send
  <2>. HIDE DEF entry
  <2>4. DOMAIN chan = Listeners /\ DOMAIN dropped = Listeners
    BY DEF SinkTyped, TypeOK
  <2>5. Range(chan[l]) \subseteq Range(chan'[l])
    BY <2>2, <2>3, <2>4
  <2>6. dropped[l] \subseteq dropped'[l]
    BY <2>3, <2>4
  <2>. QED
    BY <2>3, <2>5, <2>6 DEF Shown
<1>. QED
  BY <1>1, <1>2, <1>3, <1>4, <1>5

LEMMA NothingBetweenShown ==
  ASSUME SinkTyped
  PROVE  NothingBetween <=>
           \A l \in Clients : \A e \in Range(buf) : Shown(e, l) \/ Underway(e, l)
<1>1. \A l \in Listeners : Range(Stream(l)) = Range(got[l]) \cup Range(chan[l])
  BY RangeConcat DEF SinkTyped, TypeOK, Stream
<1>. QED
  BY <1>1 DEF Clients, NothingBetween, Shown

LEMMA NothingBetweenStep == ASSUME SinkInv, Next PROVE NothingBetween'
<1>. DEFINE Held(e, l) == Shown(e, l) \/ Underway(e, l)
<1>1. SinkTyped /\ SinkTyped' /\ \A l \in Clients : \A e \in Range(buf) : Held(e, l)
  BY SinkTypedStep, NothingBetweenShown DEF SinkInv
<1>2. SUFFICES ASSUME NEW l \in Clients', NEW e \in Range(buf)' PROVE Held(e, l)'
  <2>1. \A l \in Listeners :
          Range(got'[l] \o chan'[l]) = Range(got'[l]) \cup Range(chan'[l])
    BY <1>1, RangeConcat DEF SinkTyped, TypeOK
  <2>. QED
    BY <1>1, <2>1 DEF NothingBetween, Stream, Shown, Clients
<1>3. l \in Listeners /\ connection'[l] = "open"
  BY DEF Clients
<1>4. ASSUME NEW m \in Listeners, Register(m) PROVE Held(e, l)'
  <2>0. e \in Range(buf)
    BY <1>4 DEF Register, Range
  <2>1. CASE l = m
    BY <1>1, <1>3, <1>4, <2>0, <2>1 DEF Register, SinkTyped, TypeOK, Shown
  <2>2. CASE l # m
    <3>1. Held(e, l) /\ UNCHANGED handler
      BY <1>1, <1>3, <1>4, <2>0, <2>2 DEF Register, Clients, SinkTyped, TypeOK
    <3>. QED
      BY <1>1, <1>3, <1>4, <2>0, <3>1, ShownStays DEF Underway
  <2>. QED
    BY <2>1, <2>2
<1>5. ASSUME NEW m \in Listeners, Receive(m) \/ Unregister(m) PROVE Held(e, l)'
  <2>1. UNCHANGED handler
    BY <1>5 DEF Receive, Unregister
  <2>2. l \in Clients /\ e \in Range(buf)
    BY <1>1, <1>3, <1>5 DEF Receive, Unregister, Range, Clients, SinkTyped, TypeOK
  <2>. QED
    BY <1>1, <1>3, <1>5, <2>1, <2>2, ShownStays DEF Underway
<1>6. ASSUME NEW p \in Loggers, Handle(p) PROVE Held(e, l)'
  <2>. DEFINE new == [from |-> p, no |-> seq + 1]
  <2>1. /\ new \in Entries /\ Evicted \in Seq(Entries) /\ l \in Clients
        /\ Range(Evicted) \subseteq Range(buf) /\ handler[p].pc = "idle"
        /\ handler' = [handler EXCEPT ![p] =
                        [pc |-> "sending", no |-> seq + 1, left |-> Clients]]
    BY <1>1, <1>3, <1>6, NextEntry, EvictedIn DEF Handle, HandleWith, Clients
  <2>2. e \in Range(buf) \/ e = new
    <3>1. buf' = Append(Evicted, new)
      BY <1>6 DEF Handle, HandleWith
    <3>2. Range(Append(Evicted, new)) = Range(Evicted) \cup {new}
      BY <2>1, RangeAppend
    <3>. QED
      BY <2>1, <3>1, <3>2 DEF Range
  <2>3. CASE e = new
    BY <1>1, <2>1, <2>3 DEF Underway, SinkTyped, TypeOK
  <2>4. CASE e \in Range(buf)
    <3>1. e \in Entries
      BY <1>1, <2>4, Replay
    <3>2. Shown(e, l) \/ (Underway(e, l) /\ e.from # p)
      BY <1>1, <2>1, <2>4 DEF Underway
    <3>. QED
      BY <1>1, <1>3, <1>6, <2>1, <2>4, <3>1, <3>2, ShownStays
      DEF Underway, SinkTyped, TypeOK, Entries
  <2>. QED
    BY <2>2, <2>3, <2>4
<1>7. ASSUME NEW p \in Loggers, NEW m \in Listeners, Send(p, m) PROVE Held(e, l)'
  <2>. DEFINE entry == [from |-> p, no |-> handler[p].no]
  <2>1. /\ l \in Clients /\ connection[l] = "open" /\ e \in Range(buf)
        /\ handler[p].pc = "sending"
    BY <1>3, <1>7 DEF Send, Range, Clients
  <2>2. e \in Entries /\ entry \in Entries
    BY <1>1, <2>1, Replay, HandlerFacts
  <2>3. CASE Shown(e, l)
    BY <1>1, <1>3, <1>7, <2>1, <2>3, ShownStays
  <2>4. CASE Underway(e, l) /\ e.from # p
    BY <1>1, <1>7, <2>4, <2>2 DEF Send, Underway, SinkTyped, TypeOK, Entries
  <2>5. CASE Underway(e, l) /\ e.from = p
    <3>1. e = entry /\ l \in handler[p].left
      BY <1>7, <2>1, <2>5, <2>2 DEF Underway, Send, Entries
    <3>2. CASE m = l
      <4>1. \/ chan' = [chan EXCEPT ![l] = Append(@, entry)]
            \/ dropped' = [dropped EXCEPT ![l] = @ \cup {entry}]
        BY <1>7, <2>1, <3>2 DEF Send
      <4>2. chan[l] \in Seq(Entries) /\ Range(Append(chan[l], entry)) = Range(chan[l]) \cup {entry}
        BY <1>1, <1>3, <2>2, RangeAppend DEF SinkTyped, TypeOK
      <4>3. entry \in Range(chan[l])' \cup dropped'[l]
        <5>1. DOMAIN chan = Listeners /\ DOMAIN dropped = Listeners
          BY <1>1 DEF SinkTyped, TypeOK
        <5>2. CASE chan' = [chan EXCEPT ![l] = Append(@, entry)]
          BY <1>3, <4>2, <5>1, <5>2 DEF Range
        <5>3. CASE dropped' = [dropped EXCEPT ![l] = @ \cup {entry}]
          BY <1>3, <5>1, <5>3
        <5>. QED
          BY <4>1, <5>2, <5>3
      <4>. QED
        BY <3>1, <4>3 DEF Shown
    <3>3. CASE m # l
      <4>1. \/ handler'[p].pc = "panicked"
            \/ /\ handler'[p].left = handler[p].left \ {m}
               /\ handler'[p].pc = "sending" /\ handler'[p].no = handler[p].no
        BY <1>1, <1>7, <2>1, <3>1, <3>3 DEF Send, SinkTyped, TypeOK
      <4>. QED
        BY <2>5, <3>1, <3>3, <4>1 DEF Underway
    <3>. QED
      BY <3>2, <3>3
  <2>. QED
    BY <1>1, <2>1, <2>3, <2>4, <2>5
<1>. QED
  BY <1>4, <1>5, <1>6, <1>7 DEF SinkInv, Next

(* No entry of the ring falls between the replay and the sends, for any    *)
(* number of goroutines that log while viewers come and go.                *)
THEOREM SinkNothingBetween == Spec => []NothingBetween
<1>1. Init => SinkInv
  BY SinkTypedInit DEF SinkInv, Init, NothingBetween, Clients
<1>2. SinkInv /\ [Next]_vars => SinkInv'
  <2>1. SinkInv /\ Next => SinkInv'
    BY SinkTypedStep, NothingBetweenStep DEF SinkInv
  <2>2. SinkInv /\ UNCHANGED vars => SinkInv'
    BY SinkTypedStep DEF SinkInv, vars, NothingBetween, Underway, Stream, Clients
  <2>. QED
    BY <2>1, <2>2
<1>3. SinkInv => NothingBetween
  BY DEF SinkInv
<1>. QED
  BY <1>1, <1>2, <1>3, PTL DEF Spec

-----------------------------------------------------------------------------
(* The sink implements Broadcast.  The invariant relates the numbers of    *)
(* what a viewer was shown to those of what is still to be sent to it.     *)

Streams == [l \in Listeners |-> Stream(l)]

LoggedBefore ==
  /\ \A e \in logged : e.no <= seq /\ e.no <= handler[e.from].no
  /\ Range(buf) \subseteq logged

SendingOld ==
  \A p \in Loggers : handler[p].pc = "sending" =>
    /\ [from |-> p, no |-> handler[p].no] \in logged
    /\ \A l \in handler[p].left : connection[l] # "new"

NewUntouched == \A l \in Listeners : connection[l] = "new" => got[l] = <<>> /\ chan[l] = <<>>

ShownInOrder == \A l \in Listeners : Range(Streams[l]) \subseteq logged /\ InOrder(Streams[l])

LeftIsAhead ==
  \A p \in Loggers : \A l \in handler[p].left :
    handler[p].pc = "sending" =>
      \A e \in Range(Streams[l]) : e.from = p => e.no < handler[p].no

FeedInv ==
  /\ SinkTyped /\ RingInv
  /\ LoggedBefore /\ SendingOld /\ NewUntouched /\ ShownInOrder /\ LeftIsAhead

LEMMA StreamsTyped == ASSUME SinkTyped PROVE Streams \in [Listeners -> Seq(Entries)]
BY DEF SinkTyped, TypeOK, Streams, Stream

(* What fits of the ring is in the order of the numbers.                   *)
LEMMA ReplayInOrder ==
  ASSUME SinkTyped, RingInv
  PROVE  InOrder(Fitting(buf)) /\ Range(Fitting(buf)) \subseteq Range(buf)
<1>. DEFINE size == IF seq < BufCap THEN seq ELSE BufCap
            n == IF Len(buf) < ChanCap THEN Len(buf) ELSE ChanCap
<1>1. /\ seq \in Nat /\ BufCap \in Nat /\ ChanCap \in Nat
      /\ buf \in Seq(Entries) /\ Len(buf) = size /\ size \in Nat
      /\ \A i \in 1 .. size : buf[i].no = seq - size + i
  BY SinkConstants DEF RingInv, RingIsLatest, SinkConstants
<1>2. n \in 0 .. Len(buf) /\ Fitting(buf) = SubSeq(buf, 1, n)
  <2>1. n \in 0 .. Len(buf)
    BY <1>1
  <2>. QED
    BY <2>1 DEF Fitting
<1>3. InOrder(buf)
  <2>1. DOMAIN buf = 1 .. size
    BY <1>1
  <2>. HIDE DEF size
  <2>2. ASSUME NEW i \in 1 .. size, NEW j \in 1 .. size, i < j
        PROVE  seq - size + i < seq - size + j
    BY <1>1, <2>2
  <2>. QED
    BY <1>1, <2>1, <2>2 DEF InOrder
<1>. HIDE DEF n, size
<1>. QED
  BY <1>1, <1>2, <1>3, InOrderPrefix

(* What each operation does to the streams.                                *)
LEMMA RegisterStreams ==
  ASSUME FeedInv, NEW l \in Listeners, Register(l)
  PROVE  /\ l \notin Clients /\ Clients' = Clients \cup {l}
         /\ Streams' = [Streams EXCEPT ![l] = Fitting(buf)]
<1>1. got[l] = <<>> /\ connection \in [Listeners -> {"new", "open", "closed"}]
      /\ chan \in [Listeners -> Seq(Entries)] /\ Fitting(buf) \in Seq(Entries)
  BY Replay DEF FeedInv, NewUntouched, Register, SinkTyped, TypeOK
<1>2. l \notin Clients /\ Clients' = Clients \cup {l}
  BY <1>1 DEF Register, Clients
<1>3. <<>> \o Fitting(buf) = Fitting(buf)
  BY <1>1
<1>4. Stream(l)' = Fitting(buf)
  BY <1>1, <1>3 DEF Register, Stream
<1>5. \A m \in Listeners : m # l => Stream(m)' = Stream(m)
  BY <1>1 DEF Register, Stream
<1>. QED
  BY <1>2, <1>4, <1>5 DEF Streams

LEMMA ReceiveStreams ==
  ASSUME SinkTyped, NEW l \in Listeners, Receive(l)
  PROVE  Clients' = Clients /\ Streams' = Streams
<1>1. /\ chan[l] \in Seq(Entries) /\ chan[l] # <<>> /\ got[l] \in Seq(Entries)
      /\ got'[l] = Append(got[l], Head(chan[l])) /\ chan'[l] = Tail(chan[l])
      /\ \A m \in Listeners : m # l => got'[m] = got[m] /\ chan'[m] = chan[m]
  BY DEF Receive, SinkTyped, TypeOK
<1>2. got'[l] \o chan'[l] = got[l] \o chan[l]
  BY <1>1, ConcatShift
<1>3. \A m \in Listeners : got'[m] \o chan'[m] = got[m] \o chan[m]
  BY <1>1, <1>2
<1>4. Clients' = Clients
  BY DEF Receive, Clients
<1>. QED
  BY <1>3, <1>4 DEF Streams, Stream

LEMMA UnregisterStreams ==
  ASSUME SinkTyped, NEW l \in Listeners, Unregister(l)
  PROVE  l \in Clients /\ Clients' = Clients \ {l} /\ Streams' = Streams
BY DEF Unregister, Clients, Streams, Stream, SinkTyped, TypeOK

LEMMA HandleStreams ==
  ASSUME FeedInv, NEW p \in Loggers, Handle(p)
  PROVE  /\ [from |-> p, no |-> seq + 1] \in Entries \ logged
         /\ logged' = logged \cup {[from |-> p, no |-> seq + 1]}
         /\ Clients' = Clients /\ Streams' = Streams
<1>1. [from |-> p, no |-> seq + 1] \in Entries
  BY NextEntry DEF FeedInv
<1>2. [from |-> p, no |-> seq + 1] \notin logged
  <2>1. seq \in Nat /\ ~ (seq + 1 <= seq)
    BY SinkConstants DEF FeedInv, RingInv, SinkConstants
  <2>. QED
    BY <2>1 DEF FeedInv, LoggedBefore
<1>. QED
  BY <1>1, <1>2 DEF Handle, HandleWith, Clients, Streams, Stream

LEMMA SendStreams ==
  ASSUME FeedInv, NEW p \in Loggers, NEW l \in Listeners, Send(p, l)
  PROVE  /\ Clients' = Clients
         /\ \/ Streams' = Streams
            \/ /\ l \in Clients
               /\ Streams' = [Streams EXCEPT ![l] =
                                Append(@, [from |-> p, no |-> handler[p].no])]
<1>. DEFINE entry == [from |-> p, no |-> handler[p].no]
<1>1. Clients' = Clients /\ got' = got
  BY DEF Send, Clients
<1>2. CASE chan' = chan
  BY <1>1, <1>2 DEF Streams, Stream
<1>3. CASE connection[l] # "closed" /\ chan' = [chan EXCEPT ![l] = Append(@, entry)]
  <2>1. l \in Clients
    BY <1>3 DEF Send, FeedInv, SendingOld, SinkTyped, TypeOK, Clients
  <2>2. /\ entry \in Entries /\ got[l] \in Seq(Entries) /\ chan[l] \in Seq(Entries)
        /\ chan'[l] = Append(chan[l], entry)
        /\ \A m \in Listeners : m # l => chan'[m] = chan[m]
    BY <1>3, HandlerFacts DEF Send, FeedInv, SinkTyped, TypeOK
  <2>. HIDE DEF entry
  <2>3. got[l] \o chan'[l] = Append(got[l] \o chan[l], entry)
    <3>. DEFINE g == got[l]
                c == chan[l]
    <3>1. entry \in Entries /\ g \in Seq(Entries) /\ c \in Seq(Entries)
      BY <2>2
    <3>. HIDE DEF g, c
    <3>2. g \o Append(c, entry) = Append(g \o c, entry)
      BY <3>1, ConcatAppend
    <3>. QED
      BY <2>2, <3>2 DEF g, c
  <2>4. Streams' = [Streams EXCEPT ![l] = Append(@, entry)]
    BY <1>1, <2>2, <2>3 DEF Streams, Stream
  <2>. QED
    BY <1>1, <2>1, <2>4 DEF entry
<1>. QED
  BY <1>2, <1>3 DEF Send

(* The invariant is kept: by what leaves the streams alone, by a replay,   *)
(* and by a send.                                                          *)
LEMMA FeedInvInit == Init => FeedInv
<1>1. ASSUME Init PROVE Streams = [l \in Listeners |-> <<>>]
  <2>1. <<>> \o <<>> = <<>>
    OBVIOUS
  <2>. QED
    BY <1>1, <2>1 DEF Init, Streams, Stream
<1>2. ASSUME Init PROVE RingInv
  <2>1. 0 \in 0 .. MaxEntries /\ BufCap \in Nat \ {0} /\ 0 < BufCap
    BY SinkConstants DEF SinkConstants
  <2>2. <<>> \in Seq(Entries) /\ Len(<<>>) = 0 /\ 1 .. 0 = {}
    OBVIOUS
  <2>. QED
    BY <1>2, <2>1, <2>2 DEF Init, RingInv, RingIsLatest
<1>3. DOMAIN <<>> = {}
  OBVIOUS
<1>4. Range(<<>>) = {} /\ InOrder(<<>>)
  BY <1>3 DEF Range, InOrder
<1>. QED
  BY <1>1, <1>2, <1>4, SinkTypedInit
  DEF Init, FeedInv, LoggedBefore, SendingOld, NewUntouched, ShownInOrder, LeftIsAhead

LEMMA RingInvStep == ASSUME RingInv, Next PROVE RingInv'
<1>1. ASSUME NEW l \in Listeners, Register(l) \/ Receive(l) \/ Unregister(l)
      PROVE  UNCHANGED <<seq, buf>>
  BY <1>1 DEF Register, Receive, Unregister
<1>2. ASSUME NEW p \in Loggers, NEW l \in Listeners, Send(p, l)
      PROVE  UNCHANGED <<seq, buf>>
  BY <1>2 DEF Send
<1>3. UNCHANGED <<seq, buf>> => RingInv'
  BY DEF RingInv, RingIsLatest
<1>. QED
  BY <1>1, <1>2, <1>3, RingStep DEF Next

(* What was logged is numbered below what is logged next.                  *)
LEMMA LoggedStep == ASSUME FeedInv, Next PROVE LoggedBefore' /\ SendingOld' /\ NewUntouched'
<1>1. SinkTyped /\ SinkTyped'
  BY SinkTypedStep DEF FeedInv
<1>2. ASSUME NEW l \in Listeners, Register(l) \/ Receive(l) \/ Unregister(l)
      PROVE  LoggedBefore' /\ SendingOld' /\ NewUntouched'
  <2>1. UNCHANGED <<seq, buf, handler, logged>>
    BY <1>2 DEF Register, Receive, Unregister
  <2>2. \A m \in Listeners : connection'[m] = "new" => connection[m] = "new" /\ m # l
    BY <1>1, <1>2 DEF Register, Receive, Unregister, SinkTyped, TypeOK
  <2>3. \A m \in Listeners : m # l => got'[m] = got[m] /\ chan'[m] = chan[m]
    BY <1>1, <1>2 DEF Register, Receive, Unregister, SinkTyped, TypeOK
  <2>4. LoggedBefore'
    BY <2>1 DEF FeedInv, LoggedBefore, Range
  <2>5. SendingOld'
    BY <1>1, <2>1, <2>2, HandlerFacts DEF FeedInv, SendingOld
  <2>6. NewUntouched'
    BY <2>2, <2>3 DEF FeedInv, NewUntouched
  <2>. QED
    BY <2>4, <2>5, <2>6
<1>3. ASSUME NEW p \in Loggers, Handle(p)
      PROVE  LoggedBefore' /\ SendingOld' /\ NewUntouched'
  <2>. DEFINE new == [from |-> p, no |-> seq + 1]
  <2>1. /\ new \in Entries /\ logged' = logged \cup {new} /\ logged \subseteq Entries
        /\ seq' = seq + 1 /\ seq \in Nat /\ connection' = connection
        /\ got' = got /\ chan' = chan /\ buf' = Append(Evicted, new)
        /\ handler' = [handler EXCEPT ![p] =
              [pc |-> IF Clients = {} THEN "idle" ELSE "sending", no |-> seq + 1, left |-> Clients]]
    BY <1>1, <1>3, SinkConstants, NextEntry
    DEF Handle, HandleWith, SinkTyped, TypeOK, SinkConstants
  <2>2. handler'[p].no = seq + 1 /\ handler'[p].left = Clients
        /\ \A q \in Loggers : q # p => handler'[q] = handler[q]
    BY <1>1, <2>1 DEF SinkTyped, TypeOK
  <2>3. ASSUME NEW e \in logged' PROVE e.no <= seq' /\ e.no <= handler'[e.from].no
    <3>1. CASE e = new
      BY <2>1, <2>2, <3>1
    <3>2. CASE e \in logged
      <4>1. e.no \in Nat /\ e.from \in Loggers /\ e.no <= seq /\ e.no <= handler[e.from].no
        BY <2>1, <3>2 DEF Entries, FeedInv, LoggedBefore
      <4>2. e.no <= seq + 1
        BY <2>1, <4>1
      <4>. QED
        BY <2>1, <2>2, <4>1, <4>2
    <3>. QED
      BY <2>1, <3>1, <3>2
  <2>4. Range(buf)' \subseteq logged'
    <3>1. Range(Append(Evicted, new)) = Range(Evicted) \cup {new}
      BY <1>1, <2>1, EvictedIn, RangeAppend
    <3>. QED
      BY <1>1, <2>1, <3>1, EvictedIn DEF FeedInv, LoggedBefore, Range
  <2>5. SendingOld'
    <3>1. \A l \in Clients : connection[l] # "new"
      BY DEF Clients
    <3>. QED
      BY <2>1, <2>2, <3>1 DEF FeedInv, SendingOld
  <2>. QED
    BY <2>1, <2>3, <2>4, <2>5 DEF FeedInv, LoggedBefore, NewUntouched
<1>4. ASSUME NEW p \in Loggers, NEW l \in Listeners, Send(p, l)
      PROVE  LoggedBefore' /\ SendingOld' /\ NewUntouched'
  <2>1. /\ UNCHANGED <<seq, buf, logged, connection, got>>
        /\ handler[p].pc = "sending" /\ l \in handler[p].left
    BY <1>4 DEF Send
  <2>2. \A q \in Loggers :
          /\ handler'[q].no = handler[q].no /\ handler'[q].left \subseteq handler[q].left
          /\ handler'[q].pc = "sending" => handler[q].pc = "sending"
    <3>1. handler \in [Loggers -> HandlerRecord]
      BY <1>1 DEF SinkTyped, TypeOK, HandlerRecord
    <3>2. \A q \in Loggers : q # p => handler'[q] = handler[q]
      BY <1>4, <3>1 DEF Send
    <3>3. /\ handler'[p].no = handler[p].no /\ handler'[p].left \subseteq handler[p].left
      BY <1>4, <3>1 DEF Send, HandlerRecord
    <3>. QED
      BY <2>1, <3>2, <3>3
  <2>3. LoggedBefore'
    <3>1. \A e \in logged : e.from \in Loggers
      BY <1>1 DEF SinkTyped, TypeOK, Entries
    <3>. QED
      BY <2>1, <2>2, <3>1 DEF FeedInv, LoggedBefore, Range
  <2>4. SendingOld'
    BY <2>1, <2>2 DEF FeedInv, SendingOld
  <2>5. connection[l] # "new"
    BY <2>1 DEF FeedInv, SendingOld
  <2>6. \A m \in Listeners : m # l => chan'[m] = chan[m]
    BY <1>1, <1>4 DEF Send, SinkTyped, TypeOK
  <2>7. NewUntouched'
    BY <2>1, <2>5, <2>6 DEF FeedInv, NewUntouched
  <2>. QED
    BY <2>3, <2>4, <2>7
<1>. QED
  BY <1>2, <1>3, <1>4 DEF Next

(* Each operation keeps the streams in order: it leaves them alone, or     *)
(* begins one with a replay, or appends an entry that is ahead of it.      *)
LEMMA StreamsStep == ASSUME FeedInv, Next PROVE ShownInOrder' /\ LeftIsAhead'
<1>1. SinkTyped /\ SinkTyped' /\ Streams \in [Listeners -> Seq(Entries)] /\ handler \in [Loggers -> HandlerRecord]
  BY SinkTypedStep, StreamsTyped DEF FeedInv, SinkTyped, TypeOK, HandlerRecord
<1>2. ASSUME NEW l \in Listeners, Register(l) PROVE ShownInOrder' /\ LeftIsAhead'
  <2>1. /\ UNCHANGED <<handler, logged>> /\ connection[l] = "new"
        /\ Streams' = [Streams EXCEPT ![l] = Fitting(buf)]
    BY <1>2, RegisterStreams DEF Register
  <2>2. InOrder(Fitting(buf)) /\ Range(Fitting(buf)) \subseteq logged
    BY ReplayInOrder DEF FeedInv, LoggedBefore
  <2>3. \A m \in Listeners : Streams'[m] = IF m = l THEN Fitting(buf) ELSE Streams[m]
    BY <1>1, <2>1
  <2>4. ShownInOrder'
    BY <2>1, <2>2, <2>3 DEF FeedInv, ShownInOrder
  <2>5. \A p \in Loggers : handler[p].pc = "sending" => l \notin handler[p].left
    BY <2>1 DEF FeedInv, SendingOld
  <2>6. \A p \in Loggers : handler[p].left \subseteq Listeners
    BY <1>1, HandlerFacts
  <2>7. LeftIsAhead'
    BY <2>1, <2>3, <2>5, <2>6 DEF FeedInv, LeftIsAhead
  <2>. QED
    BY <2>4, <2>7
<1>3. ASSUME NEW l \in Listeners, Receive(l) \/ Unregister(l)
      PROVE  ShownInOrder' /\ LeftIsAhead'
  <2>1. UNCHANGED <<handler, logged>> /\ Streams' = Streams
    BY <1>1, <1>3, ReceiveStreams, UnregisterStreams DEF Receive, Unregister
  <2>. QED
    BY <2>1 DEF FeedInv, ShownInOrder, LeftIsAhead
<1>4. ASSUME NEW p \in Loggers, Handle(p) PROVE ShownInOrder' /\ LeftIsAhead'
  <2>1. Streams' = Streams /\ logged \subseteq logged'
    BY <1>4, HandleStreams
  <2>2. /\ handler'[p].no = seq + 1 /\ handler'[p].left \subseteq Listeners /\ seq \in Nat
        /\ \A q \in Loggers : q # p => handler'[q] = handler[q]
    BY <1>1, <1>4, SinkConstants
    DEF Handle, HandleWith, Clients, SinkTyped, TypeOK, SinkConstants
  <2>3. ShownInOrder'
    BY <2>1 DEF FeedInv, ShownInOrder
  <2>4. ASSUME NEW q \in Loggers, NEW l \in handler'[q].left, handler'[q].pc = "sending",
               NEW e \in Range(Streams[l]), e.from = q
        PROVE  e.no < handler'[q].no
    <3>1. CASE q # p
      BY <2>2, <2>4, <3>1 DEF FeedInv, LeftIsAhead
    <3>2. CASE q = p
      <4>1. l \in Listeners /\ e \in logged
        BY <2>2, <2>4, <3>2 DEF FeedInv, ShownInOrder
      <4>2. e.no <= seq /\ e.no \in Nat
        BY <1>1, <4>1 DEF FeedInv, LoggedBefore, SinkTyped, TypeOK, Entries
      <4>. QED
        BY <2>2, <3>2, <4>2
    <3>. QED
      BY <3>1, <3>2
  <2>. QED
    BY <2>1, <2>3, <2>4 DEF LeftIsAhead
<1>5. ASSUME NEW p \in Loggers, NEW l \in Listeners, Send(p, l)
      PROVE  ShownInOrder' /\ LeftIsAhead'
  <2>. DEFINE entry == [from |-> p, no |-> handler[p].no]
  <2>1. /\ UNCHANGED logged /\ handler[p].pc = "sending" /\ l \in handler[p].left
        /\ entry \in Entries /\ entry \in logged
    BY <1>1, <1>5, HandlerFacts DEF Send, FeedInv, SendingOld
  <2>2. \A q \in Loggers :
          /\ handler'[q].no = handler[q].no /\ handler'[q].left \subseteq handler[q].left
          /\ handler'[q].pc = "sending" => handler[q].pc = "sending"
    <3>1. \A q \in Loggers : q # p => handler'[q] = handler[q]
      BY <1>1, <1>5 DEF Send
    <3>2. handler'[p].no = handler[p].no /\ handler'[p].left \subseteq handler[p].left
      BY <1>1, <1>5 DEF Send, HandlerRecord
    <3>. QED
      BY <2>1, <3>1, <3>2
  <2>3. CASE Streams' = Streams
    BY <2>1, <2>2, <2>3 DEF FeedInv, ShownInOrder, LeftIsAhead
  <2>4. CASE Streams' = [Streams EXCEPT ![l] = Append(@, entry)]
    <3>. DEFINE old == Streams[l]
    <3>1. /\ old \in Seq(Entries) /\ InOrder(old) /\ Range(old) \subseteq logged
          /\ \A e \in Range(old) : e.from = entry.from => e.no < entry.no
      BY <1>1, <2>1 DEF FeedInv, ShownInOrder, LeftIsAhead
    <3>. HIDE DEF old, entry
    <3>2. InOrder(Append(old, entry)) /\ Range(Append(old, entry)) = Range(old) \cup {entry}
      BY <2>1, <3>1, InOrderAppend, RangeAppend
    <3>3. \A m \in Listeners : Streams'[m] = IF m = l THEN Append(old, entry) ELSE Streams[m]
      BY <1>1, <2>4 DEF old
    <3>4. ShownInOrder'
      BY <2>1, <3>1, <3>2, <3>3 DEF FeedInv, ShownInOrder
    <3>5. ASSUME NEW q \in Loggers, NEW m \in handler'[q].left, handler'[q].pc = "sending",
                 NEW e \in Range(Streams'[m]), e.from = q
          PROVE  e.no < handler'[q].no
      <4>1. m \in Listeners /\ m \in handler[q].left /\ handler[q].pc = "sending"
        BY <1>1, <2>2, <3>5, HandlerFacts
      <4>2. CASE e \in Range(Streams[m])
        BY <2>2, <3>5, <4>1, <4>2 DEF FeedInv, LeftIsAhead
      <4>3. CASE e \notin Range(Streams[m])
        <5>1. m = l /\ e = entry
          BY <3>2, <3>3, <3>5, <4>1, <4>3 DEF old
        <5>2. q = p
          BY <3>5, <5>1 DEF entry
        <5>3. l \notin handler'[p].left
          BY <1>1, <1>5 DEF Send, HandlerRecord
        <5>. QED
          BY <3>5, <5>1, <5>2, <5>3
      <4>. QED
        BY <4>2, <4>3
    <3>. QED
      BY <3>4, <3>5 DEF LeftIsAhead
  <2>. QED
    BY <1>5, <2>3, <2>4, SendStreams
<1>. QED
  BY <1>2, <1>3, <1>4, <1>5 DEF Next

LEMMA FeedInvStep == FeedInv /\ [Next]_vars => FeedInv'
<1>1. FeedInv /\ Next => FeedInv'
  <2>. SUFFICES ASSUME FeedInv, Next PROVE FeedInv'
    OBVIOUS
  <2>1. SinkTyped' /\ RingInv'
    BY SinkTypedStep, RingInvStep DEF FeedInv
  <2>. QED
    BY <2>1, LoggedStep, StreamsStep DEF FeedInv
<1>2. FeedInv /\ UNCHANGED vars => FeedInv'
  <2>. SUFFICES ASSUME FeedInv, UNCHANGED vars PROVE FeedInv'
    OBVIOUS
  <2>1. UNCHANGED <<seq, buf, connection, chan, got, dropped, handler, logged>>
    BY DEF vars
  <2>2. SinkTyped' /\ Streams' = Streams
    BY <2>1, SinkTypedStep DEF FeedInv, Streams, Stream
  <2>. QED
    BY <2>1, <2>2 DEF FeedInv, RingInv, RingIsLatest, LoggedBefore, SendingOld, NewUntouched,
                      ShownInOrder, LeftIsAhead, Range
<1>. QED
  BY <1>1, <1>2

(* Every step of the sink is a step of Broadcast, or changes nothing there. *)
LEMMA FeedStep == ASSUME FeedInv, FeedInv', Next PROVE [Feed!Next]_Feed!vars
<1>1. /\ SinkTyped /\ Streams \in [Listeners -> Seq(Entries)]
      /\ \A l \in Listeners : Feed!Faithful(Streams[l])'
  <2>1. SinkTyped /\ SinkTyped' /\ ShownInOrder'
    BY DEF FeedInv
  <2>. QED
    BY <2>1, StreamsTyped DEF ShownInOrder, Feed!Faithful, InOrder, Range
<1>2. ASSUME NEW l \in Listeners, Register(l) PROVE Feed!Join(l)
  <2>1. /\ l \notin Clients /\ Clients' = Clients \cup {l} /\ logged' = logged
        /\ Streams' = [Streams EXCEPT ![l] = Fitting(buf)]
    BY <1>2, RegisterStreams DEF Register
  <2>2. Streams'[l] = Fitting(buf)
    BY <1>1, <2>1
  <2>3. Streams' = [Streams EXCEPT ![l] = Streams'[l]]
    BY <2>1, <2>2
  <2>4. Feed!Faithful(Streams'[l])
    BY <1>1, <2>1 DEF Feed!Faithful
  <2>. QED
    BY <2>1, <2>3, <2>4 DEF Feed!Join, Streams
<1>3. ASSUME NEW l \in Listeners, Receive(l) PROVE UNCHANGED Feed!vars
  BY <1>1, <1>3, ReceiveStreams DEF Feed!vars, Receive, Streams
<1>4. ASSUME NEW l \in Listeners, Unregister(l) PROVE Feed!Leave(l)
  BY <1>1, <1>4, UnregisterStreams DEF Feed!Leave, Unregister, Streams
<1>5. ASSUME NEW p \in Loggers, Handle(p) PROVE Feed!Emit
  BY <1>5, HandleStreams DEF Feed!Emit, Streams
<1>6. ASSUME NEW p \in Loggers, NEW l \in Listeners, Send(p, l)
      PROVE  Feed!Deliver(l) \/ UNCHANGED Feed!vars
  <2>1. logged' = logged /\ [from |-> p, no |-> handler[p].no] \in logged
    BY <1>6 DEF Send, FeedInv, SendingOld
  <2>2. CASE Streams' = Streams
    BY <1>6, <2>1, <2>2, SendStreams DEF Feed!vars, Streams
  <2>3. CASE /\ l \in Clients
             /\ Streams' = [Streams EXCEPT ![l] =
                              Append(@, [from |-> p, no |-> handler[p].no])]
    <3>1. Feed!Faithful(Streams'[l])
      BY <1>1, <2>1 DEF Feed!Faithful
    <3>2. Clients' = Clients
      BY <1>6, SendStreams
    <3>. QED
      BY <2>1, <2>3, <3>1, <3>2 DEF Feed!Deliver, Streams
  <2>. QED
    BY <1>6, <2>2, <2>3, SendStreams
<1>. QED
  BY <1>2, <1>3, <1>4, <1>5, <1>6 DEF Next, Feed!Next

(* The log sink implements the abstract fan-out: a viewer is shown what    *)
(* was logged, nothing twice, and the entries of one goroutine in their    *)
(* order, for any number of goroutines and viewers and any capacities.     *)
THEOREM SinkBroadcasts == Spec => ImplementsBroadcast
<1>1. Init => Feed!Init
  <2>1. <<>> \o <<>> = <<>>
    OBVIOUS
  <2>. QED
    BY <2>1 DEF Init, Feed!Init, Clients, Stream
<1>2. FeedInv /\ FeedInv' /\ [Next]_vars => [Feed!Next]_Feed!vars
  <2>1. UNCHANGED vars => UNCHANGED Feed!vars
    BY DEF vars, Feed!vars, Clients, Stream
  <2>. QED
    BY <2>1, FeedStep
<1>. QED
  BY <1>1, <1>2, FeedInvInit, FeedInvStep, PTL DEF Spec, Feed!Spec, ImplementsBroadcast

-----------------------------------------------------------------------------
(* Under the page. *)

LEMMA SinkInit == ViewerInit => Init
BY DEF ViewerInit

LEMMA SinkSteps == [ViewerNext]_ViewerVars => [Next]_vars
<1>1. CASE Connect
  <2>1. source.conn + 1 \in Listeners /\ Register(source.conn + 1)
    BY <1>1 DEF Connect
  <2>. QED
    BY <2>1 DEF Next
<1>2. CASE SinkStep
  BY <1>2 DEF SinkStep, Next
<1>3. CASE Console \/ Message \/ StreamLost \/ ToggleOpen \/ Clear
  BY <1>3 DEF Console, Message, StreamLost, ToggleOpen, Clear, sink, vars
<1>4. CASE UNCHANGED ViewerVars
  BY <1>4 DEF ViewerVars, sink, vars
<1>. QED
  BY <1>1, <1>2, <1>3, <1>4 DEF ViewerNext, PageStep

(* Every behaviour of the page is one of the sink: the page only connects, *)
(* reads and breaks connections.                                           *)
THEOREM ViewerIsSink == ViewerSpec => Spec
BY SinkInit, SinkSteps, PTL DEF ViewerSpec, Spec

(* The ring holds the latest entries while the page connects again and     *)
(* again.                                                                  *)
THEOREM ViewerRing == ViewerSpec => []RingIsLatest
BY ViewerIsSink, RingCorrect, PTL

(* Whichever of its connections the page has at the time, no entry of the  *)
(* ring falls between the replay and the sends.                            *)
THEOREM ViewerNothingBetween == ViewerSpec => []NothingBetween
BY ViewerIsSink, SinkNothingBetween, PTL

(* Every connection of the page is shown what was logged, nothing twice on *)
(* it, and the entries of one goroutine in their order: what the page      *)
(* shows twice comes by two connections.                                   *)
THEOREM ViewerBroadcasts == ViewerSpec => ImplementsBroadcast
BY ViewerIsSink, SinkBroadcasts, PTL

-----------------------------------------------------------------------------
(* What the sink and the page keep. *)

(* Every variable of the sink keeps its type, and no channel exceeds its   *)
(* capacity, whichever goroutine sends to whichever viewer.                *)
THEOREM SinkTypeCorrect == Spec => []TypeOK
<1>1. Init => SinkTyped
  BY SinkTypedInit
<1>2. SinkTyped => TypeOK
  BY DEF SinkTyped
<1>. QED
  BY <1>1, <1>2, SinkTypedStep, PTL DEF Spec

(* The page reads only from a connection it has made.                      *)
ViewerTyped ==
  /\ ViewerTypeOK
  /\ source.state = "open" => source.conn \in Listeners

(* The store takes an entry and lets the oldest go when it is full.        *)
LEMMA AddEntryTyped ==
  ASSUME entries \in Seq(LogEntry), Len(entries) <= MaxShown,
         NEW e \in LogEntry, AddEntry(e)
  PROVE  entries' \in Seq(LogEntry) /\ Len(entries') <= MaxShown
<1>. DEFINE next == Append(entries, e)
<1>1. MaxShown \in Nat /\ MaxShown > 0
  BY ViewerConstants DEF ViewerConstants
<1>2. next \in Seq(LogEntry) /\ Len(next) = Len(entries) + 1 /\ Len(entries) \in Nat
  OBVIOUS
<1>3. Tail(next) \in Seq(LogEntry) /\ Len(Tail(next)) = Len(entries)
  BY <1>2
<1>4. entries' = IF Len(next) > MaxShown THEN Tail(next) ELSE next
  BY DEF AddEntry
<1>. HIDE DEF next
<1>. QED
  BY <1>1, <1>2, <1>3, <1>4

LEMMA ViewerTypedInit == ViewerInit => ViewerTyped
<1>1. MaxActs \in Nat /\ MaxShown \in Nat
  BY ViewerConstants DEF ViewerConstants
<1>2. <<>> \in Seq(LogEntry) /\ Len(<<>>) = 0
  OBVIOUS
<1>3. 0 <= MaxShown /\ 0 \in 0 .. MaxActs
  BY <1>1
<1>4. [conn |-> 0, state |-> "waiting", read |-> 0]
        \in [conn : {0} \cup Listeners, state : {"open", "waiting"}, read : Nat]
  OBVIOUS
<1>. QED
  BY <1>2, <1>3, <1>4 DEF ViewerInit, ViewerTyped, ViewerTypeOK

LEMMA ViewerTypedStep ==
  SinkTyped /\ ViewerTyped /\ [ViewerNext]_ViewerVars => ViewerTyped'
<1>. SUFFICES ASSUME SinkTyped, ViewerTyped, [ViewerNext]_ViewerVars
              PROVE  ViewerTyped'
  OBVIOUS
<1>0. MaxActs \in Nat /\ \A a \in 0 .. MaxActs : a < MaxActs => a + 1 \in 1 .. MaxActs
  BY ViewerConstants DEF ViewerConstants
<1>1. CASE Console
  <2>1. acts' \in 1 .. MaxActs
    BY <1>0, <1>1 DEF Console, Act, ViewerTyped, ViewerTypeOK
  <2>2. [from |-> "web", no |-> acts'] \in LogEntry
    BY <2>1 DEF LogEntry
  <2>3. entries' \in Seq(LogEntry) /\ Len(entries') <= MaxShown
    BY <1>1, <2>2, AddEntryTyped DEF Console, ViewerTyped, ViewerTypeOK
  <2>. QED
    BY <1>0, <1>1, <2>1, <2>3 DEF Console, ViewerTyped, ViewerTypeOK
<1>2. CASE Connect
  BY <1>2 DEF Connect, ViewerTyped, ViewerTypeOK
<1>3. CASE Message
  <2>1. source.conn \in Listeners /\ source.read \in Nat
    BY <1>3 DEF Message, Unread, ViewerTyped, ViewerTypeOK
  <2>2. got[source.conn] \in Seq(Entries) /\ source.read < Len(got[source.conn])
    BY <1>3, <2>1 DEF Message, Unread, SinkTyped, TypeOK
  <2>3. got[source.conn][source.read + 1] \in Entries
    BY <2>1, <2>2
  <2>4. entries' \in Seq(LogEntry) /\ Len(entries') <= MaxShown
    BY <1>3, <2>3, AddEntryTyped DEF Message, ViewerTyped, ViewerTypeOK, LogEntry
  <2>. QED
    BY <1>3, <2>1, <2>4 DEF Message, ViewerTyped, ViewerTypeOK
<1>4. CASE StreamLost
  BY <1>4 DEF StreamLost, ViewerTyped, ViewerTypeOK
<1>5. CASE ToggleOpen
  BY <1>0, <1>5 DEF ToggleOpen, Act, ViewerTyped, ViewerTypeOK
<1>6. CASE Clear
  <2>1. <<>> \in Seq(LogEntry) /\ Len(<<>>) = 0 /\ MaxShown \in Nat
    BY ViewerConstants DEF ViewerConstants
  <2>. QED
    BY <1>0, <1>6, <2>1 DEF Clear, Act, ViewerTyped, ViewerTypeOK
<1>7. CASE SinkStep
  BY <1>7 DEF SinkStep, page, ViewerTyped, ViewerTypeOK
<1>8. CASE UNCHANGED ViewerVars
  BY <1>8 DEF ViewerVars, page, ViewerTyped, ViewerTypeOK
<1>. QED
  BY <1>1, <1>2, <1>3, <1>4, <1>5, <1>6, <1>7, <1>8 DEF ViewerNext, PageStep

(* The store never holds more than it may, and what the page reads is an   *)
(* entry that its connection was written.                                  *)
THEOREM ViewerTypeCorrect == ViewerSpec => []ViewerTypeOK
<1>1. ViewerInit => SinkTyped /\ ViewerTyped
  BY SinkInit, SinkTypedInit, ViewerTypedInit
<1>2. SinkTyped /\ ViewerTyped /\ [ViewerNext]_ViewerVars => (SinkTyped /\ ViewerTyped)'
  BY SinkSteps, SinkTypedStep, ViewerTypedStep
<1>3. ViewerTyped => ViewerTypeOK
  BY DEF ViewerTyped
<1>. QED
  BY <1>1, <1>2, <1>3, PTL DEF ViewerSpec
===============================================================================
