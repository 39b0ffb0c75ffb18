-------------------------- MODULE ChannelsPageProofs --------------------------
(***************************************************************************)
(* Proofs about the authorization sessions, for every set of channels and  *)
(* every number of sessions, and about the page that drives them: it does  *)
(* nothing to them that they do not do by themselves, so that what is      *)
(* proved of the sessions holds of the composition, for every bound; and   *)
(* a card of the page says why it stops waiting.                           *)
(***************************************************************************)
EXTENDS ChannelsPage, RangeFacts, FiniteSetTheorems, TLAPS

-----------------------------------------------------------------------------
(* The sessions. *)

(* The invariants need each other: an entry is not gone because a session  *)
(* that is gone has deleted it, and it is the latest because the earlier   *)
(* ones never write it.                                                    *)
Inv == TypeOK /\ EntryIsLatest /\ EntryNotGone

LEMMA StartedFacts ==
  ASSUME TypeOK
  PROVE  /\ started \in Nat /\ MaxSessions \in Nat
         /\ Started \subseteq Sessions
         /\ \A s \in Started : s \in Nat /\ s <= started
BY SessionConstants DEF TypeOK, Started, Sessions, SessionConstants

LEMMA InitInv == Init => Inv
<1>. SUFFICES ASSUME Init PROVE Inv
  OBVIOUS
<1>1. Started = {} /\ started = 0
  BY DEF Init, Started
<1>2. 0 \in 0 .. MaxSessions
  BY SessionConstants DEF SessionConstants
<1>3. session \in [Started -> SessionRecord]
  BY <1>1 DEF Init
<1>. QED
  BY <1>1, <1>2, <1>3 DEF Init, Inv, TypeOK, EntryIsLatest, EntryNotGone, Of

(* A step that starts no session and leaves the channels alone.            *)
LEMMA Quiet ==
  ASSUME Inv, UNCHANGED started, session' \in [Started -> SessionRecord],
         \A s \in Started : session'[s].channel = session[s].channel,
         \A c \in Channels : entry'[c] \in {0, entry[c]},
         entry' \in [Channels -> {0} \cup Sessions],
         \A c \in Channels : entry'[c] # 0 => session'[entry[c]].server # "gone"
  PROVE  Inv'
<1>1. Started' = Started /\ \A c : Of(c)' = Of(c)
  BY DEF Started, Of
<1>2. TypeOK'
  BY <1>1 DEF Inv, TypeOK
<1>3. EntryIsLatest'
  BY <1>1 DEF Inv, EntryIsLatest
<1>4. EntryNotGone'
  BY <1>1 DEF Inv, EntryNotGone
<1>. QED
  BY <1>2, <1>3, <1>4 DEF Inv

(* Replacing a session cancels its context and changes nothing else.       *)
LEMMA ReplacedFacts ==
  ASSUME Inv, NEW c \in Channels
  PROVE  /\ Replaced(c) \in [Started -> SessionRecord]
         /\ \A s \in Started : /\ Replaced(c)[s].channel = session[s].channel
                               /\ Replaced(c)[s].server = session[s].server
<1>1. CASE entry[c] = 0
  BY <1>1 DEF Replaced, Inv, TypeOK
<1>2. CASE entry[c] # 0
  <2>1. entry[c] \in Started /\ session \in [Started -> SessionRecord]
    BY <1>2 DEF Inv, TypeOK, Of
  <2>. QED
    BY <1>2, <2>1 DEF Replaced, Cancelled, SessionRecord
<1>. QED
  BY <1>1, <1>2

LEMMA StartInv == ASSUME Inv, NEW c \in Channels, StartSession(c) PROVE Inv'
<1>. DEFINE new == started + 1
<1>1. /\ started \in Nat /\ MaxSessions \in Nat /\ started < MaxSessions
      /\ started' = new /\ Started' = 1 .. new /\ Started = 1 .. started
      /\ new \in Sessions /\ new \in Started' /\ new \notin Started
      /\ \A s \in Started' : s \in Started \/ s = new
      /\ \A s \in Started : s \in Started' /\ s <= new /\ s # new
      /\ new \in 0 .. MaxSessions /\ new # 0
  BY StartedFacts DEF Inv, StartSession, Started, Sessions
<1>2. /\ session' = [s \in 1 .. new |-> IF s > started THEN New(c) ELSE Replaced(c)[s]]
      /\ entry' = [entry EXCEPT ![c] = new]
      /\ entry \in [Channels -> {0} \cup Sessions]
  BY DEF StartSession, Inv, TypeOK
<1>3. /\ session'[new] = New(c)
      /\ \A s \in Started : session'[s] = Replaced(c)[s]
  BY <1>1, <1>2
<1>4. New(c) \in SessionRecord
  BY DEF New, SessionRecord
<1>5. session' \in [Started' -> SessionRecord]
  BY <1>1, <1>2, <1>3, <1>4, ReplacedFacts
<1>6. /\ entry'[c] = new
      /\ \A d \in Channels \ {c} : entry'[d] = entry[d]
      /\ entry' \in [Channels -> {0} \cup Sessions]
  BY <1>1, <1>2
<1>7. /\ \A d \in Channels \ {c} : Of(d)' = Of(d)
      /\ \A s \in Of(c)' : s \in Started'
      /\ new \in Of(c)'
  BY <1>1, <1>3, ReplacedFacts DEF Of, New
<1>8. TypeOK'
  <2>1. \A d \in Channels : entry'[d] = 0 \/ entry'[d] \in Of(d)'
    BY <1>6, <1>7 DEF Inv, TypeOK
  <2>. QED
    BY <1>1, <1>5, <1>6, <2>1 DEF TypeOK
<1>9. EntryIsLatest'
  <2>1. \A s \in Started' : s <= new
    BY <1>1
  <2>. QED
    BY <1>6, <1>7, <2>1 DEF Inv, EntryIsLatest
<1>10. EntryNotGone'
  <2>1. session'[new].server # "gone"
    BY <1>3 DEF New
  <2>2. \A d \in Channels \ {c} : entry[d] # 0 => session'[entry[d]].server # "gone"
    BY <1>3, ReplacedFacts DEF Inv, EntryNotGone, TypeOK, Of
  <2>. QED
    BY <1>6, <2>1, <2>2 DEF EntryNotGone
<1>. QED
  BY <1>8, <1>9, <1>10 DEF Inv

LEMMA StepInv == Inv /\ [Next]_vars => Inv'
<1>1. ASSUME Inv, NEW c \in Channels, StartFails(c) PROVE Inv'
  <2>1. /\ session' = Replaced(c) /\ started' = started
        /\ entry' = [entry EXCEPT ![c] = 0]
    BY <1>1 DEF StartFails
  <2>2. \A d \in Channels : entry[d] # 0 => entry[d] \in Started
    BY <1>1 DEF Inv, TypeOK, Of
  <2>3. /\ \A d \in Channels : entry'[d] \in {0, entry[d]}
        /\ entry' \in [Channels -> {0} \cup Sessions]
    BY <1>1, <2>1 DEF Inv, TypeOK
  <2>4. \A d \in Channels : entry'[d] # 0 => session'[entry[d]].server # "gone"
    BY <1>1, <2>1, <2>2, <2>3, ReplacedFacts DEF Inv, EntryNotGone
  <2>. QED
    BY <1>1, <2>1, <2>3, <2>4, ReplacedFacts, Quiet
<1>2. ASSUME Inv, NEW s \in Started, Cleanup(s) PROVE Inv'
  <2>1. /\ session' = [session EXCEPT ![s].server = "gone"] /\ started' = started
        /\ entry' = [entry EXCEPT ![session[s].channel] = 0]
        /\ session \in [Started -> SessionRecord] /\ entry \in [Channels -> {0} \cup Sessions]
    BY <1>2 DEF Cleanup, Inv, TypeOK
  <2>2. /\ session' \in [Started -> SessionRecord]
        /\ \A t \in Started : session'[t].channel = session[t].channel
        /\ \A t \in Started \ {s} : session'[t] = session[t]
    BY <2>1 DEF SessionRecord
  <2>3. /\ \A d \in Channels : entry'[d] \in {0, entry[d]}
        /\ entry' \in [Channels -> {0} \cup Sessions]
        /\ entry'[session[s].channel] = 0
    BY <2>1, <2>2 DEF SessionRecord
  <2>4. ASSUME NEW d \in Channels, entry'[d] # 0 PROVE session'[entry[d]].server # "gone"
    <3>1. entry[d] # 0 /\ entry[d] \in Of(d) /\ d # session[s].channel
      BY <1>2, <2>3, <2>4 DEF Inv, TypeOK
    <3>2. entry[d] \in Started \ {s}
      BY <3>1 DEF Of
    <3>. QED
      BY <1>2, <2>2, <3>1, <3>2 DEF Inv, EntryNotGone
  <2>. QED
    BY <1>2, <2>1, <2>2, <2>3, <2>4, Quiet
<1>3. ASSUME Inv, NEW s \in Started,
             Callback(s) \/ Timeout(s) \/ Exchange(s) \/ SaveTokens(s) \/ CancelSelf(s)
             \/ Shutdown(s)
      PROVE  Inv'
  <2>1. session \in [Started -> SessionRecord] /\ entry \in [Channels -> {0} \cup Sessions]
    BY <1>3 DEF Inv, TypeOK
  <2>2. /\ session' \in [Started -> SessionRecord] /\ UNCHANGED <<started, entry>>
        /\ \A t \in Started : /\ session'[t].channel = session[t].channel
                              /\ session'[t].server = "gone" => session[t].server = "gone"
    BY <1>3, <2>1 DEF Callback, Timeout, Exchange, SaveTokens, CancelSelf, Shutdown, Goes,
       SessionRecord
  <2>3. \A d \in Channels : entry[d] # 0 => entry[d] \in Started
    BY <1>3 DEF Inv, TypeOK, Of
  <2>. QED
    BY <1>3, <2>1, <2>2, <2>3, Quiet DEF Inv, EntryNotGone
<1>4. ASSUME Inv, UNCHANGED vars PROVE Inv'
  BY <1>4 DEF vars, Inv, TypeOK, EntryIsLatest, EntryNotGone, Of, Started
<1>. QED
  BY <1>1, <1>2, <1>3, <1>4, StartInv DEF Next, Serving

(* Types, for every number of channels and sessions. *)
THEOREM SessionsTypeCorrect == Spec => []TypeOK
<1>1. Inv => TypeOK
  BY DEF Inv
<1>. QED
  BY <1>1, InitInv, StepInv, PTL DEF Spec

(* The map never goes back to a session that was replaced.                 *)
THEOREM EntriesAdvance == Spec => []EntryIsLatest
<1>1. Inv => EntryIsLatest
  BY DEF Inv
<1>. QED
  BY <1>1, InitInv, StepInv, PTL DEF Spec

(* No entry is left behind by a session that has ended.                    *)
THEOREM EntriesReleased == Spec => []EntryNotGone
<1>1. Inv => EntryNotGone
  BY DEF Inv
<1>. QED
  BY <1>1, InitInv, StepInv, PTL DEF Spec

-----------------------------------------------------------------------------
(* The page. *)

(* What a gesture, an answer or a timer does leaves the sessions alone.    *)
LEMMA GesturesQuiet ==
  /\ \A tab : GoTo(tab) => UNCHANGED vars
  /\ \A c : HandleAuthorize(c) \/ HandleCancel(c) \/ Tick(c) \/ HandleRevoke(c)
              => UNCHANGED vars
  /\ OrphanTick \/ HandleSubmit \/ HandleUpload => UNCHANGED vars
  /\ \A p : HandlePatch(p) \/ HandleDelete(p) \/ HandleSetDefault(p) => UNCHANGED vars
BY DEF GoTo, HandleAuthorize, HandleCancel, Tick, HandleRevoke, OrphanTick, HandleSubmit,
       HandleUpload, HandlePatch, HandleDelete, HandleSetDefault, ActsOn, server

LEMMA AnswersQuiet == ASSUME NEW k, Answered(k) \/ Fails(k) PROVE UNCHANGED vars
BY DEF Answered, Fails, FetchAnswered, PollAnswered, InitAnswered, AddAnswered,
       DeleteAnswered, RefreshConnectedChannels, RefreshAnswered, ProfileAnswered,
       ProfilesAnswered, server

(* Of the requests only an authorization reaches the sessions; its channel *)
(* is one that has a row.                                                  *)
RowsOfChannels == DOMAIN row \subseteq Channels

LEMMA ServeStep ==
  ASSUME RowsOfChannels, NEW k, Serve(k)
  PROVE  [Next]_vars
<1>1. ASSUME InitOAuthFlow(k) PROVE [Next]_vars
  BY <1>1 DEF InitOAuthFlow, CanStart, RowsOfChannels, Next
<1>2. ASSUME ~InitOAuthFlow(k) PROVE UNCHANGED vars
  BY <1>2, Serve(k) DEF Serve, GetChannels, PostChannel, DeleteChannel, RefreshToken,
     ListProfiles, PostOAuthProfile, PatchOAuthProfile, DeleteOAuthProfile, SetDefault,
     OnlyRows, OnlyProfiles
<1>. QED
  BY <1>1, <1>2

LEMMA SessionsMove == SessionStep => [Next]_vars
BY DEF SessionStep, Next, Serving

LEMMA PageStep == RowsOfChannels /\ [PageNext]_pageVars => [Next]_vars
<1>. SUFFICES ASSUME RowsOfChannels, [PageNext]_pageVars PROVE [Next]_vars
  OBVIOUS
<1>1. CASE SessionStep
  BY <1>1, SessionsMove
<1>2. CASE \E k \in DOMAIN pending : Serve(k) \/ Fails(k) \/ Answered(k)
  BY <1>2, ServeStep, AnswersQuiet
<1>3. CASE UNCHANGED pageVars
  BY <1>3 DEF pageVars
<1>. QED
  BY <1>1, <1>2, <1>3, GesturesQuiet DEF PageNext

LEMMA RowsInit == PageInit => RowsOfChannels
BY PageConstants DEF PageInit, RowsOfChannels, PageConstants

LEMMA RowsAfterServe ==
  ASSUME RowsOfChannels, NEW k, Serve(k)
  PROVE  RowsOfChannels'
<1>1. CASE PostChannel(k)
  BY <1>1 DEF PostChannel, Inserted, RowsOfChannels
<1>2. CASE DeleteChannel(k) \/ DeleteOAuthProfile(k)
  BY <1>2 DEF DeleteChannel, DeleteOAuthProfile, RowsOfChannels
<1>3. CASE RefreshToken(k)
  BY <1>3 DEF RefreshToken, UpdateTokens, RowsOfChannels
<1>4. CASE GetChannels(k) \/ InitOAuthFlow(k) \/ ListProfiles(k) \/ PostOAuthProfile(k)
             \/ PatchOAuthProfile(k) \/ SetDefault(k)
  BY <1>4 DEF GetChannels, InitOAuthFlow, ListProfiles, PostOAuthProfile, PatchOAuthProfile,
     SetDefault, RowsOfChannels
<1>. QED
  BY <1>1, <1>2, <1>3, <1>4 DEF Serve

LEMMA RowsElsewhere ==
  ASSUME RowsOfChannels, [PageNext]_pageVars, ~\E k \in DOMAIN pending : Serve(k)
  PROVE  RowsOfChannels'
<1>1. CASE SessionStep
  BY <1>1 DEF SessionStep, UpdateTokens, RowsOfChannels
<1>2. CASE UNCHANGED row
  BY <1>2 DEF RowsOfChannels
<1>3. CASE \E k \in DOMAIN pending : Fails(k) \/ Answered(k)
  <2>1. UNCHANGED row
    BY <1>3 DEF Answered, Fails, FetchAnswered, PollAnswered, InitAnswered, AddAnswered,
       DeleteAnswered, RefreshConnectedChannels, RefreshAnswered, ProfileAnswered,
       ProfilesAnswered, server
  <2>. QED
    BY <1>2, <2>1
<1>4. CASE UNCHANGED pageVars
  BY <1>2, <1>4 DEF pageVars
<1>5. CASE \/ \E tab \in {"channels", "oauth"} : GoTo(tab)
           \/ \E c \in Channels :
                HandleAuthorize(c) \/ HandleCancel(c) \/ Tick(c) \/ HandleRevoke(c)
           \/ OrphanTick \/ HandleSubmit \/ HandleUpload
           \/ \E p \in Profiles : HandlePatch(p) \/ HandleDelete(p) \/ HandleSetDefault(p)
  <2>1. UNCHANGED row
    BY <1>5 DEF GoTo, HandleAuthorize, HandleCancel, Tick, HandleRevoke, OrphanTick,
       HandleSubmit, HandleUpload, HandlePatch, HandleDelete, HandleSetDefault, ActsOn, server
  <2>. QED
    BY <1>2, <2>1
<1>. QED
  BY <1>1, <1>3, <1>4, <1>5 DEF PageNext

(* The composition implements the sessions.                                *)
THEOREM SessionsImplemented == PageSpec => Spec
<1>1. PageInit => Init
  BY DEF PageInit
<1>2. RowsOfChannels /\ [PageNext]_pageVars => RowsOfChannels'
  BY RowsAfterServe, RowsElsewhere
<1>. QED
  BY <1>1, <1>2, RowsInit, PageStep, PTL DEF PageSpec, Spec

(* Whatever is clicked, answered late or lost at the page, the map of      *)
(* sessions does not go back to one that was replaced.                     *)
THEOREM PageEntriesAdvance == PageSpec => []EntryIsLatest
BY SessionsImplemented, EntriesAdvance, PTL

(* Nor does an entry outlive its session.                                  *)
THEOREM PageEntriesReleased == PageSpec => []EntryNotGone
BY SessionsImplemented, EntriesReleased, PTL

-----------------------------------------------------------------------------
(* The page as such: its state is what its types say, and a request whose  *)
(* component is still there, and that is of a card, has its card shown.    *)

MineShown ==
  \A r \in Range(pending) : r.mine /\ r.kind \in {"auth", "poll"} => CardShown(page, r.of)

Requests ==
  UNION {[kind : {kind}, of : {0} \cup Channels \cup Profiles,
          reply : Replies(kind), mine : BOOLEAN] : kind \in Kinds}

LEMMA RequestIs == ASSUME NEW r PROVE r \in Requests <=> IsRequest(r) /\ r.kind \in Kinds
<1>1. ASSUME r \in Requests PROVE IsRequest(r) /\ r.kind \in Kinds
  BY <1>1 DEF Requests, IsRequest
<1>2. ASSUME IsRequest(r), r.kind \in Kinds PROVE r \in Requests
  <2>1. r \in [kind : {r.kind}, of : {0} \cup Channels \cup Profiles,
               reply : Replies(r.kind), mine : BOOLEAN]
    BY <1>2 DEF IsRequest
  <2>. QED
    BY <1>2, <2>1 DEF Requests
<1>. QED
  BY <1>1, <1>2

LEMMA RequestFields ==
  ASSUME NEW r \in Requests
  PROVE  /\ r.kind \in Kinds /\ r.of \in {0} \cup Channels \cup Profiles
         /\ r.reply \in Replies(r.kind) /\ r.mine \in BOOLEAN
BY RequestIs DEF IsRequest

LEMMA KindsAre ==
  /\ {"fetch", "poll", "added", "connected", "profiles", "uploaded", "acted", "auth",
      "refresh", "patch", "add", "delete", "upload", "remove", "default"} = Kinds
  /\ \A kind : Null \in Replies(kind) /\ Refused \in Replies(kind)
  /\ \A kind \in ListKinds : Replies(kind) = {Null, Refused} \cup Lists
  /\ \A kind \in ProfileKinds : Replies(kind) = {Null, Refused} \cup OAuthProfiles
  /\ Replies("auth") = {Null, Refused} \cup Sessions
  /\ Replies("refresh") = {Null, Refused, Done} \cup Tokens
  /\ Replies("patch") = {Null, Refused, Done} \cup OAuthProfile
  /\ \A kind \in {"add", "delete", "upload", "remove", "default"} :
       Replies(kind) = {Null, Refused, Done}
<1>1. {"fetch", "poll", "added", "connected", "profiles", "uploaded", "acted", "auth",
       "refresh", "patch", "add", "delete", "upload", "remove", "default"} = Kinds
  BY DEF Kinds, ListKinds, ProfileKinds
<1>2. \A kind : Null \in Replies(kind) /\ Refused \in Replies(kind)
  BY DEF Replies
<1>3. ASSUME NEW kind \in ListKinds PROVE Replies(kind) = {Null, Refused} \cup Lists
  BY <1>3 DEF Replies, ListKinds, ProfileKinds
<1>4. ASSUME NEW kind \in ProfileKinds
      PROVE  Replies(kind) = {Null, Refused} \cup OAuthProfiles
  BY <1>4 DEF Replies, ListKinds, ProfileKinds
<1>5. Replies("auth") = {Null, Refused} \cup Sessions
  BY DEF Replies, ListKinds, ProfileKinds
<1>6. Replies("refresh") = {Null, Refused, Done} \cup Tokens
  BY DEF Replies, ListKinds, ProfileKinds
<1>7. Replies("patch") = {Null, Refused, Done} \cup OAuthProfile
  BY DEF Replies, ListKinds, ProfileKinds
<1>8. ASSUME NEW kind \in {"add", "delete", "upload", "remove", "default"}
      PROVE  Replies(kind) = {Null, Refused, Done}
  BY <1>8 DEF Replies, ListKinds, ProfileKinds
<1>. QED
  BY <1>1, <1>2, <1>3, <1>4, <1>5, <1>6, <1>7, <1>8

LEMMA NewRequest ==
  ASSUME NEW kind \in Kinds, NEW of \in {0} \cup Channels \cup Profiles
  PROVE  Request(kind, of) \in Requests
<1>. DEFINE r == Request(kind, of)
<1>1. r.kind = kind /\ r \in [kind : Kinds, of : {0} \cup Channels \cup Profiles,
                              reply : Replies(kind), mine : BOOLEAN]
  BY KindsAre DEF Request
<1>. QED
  BY <1>1, RequestIs DEF IsRequest

LEMMA RequestKept ==
  ASSUME NEW r \in Requests, NEW mine \in BOOLEAN
  PROVE  /\ [r EXCEPT !.mine = mine] \in Requests
         /\ [r EXCEPT !.mine = mine].kind = r.kind /\ [r EXCEPT !.mine = mine].of = r.of
         /\ [r EXCEPT !.mine = mine].mine = mine
         /\ mine = r.mine => [r EXCEPT !.mine = mine] = r
<1>1. r \in [kind : Kinds, of : {0} \cup Channels \cup Profiles,
             reply : Replies(r.kind), mine : BOOLEAN]
  BY RequestIs DEF IsRequest
<1>. DEFINE q == [r EXCEPT !.mine = mine]
<1>2. /\ q \in [kind : Kinds, of : {0} \cup Channels \cup Profiles,
                reply : Replies(r.kind), mine : BOOLEAN]
      /\ q.kind = r.kind /\ q.of = r.of /\ q.mine = mine /\ (mine = r.mine => q = r)
  BY <1>1
<1>3. q \in Requests
  BY <1>2, RequestIs DEF IsRequest
<1>. QED
  BY <1>2, <1>3

LEMMA RequestReplied ==
  ASSUME NEW r \in Requests, NEW reply \in Replies(r.kind)
  PROVE  /\ [r EXCEPT !.reply = reply] \in Requests
         /\ [r EXCEPT !.reply = reply].kind = r.kind /\ [r EXCEPT !.reply = reply].of = r.of
         /\ [r EXCEPT !.reply = reply].mine = r.mine
<1>1. r \in [kind : Kinds, of : {0} \cup Channels \cup Profiles,
             reply : Replies(r.kind), mine : BOOLEAN]
  BY RequestIs DEF IsRequest
<1>. DEFINE q == [r EXCEPT !.reply = reply]
<1>2. /\ q \in [kind : Kinds, of : {0} \cup Channels \cup Profiles,
                reply : Replies(r.kind), mine : BOOLEAN]
      /\ q.kind = r.kind /\ q.of = r.of /\ q.mine = r.mine
  BY <1>1
<1>3. q \in Requests
  BY <1>2, RequestIs DEF IsRequest
<1>. QED
  BY <1>2, <1>3

LEMMA RequestThen ==
  ASSUME NEW r \in Requests, NEW kind \in Kinds, NEW of \in {0} \cup Channels \cup Profiles
  PROVE  [r EXCEPT !.kind = kind, !.of = of, !.reply = Null] \in Requests
<1>. DEFINE q == [r EXCEPT !.kind = kind, !.of = of, !.reply = Null]
<1>1. r \in [kind : Kinds, of : {0} \cup Channels \cup Profiles,
             reply : Replies(r.kind), mine : BOOLEAN]
  BY RequestIs DEF IsRequest
<1>2. q.kind = kind /\ q \in [kind : Kinds, of : {0} \cup Channels \cup Profiles,
                              reply : Replies(kind), mine : BOOLEAN]
  BY <1>1, KindsAre
<1>. QED
  BY <1>2, RequestIs DEF IsRequest

Typed ==
  /\ row \in Rows /\ profile \in OAuthProfiles /\ opened \subseteq Sessions
  /\ page \in Page /\ pending \in Seq(Requests) /\ acts \in 0 .. MaxActs

PageInv == Typed /\ MineShown

LEMMA TypedIs == Typed => PageTypeOK
<1>. SUFFICES ASSUME Typed PROVE PageTypeOK
  OBVIOUS
<1>1. \A j \in DOMAIN pending : pending[j] \in Range(pending)
  BY DEF Range
<1>2. pending = [j \in DOMAIN pending |-> pending[j]] /\ pending \in Seq(Requests)
  BY DEF Typed
<1>3. \A r \in Range(pending) : IsRequest(r)
  BY <1>2, RangeIn, RequestIs
<1>4. pending \in Seq(Range(pending))
  BY <1>1, <1>2, SequenceOf
<1>. QED
  BY <1>3, <1>4 DEF Typed, PageTypeOK

LEMMA MountsFacts ==
  ASSUME NEW tab
  PROVE  /\ Mounts(tab) \in Seq(Requests)
         /\ \A r \in Range(Mounts(tab)) : r.kind \notin {"auth", "poll"}
<1>1. Request("fetch", 0) \in Requests /\ Request("profiles", 0) \in Requests
  BY KindsAre, NewRequest
<1>2. Request("fetch", 0).kind = "fetch" /\ Request("profiles", 0).kind = "profiles"
  BY DEF Request
<1>3. CASE tab = "channels"
  BY <1>1, <1>2, <1>3 DEF Mounts, Range
<1>4. CASE tab # "channels"
  BY <1>1, <1>2, <1>4 DEF Mounts, Range
<1>. QED
  BY <1>3, <1>4

(* Showing the page anew: what is still there keeps its state, and whose   *)
(* component has gone is told apart.                                       *)
LEMMA RenderFacts ==
  ASSUME page \in Page, NEW p \in Page, NEW requests \in Seq(Requests), Render(p, requests)
  PROVE  /\ page' \in Page /\ page'.tab = p.tab /\ page'.list = p.list
         /\ \A c : CardShown(page', c) <=> CardShown(p, c)
         /\ \A c \in Channels : page'.card[c] = IF CardShown(p, c) THEN p.card[c] ELSE NewCard
         /\ pending' \in Seq(Requests)
         /\ MineShown'
         /\ p.tab = page.tab /\ (\A r \in Range(requests) : r.mine => StillMine(p, r))
              => pending' = requests
<1>. DEFINE gone == {c \in Channels : CardShown(page, c) /\ ~CardShown(p, c)}
            moved == p.tab # page.tab
            card == [c \in Channels |-> IF CardShown(p, c) THEN p.card[c] ELSE NewCard]
            orphans == p.orphans \/ \E c \in gone : Timers(p.card[c])
            next == [p EXCEPT !.card = card, !.orphans = orphans,
                              !.submitting = @ /\ ~moved, !.uploading = @ /\ ~moved,
                              !.actionLoading = IF moved THEN 0 ELSE @]
            kept == [k \in DOMAIN requests |->
                       [requests[k] EXCEPT !.mine = @ /\ StillMine(p, requests[k])]]
            more == IF moved THEN Mounts(p.tab) ELSE <<>>
<1>1. page' = next /\ pending' = kept \o more
  BY DEF Render
<1>2. NewCard \in Card /\ p.card \in [Channels -> Card]
  BY DEF NewCard, Card, Page
<1>3. card \in [Channels -> Card] /\ orphans \in BOOLEAN /\ moved \in BOOLEAN
  BY <1>2 DEF Page
<1>. HIDE DEF card, orphans, moved
<1>4. /\ next \in Page /\ next.tab = p.tab /\ next.list = p.list /\ next.card = card
  BY <1>3 DEF Page
<1>5. /\ page' \in Page /\ page'.tab = p.tab /\ page'.list = p.list /\ page'.card = card
      /\ \A c : CardShown(page', c) <=> CardShown(p, c)
  BY <1>1, <1>4 DEF CardShown
<1>. HIDE DEF next
<1>6. \A c \in Channels : card[c] = IF CardShown(p, c) THEN p.card[c] ELSE NewCard
  BY DEF card
<1>7. ASSUME NEW j \in DOMAIN requests
      PROVE  /\ kept[j] \in Requests
             /\ kept[j].kind = requests[j].kind /\ kept[j].of = requests[j].of
             /\ kept[j].mine => StillMine(p, requests[j])
             /\ (requests[j].mine => StillMine(p, requests[j])) => kept[j] = requests[j]
  <2>1. requests[j] \in Requests /\ requests[j].mine \in BOOLEAN
    BY RequestFields
  <2>. DEFINE mine == requests[j].mine /\ StillMine(p, requests[j])
  <2>2. kept[j] = [requests[j] EXCEPT !.mine = mine]
    OBVIOUS
  <2>3. mine \in BOOLEAN /\ (mine => StillMine(p, requests[j]))
    BY <2>1
  <2>4. (requests[j].mine => StillMine(p, requests[j])) => mine = requests[j].mine
    BY <2>1
  <2>. HIDE DEF kept, mine
  <2>5. /\ kept[j] \in Requests /\ kept[j].kind = requests[j].kind
        /\ kept[j].of = requests[j].of /\ kept[j].mine = mine
        /\ mine = requests[j].mine => kept[j] = requests[j]
    BY <2>1, <2>2, <2>3, RequestKept
  <2>. QED
    BY <2>3, <2>4, <2>5
<1>8. kept = [j \in DOMAIN requests |-> kept[j]]
  OBVIOUS
<1>. HIDE DEF kept
<1>9. /\ kept \in Seq(Requests) /\ Len(kept) = Len(requests)
      /\ Range(kept) = {kept[j] : j \in DOMAIN requests}
  BY <1>7, <1>8, SequenceOf
<1>10. more \in Seq(Requests) /\ \A r \in Range(more) : r.kind \notin {"auth", "poll"}
  BY MountsFacts DEF Range
<1>11. more # <<>> => moved
  OBVIOUS
<1>. HIDE DEF more
<1>12. pending' \in Seq(Requests) /\ Range(pending') = Range(kept) \cup Range(more)
  BY <1>1, <1>9, <1>10, RangeConcat
<1>13. ASSUME NEW r \in Range(pending'), r.mine, r.kind \in {"auth", "poll"}
       PROVE  CardShown(page', r.of)
  <2>1. PICK j \in DOMAIN requests : r = kept[j]
    BY <1>9, <1>10, <1>12, <1>13
  <2>2. CardShown(p, requests[j].of)
    BY <1>7, <1>13, <2>1 DEF StillMine
  <2>. QED
    BY <1>5, <1>7, <2>1, <2>2
<1>14. MineShown'
  BY <1>13 DEF MineShown, CardShown
<1>15. ASSUME p.tab = page.tab, \A r \in Range(requests) : r.mine => StillMine(p, r)
       PROVE  pending' = requests
  <2>1. more = <<>>
    BY <1>11, <1>15 DEF moved
  <2>2. \A j \in DOMAIN requests : kept[j] = requests[j]
    BY <1>7, <1>15 DEF Range
  <2>3. kept = requests
    <3>1. \A j \in 1 .. Len(kept) : kept[j] = requests[j]
      BY <1>9, <2>2
    <3>. QED
      BY <1>9, <3>1, SameSequence
  <2>4. pending' = kept
    BY <1>1, <1>9, <2>1
  <2>. QED
    BY <2>3, <2>4
<1>. QED
  BY <1>5, <1>6, <1>12, <1>14, <1>15

(* What EndsForAReason says of a step.                                     *)
Reason ==
  \A c \in Channels :
    (page.card[c].authorizing /\ CardShown(page, c) /\ CardShown(page', c)
       /\ ~page'.card[c].authorizing)
      => page'.card[c].error # "none" \/ page'.list[c] # 0 \/ UNCHANGED pending

(* The page p stops no card that the page shows without saying why.        *)
Honest(p) ==
  \A c \in Channels :
    (page.card[c].authorizing /\ ~p.card[c].authorizing)
      => p.card[c].error # "none" \/ p.list[c] # 0

LEMMA ShownAnew ==
  ASSUME PageInv, NEW p \in Page, NEW requests \in Seq(Requests), Render(p, requests),
         row' \in Rows, profile' \in OAuthProfiles, opened' \subseteq Sessions,
         acts' \in 0 .. MaxActs
  PROVE  /\ PageInv'
         /\ Honest(p) => Reason
<1>1. /\ page' \in Page /\ page'.tab = p.tab /\ page'.list = p.list
      /\ \A c : CardShown(page', c) <=> CardShown(p, c)
      /\ \A c \in Channels : page'.card[c] = IF CardShown(p, c) THEN p.card[c] ELSE NewCard
      /\ pending' \in Seq(Requests) /\ MineShown'
  BY RenderFacts DEF PageInv, Typed
<1>2. PageInv'
  BY <1>1 DEF PageInv, Typed
<1>3. Honest(p) => Reason
  BY <1>1 DEF Honest, Reason
<1>. QED
  BY <1>2, <1>3

LEMMA Asked ==
  ASSUME PageInv, NEW p \in Page, NEW kind \in Kinds, NEW of \in {0} \cup Channels \cup Profiles,
         Ask(p, kind, of), row' \in Rows, profile' \in OAuthProfiles, opened' \subseteq Sessions,
         acts' \in 0 .. MaxActs
  PROVE  /\ PageInv'
         /\ Honest(p) => Reason
<1>1. Append(pending, Request(kind, of)) \in Seq(Requests)
  BY NewRequest DEF PageInv, Typed
<1>. QED
  BY <1>1, ShownAnew DEF Ask

LEMMA ServerStays ==
  ASSUME PageInv, UNCHANGED server
  PROVE  row' \in Rows /\ profile' \in OAuthProfiles
BY DEF server, PageInv, Typed

LEMMA OpenedStays ==
  ASSUME PageInv, UNCHANGED opened
  PROVE  opened' \subseteq Sessions
BY DEF PageInv, Typed

LEMMA ActsStay ==
  ASSUME PageInv, Act \/ UNCHANGED acts
  PROVE  acts' \in 0 .. MaxActs
BY PageConstants DEF PageConstants, Act, PageInv, Typed

LEMMA OnCardFacts ==
  ASSUME page \in Page, NEW c \in Channels, NEW card \in Card
  PROVE  /\ OnCard(c, card) \in Page
         /\ OnCard(c, card).tab = page.tab /\ OnCard(c, card).list = page.list
         /\ OnCard(c, card).card = [page.card EXCEPT ![c] = card]
         /\ card.authorizing \/ card.error # "none" \/ page.list[c] # 0
              => Honest(OnCard(c, card))
<1>1. page.card \in [Channels -> Card]
  BY DEF Page
<1>2. [page.card EXCEPT ![c] = card] \in [Channels -> Card]
  BY <1>1
<1>3. /\ OnCard(c, card) \in Page
      /\ OnCard(c, card).tab = page.tab /\ OnCard(c, card).list = page.list
      /\ OnCard(c, card).card = [page.card EXCEPT ![c] = card]
  BY <1>2 DEF OnCard, Page
<1>4. ASSUME card.authorizing \/ card.error # "none" \/ page.list[c] # 0
      PROVE  Honest(OnCard(c, card))
  BY <1>1, <1>3, <1>4 DEF Honest
<1>. QED
  BY <1>3, <1>4

(* A page whose cards are those of the page.                               *)
LEMMA SameCards ==
  ASSUME NEW p, p.card = page.card
  PROVE  Honest(p)
BY DEF Honest

-----------------------------------------------------------------------------
(* The gestures and the timers. *)

LEMMA NumbersAre ==
  /\ 0 \in {0} \cup Channels \cup Profiles
  /\ Channels \subseteq {0} \cup Channels \cup Profiles
  /\ Profiles \subseteq {0} \cup Channels \cup Profiles
  /\ Kinds = {"fetch", "poll", "added", "connected", "profiles", "uploaded", "acted",
              "auth", "refresh", "patch", "add", "delete", "upload", "remove", "default"}
BY DEF Kinds, ListKinds, ProfileKinds

LEMMA GoToReason ==
  ASSUME PageInv, NEW tab \in {"channels", "oauth"}, GoTo(tab)
  PROVE  PageInv' /\ Reason
<1>. DEFINE p == [page EXCEPT !.tab = tab]
<1>1. Render(p, pending) /\ Act /\ UNCHANGED <<server, opened>>
  BY DEF GoTo
<1>2. page \in Page /\ pending \in Seq(Requests)
  BY DEF PageInv, Typed
<1>3. p \in Page /\ p.card = page.card
  BY <1>2 DEF Page
<1>. HIDE DEF p
<1>. QED
  BY <1>1, <1>2, <1>3, ShownAnew, SameCards, ServerStays, OpenedStays, ActsStay

(* What the buttons of a card leave it with.                               *)
LEMMA CardFacts ==
  ASSUME page \in Page, NEW c \in Channels
  PROVE  LET card == page.card[c] IN
         /\ card \in Card
         /\ [card EXCEPT !.authorizing = TRUE, !.error = "none"] \in Card
         /\ [card EXCEPT !.authorizing = TRUE, !.error = "none"].authorizing
         /\ [StopPolling(card) EXCEPT !.authorizing = FALSE] \in Card
         /\ GaveUp(card) \in Card /\ GaveUp(card).error = "timeout"
         /\ [card EXCEPT !.count = @ + 1] \in Card
         /\ [card EXCEPT !.count = @ + 1].authorizing = card.authorizing
<1>. DEFINE card == page.card[c]
<1>1. card \in Card
  BY DEF Page
<1>. HIDE DEF card
<1>2. StopPolling(card) \in Card
  BY <1>1 DEF Card, StopPolling
<1>3. /\ [StopPolling(card) EXCEPT !.authorizing = FALSE] \in Card
      /\ GaveUp(card) \in Card /\ GaveUp(card).error = "timeout"
  BY <1>2 DEF Card, GaveUp
<1>4. /\ [card EXCEPT !.authorizing = TRUE, !.error = "none"] \in Card
      /\ [card EXCEPT !.authorizing = TRUE, !.error = "none"].authorizing
  BY <1>1 DEF Card
<1>5. /\ [card EXCEPT !.count = @ + 1] \in Card
      /\ [card EXCEPT !.count = @ + 1].authorizing = card.authorizing
  BY <1>1 DEF Card
<1>. QED
  BY <1>1, <1>3, <1>4, <1>5 DEF card

LEMMA AuthorizeReason ==
  ASSUME PageInv, NEW c \in Channels, HandleAuthorize(c)
  PROVE  PageInv' /\ Reason
<1>. DEFINE card == [page.card[c] EXCEPT !.authorizing = TRUE, !.error = "none"]
<1>1. Ask(OnCard(c, card), "auth", c) /\ Act /\ UNCHANGED <<server, opened>>
  BY DEF HandleAuthorize
<1>2. page \in Page
  BY DEF PageInv, Typed
<1>3. card \in Card /\ card.authorizing
  BY <1>2, CardFacts
<1>. HIDE DEF card
<1>4. OnCard(c, card) \in Page /\ Honest(OnCard(c, card))
  BY <1>2, <1>3, OnCardFacts
<1>5. "auth" \in Kinds /\ c \in {0} \cup Channels \cup Profiles
  BY NumbersAre
<1>. QED
  BY <1>1, <1>4, <1>5, Asked, ServerStays, OpenedStays, ActsStay

(* Cancelling leaves the requests alone, the component that made them is   *)
(* still there.                                                            *)
LEMMA CancelReason ==
  ASSUME PageInv, NEW c \in Channels, HandleCancel(c)
  PROVE  PageInv' /\ Reason
<1>. DEFINE card == [StopPolling(page.card[c]) EXCEPT !.authorizing = FALSE]
            p == OnCard(c, card)
<1>1. Render(p, pending) /\ UNCHANGED <<server, opened, acts>>
  BY DEF HandleCancel
<1>2. page \in Page /\ pending \in Seq(Requests) /\ MineShown
  BY DEF PageInv, Typed
<1>3. card \in Card
  BY <1>2, CardFacts
<1>. HIDE DEF card
<1>4. p \in Page /\ p.tab = page.tab /\ p.list = page.list
  BY <1>2, <1>3, OnCardFacts
<1>. HIDE DEF p
<1>5. \A r \in Range(pending) : r.mine => StillMine(p, r)
  BY <1>2, <1>4 DEF MineShown, StillMine, CardShown
<1>6. UNCHANGED pending
  BY <1>1, <1>2, <1>4, <1>5, RenderFacts
<1>7. Reason
  BY <1>6 DEF Reason
<1>. QED
  BY <1>1, <1>2, <1>4, <1>7, ShownAnew, ServerStays, OpenedStays, ActsStay

LEMMA TickReason ==
  ASSUME PageInv, NEW c \in Channels, Tick(c)
  PROVE  PageInv' /\ Reason
<1>. DEFINE card == page.card[c]
<1>1. page \in Page /\ pending \in Seq(Requests)
  BY DEF PageInv, Typed
<1>2. UNCHANGED <<server, opened, acts>>
  BY DEF Tick
<1>3. CASE Render(OnCard(c, GaveUp(card)), pending)
  <2>1. GaveUp(card) \in Card /\ GaveUp(card).error # "none"
    BY <1>1, CardFacts
  <2>2. OnCard(c, GaveUp(card)) \in Page /\ Honest(OnCard(c, GaveUp(card)))
    BY <1>1, <2>1, OnCardFacts
  <2>. QED
    BY <1>1, <1>2, <1>3, <2>2, ShownAnew, ServerStays, OpenedStays, ActsStay
<1>4. CASE Ask(OnCard(c, [card EXCEPT !.count = @ + 1]), "poll", c)
  <2>. DEFINE more == [card EXCEPT !.count = @ + 1]
              p == OnCard(c, more)
  <2>1. more \in Card /\ more.authorizing = card.authorizing
    BY <1>1, CardFacts
  <2>2. Ask(p, "poll", c)
    BY <1>4
  <2>. HIDE DEF more
  <2>3. p \in Page /\ p.card = [page.card EXCEPT ![c] = more]
    BY <1>1, <2>1, OnCardFacts
  <2>. HIDE DEF p
  <2>4. Honest(p)
    BY <1>1, <2>1, <2>3 DEF Honest, Page
  <2>5. "poll" \in Kinds /\ c \in {0} \cup Channels \cup Profiles
    BY NumbersAre
  <2>. QED
    BY <1>2, <2>2, <2>3, <2>4, <2>5, Asked, ServerStays, OpenedStays, ActsStay
<1>. QED
  BY <1>3, <1>4 DEF Tick

LEMMA OrphanReason ==
  ASSUME PageInv, OrphanTick
  PROVE  PageInv' /\ Reason
<1>1. page \in Page /\ pending \in Seq(Requests) /\ UNCHANGED <<server, opened, acts>>
  BY DEF PageInv, Typed, OrphanTick
<1>2. CASE Ask(page, "fetch", 0)
  <2>1. "fetch" \in Kinds /\ 0 \in {0} \cup Channels \cup Profiles
    BY NumbersAre
  <2>. QED
    BY <1>1, <1>2, <2>1, Asked, SameCards, ServerStays, OpenedStays, ActsStay
<1>3. CASE Render([page EXCEPT !.orphans = FALSE], pending)
  <2>. DEFINE p == [page EXCEPT !.orphans = FALSE]
  <2>1. p \in Page /\ p.card = page.card
    BY <1>1 DEF Page
  <2>2. Render(p, pending)
    BY <1>3
  <2>. HIDE DEF p
  <2>. QED
    BY <1>1, <2>1, <2>2, ShownAnew, SameCards, ServerStays, OpenedStays, ActsStay
<1>. QED
  BY <1>2, <1>3 DEF OrphanTick

(* The forms and buttons of the two tabs touch no card.                    *)
LEMMA FormsReason ==
  ASSUME PageInv,
         \/ HandleSubmit \/ HandleUpload
         \/ \E c \in Channels : HandleRevoke(c)
         \/ \E q \in Profiles : HandlePatch(q) \/ HandleDelete(q) \/ HandleSetDefault(q)
  PROVE  PageInv' /\ Reason
<1>1. page \in Page /\ UNCHANGED <<server, opened>> /\ Act
  BY DEF PageInv, Typed, HandleSubmit, HandleUpload, HandleRevoke, HandlePatch, HandleDelete,
     HandleSetDefault, ActsOn
<1>2. /\ [page EXCEPT !.submitting = TRUE] \in Page
      /\ [page EXCEPT !.uploading = TRUE] \in Page
      /\ \A q \in Profiles : [page EXCEPT !.actionLoading = q] \in Page
      /\ [page EXCEPT !.submitting = TRUE].card = page.card
      /\ [page EXCEPT !.uploading = TRUE].card = page.card
      /\ \A q \in Profiles : [page EXCEPT !.actionLoading = q].card = page.card
  BY <1>1 DEF Page
<1>3. PICK p \in Page, kind \in Kinds, of \in {0} \cup Channels \cup Profiles :
        p.card = page.card /\ Ask(p, kind, of)
  <2>1. CASE HandleSubmit
    BY <1>2, <2>1, NumbersAre DEF HandleSubmit
  <2>2. CASE HandleUpload
    BY <1>2, <2>2, NumbersAre DEF HandleUpload
  <2>3. ASSUME NEW c \in Channels, HandleRevoke(c)
        PROVE  Ask(page, "delete", c)
    BY <2>3 DEF HandleRevoke
  <2>4. ASSUME NEW q \in Profiles, HandlePatch(q)
        PROVE  Ask(page, "patch", q)
    BY <2>4 DEF HandlePatch
  <2>5. ASSUME NEW q \in Profiles, HandleDelete(q) \/ HandleSetDefault(q)
        PROVE  \E kind \in {"remove", "default"} :
                 Ask([page EXCEPT !.actionLoading = q], kind, q)
    BY <2>5 DEF HandleDelete, HandleSetDefault, ActsOn
  <2>. QED
    BY <1>1, <1>2, <2>1, <2>2, <2>3, <2>4, <2>5, NumbersAre
<1>. QED
  BY <1>1, <1>3, Asked, SameCards, ServerStays, OpenedStays, ActsStay

-----------------------------------------------------------------------------
(* The server and the sessions. *)

LEMMA PageStays ==
  ASSUME PageInv, UNCHANGED <<page, pending>>, row' \in Rows, profile' \in OAuthProfiles,
         opened' \subseteq Sessions, acts' \in 0 .. MaxActs
  PROVE  PageInv' /\ Reason
BY DEF PageInv, Typed, MineShown, Reason, CardShown

LEMMA Replied ==
  ASSUME PageInv, NEW k \in DOMAIN pending, NEW reply \in Replies(pending[k].kind),
         Reply(k, reply), UNCHANGED page, row' \in Rows, profile' \in OAuthProfiles,
         opened' \subseteq Sessions, acts' \in 0 .. MaxActs
  PROVE  PageInv' /\ Reason
<1>. DEFINE r == [pending[k] EXCEPT !.reply = reply]
<1>1. pending \in Seq(Requests) /\ pending[k] \in Requests
  BY DEF PageInv, Typed
<1>2. /\ r \in Requests /\ r.kind = pending[k].kind /\ r.of = pending[k].of
      /\ r.mine = pending[k].mine
  BY <1>1, RequestReplied
<1>3. pending' = [pending EXCEPT ![k] = r]
  BY DEF Reply
<1>. HIDE DEF r
<1>4. /\ pending' \in Seq(Requests)
      /\ Range(pending') = {pending[j] : j \in DOMAIN pending \ {k}} \cup {r}
  <2>. DEFINE t == [pending EXCEPT ![k] = r]
  <2>1. r \in Requests
    BY <1>2
  <2>2. /\ t \in Seq(Requests)
        /\ Range(t) = {pending[j] : j \in DOMAIN pending \ {k}} \cup {r}
    BY <1>1, <2>1, RangeReplaced
  <2>. HIDE DEF t
  <2>. QED
    BY <1>3, <2>2 DEF t
<1>5. MineShown'
  BY <1>2, <1>4 DEF PageInv, MineShown, CardShown, Range
<1>6. PageInv'
  BY <1>4, <1>5 DEF PageInv, Typed
<1>7. Reason
  BY DEF Reason
<1>. QED
  BY <1>6, <1>7

(* The rows of channels and of profiles, as the handlers write them.       *)
LEMMA RowFacts ==
  ASSUME PageInv
  PROVE  /\ row \in [DOMAIN row -> Row] /\ DOMAIN row \subseteq Channels
         /\ profile \in [DOMAIN profile -> OAuthProfile] /\ DOMAIN profile \subseteq Profiles
         /\ \A here \in SUBSET Channels : [here -> Row] \subseteq Rows
         /\ \A here \in SUBSET Channels : [here -> Tokens] \subseteq Lists
         /\ \A here \in SUBSET Profiles : [here -> OAuthProfile] \subseteq OAuthProfiles
<1>1. PICK rows \in SUBSET Channels : row \in [rows -> Row]
  BY DEF PageInv, Typed, Rows
<1>2. PICK kept \in SUBSET Profiles : profile \in [kept -> OAuthProfile]
  BY DEF PageInv, Typed, OAuthProfiles
<1>3. /\ \A here \in SUBSET Channels : [here -> Row] \subseteq Rows
      /\ \A here \in SUBSET Channels : [here -> Tokens] \subseteq Lists
      /\ \A here \in SUBSET Profiles : [here -> OAuthProfile] \subseteq OAuthProfiles
  BY DEF Rows, Lists, OAuthProfiles
<1>. QED
  BY <1>1, <1>2, <1>3

LEMMA TokensAre == 0 \in Tokens /\ (\A s \in Sessions : s + 1 \in Tokens)
BY SessionConstants DEF SessionConstants, Sessions, Tokens

LEMMA TokenWritten ==
  ASSUME PageInv, NEW c, NEW token \in Tokens, UpdateTokens(c, token)
  PROVE  row' \in Rows
<1>1. row \in [DOMAIN row -> Row] /\ DOMAIN row \subseteq Channels
  BY RowFacts
<1>2. CASE c \in DOMAIN row
  <2>1. [row[c] EXCEPT !.token = token] \in Row
    BY <1>1, <1>2 DEF Row
  <2>2. row' = [row EXCEPT ![c] = [row[c] EXCEPT !.token = token]]
    BY <1>2 DEF UpdateTokens
  <2>3. row' \in [DOMAIN row -> Row]
    BY <1>1, <2>1, <2>2
  <2>. QED
    BY <1>1, <2>3, RowFacts
<1>3. CASE c \notin DOMAIN row
  BY <1>3 DEF UpdateTokens, PageInv, Typed
<1>. QED
  BY <1>2, <1>3

LEMMA ServeRows ==
  ASSUME PageInv, NEW k \in DOMAIN pending,
         GetChannels(k) \/ PostChannel(k) \/ DeleteChannel(k) \/ RefreshToken(k)
  PROVE  PageInv' /\ Reason
<1>1. /\ UNCHANGED <<profile, opened, page, acts>>
  BY DEF GetChannels, PostChannel, DeleteChannel, RefreshToken, OnlyRows
<1>2. profile' \in OAuthProfiles /\ opened' \subseteq Sessions /\ acts' \in 0 .. MaxActs
  BY <1>1 DEF PageInv, Typed
<1>3. row \in [DOMAIN row -> Row] /\ DOMAIN row \subseteq Channels /\ row \in Rows
  BY RowFacts DEF PageInv, Typed
<1>4. CASE GetChannels(k)
  <2>. DEFINE list == [c \in DOMAIN row |-> row[c].token]
  <2>1. list \in [DOMAIN row -> Tokens]
    BY <1>3 DEF Row
  <2>2. Reply(k, list) /\ UNCHANGED row /\ pending[k].kind \in ListKinds
    BY <1>4 DEF GetChannels, Gives, ListKinds
  <2>. HIDE DEF list
  <2>3. list \in Replies(pending[k].kind)
    BY <1>3, <2>1, <2>2, RowFacts, KindsAre
  <2>. QED
    BY <1>1, <1>2, <1>3, <2>2, <2>3, Replied
<1>5. CASE PostChannel(k)
  <2>1. PICK c \in Channels : row' = Inserted(row, c, [profile |-> 0, token |-> 0])
    BY <1>5 DEF PostChannel
  <2>2. [profile |-> 0, token |-> 0] \in Row
    BY TokensAre DEF Row
  <2>3. row' \in [DOMAIN row \cup {c} -> Row] /\ DOMAIN row \cup {c} \subseteq Channels
    BY <1>3, <2>1, <2>2 DEF Inserted
  <2>4. row' \in Rows
    BY <2>3, RowFacts
  <2>5. Reply(k, Done) /\ Done \in Replies(pending[k].kind)
    BY <1>5, KindsAre DEF PostChannel, Gives
  <2>. QED
    BY <1>1, <1>2, <2>4, <2>5, Replied
<1>6. CASE DeleteChannel(k)
  <2>. DEFINE left == DOMAIN row \ {pending[k].of}
  <2>1. row' = [c \in left |-> row[c]] /\ Reply(k, Done)
    BY <1>6 DEF DeleteChannel
  <2>2. row' \in [left -> Row] /\ left \in SUBSET Channels
    BY <1>3, <2>1
  <2>3. row' \in Rows
    BY <2>2, RowFacts
  <2>4. Done \in Replies(pending[k].kind)
    BY <1>6, KindsAre DEF DeleteChannel, Gives
  <2>. QED
    BY <1>1, <1>2, <2>1, <2>3, <2>4, Replied
<1>7. CASE RefreshToken(k)
  <2>. DEFINE c == pending[k].of
  <2>1. pending[k].kind = "refresh" /\ Replies("refresh") = {Null, Refused, Done} \cup Tokens
    BY <1>7, KindsAre DEF RefreshToken, Gives
  <2>2. CASE /\ Reply(k, IF CanStart(c) /\ row[c].token # 0 THEN row[c].token ELSE Refused)
             /\ UNCHANGED row
    <3>. DEFINE reply == IF CanStart(c) /\ row[c].token # 0 THEN row[c].token ELSE Refused
    <3>1. reply \in Tokens \cup {Refused}
      BY <1>3 DEF CanStart, Row
    <3>2. Reply(k, reply) /\ UNCHANGED row
      BY <2>2
    <3>. HIDE DEF reply
    <3>3. reply \in Replies(pending[k].kind)
      BY <2>1, <3>1
    <3>. QED
      BY <1>1, <1>2, <1>3, <3>2, <3>3, Replied
  <2>3. CASE /\ pending[k].reply \in Tokens \ {0} /\ UpdateTokens(c, pending[k].reply)
             /\ Reply(k, Done)
    <3>1. row' \in Rows
      BY <2>3, TokenWritten
    <3>2. Done \in Replies(pending[k].kind)
      BY <2>1
    <3>. QED
      BY <1>1, <1>2, <2>3, <3>1, <3>2, Replied
  <2>. QED
    BY <1>7, <2>2, <2>3 DEF RefreshToken
<1>. QED
  BY <1>4, <1>5, <1>6, <1>7

LEMMA ServeProfiles ==
  ASSUME PageInv, NEW k \in DOMAIN pending,
         \/ ListProfiles(k) \/ PostOAuthProfile(k) \/ PatchOAuthProfile(k)
         \/ DeleteOAuthProfile(k) \/ SetDefault(k)
  PROVE  PageInv' /\ Reason
<1>1. /\ UNCHANGED <<opened, page, acts>>
  BY DEF ListProfiles, PostOAuthProfile, PatchOAuthProfile, DeleteOAuthProfile, SetDefault,
     OnlyProfiles
<1>2. opened' \subseteq Sessions /\ acts' \in 0 .. MaxActs
  BY <1>1 DEF PageInv, Typed
<1>3. /\ row \in [DOMAIN row -> Row] /\ DOMAIN row \subseteq Channels /\ row \in Rows
      /\ profile \in [DOMAIN profile -> OAuthProfile] /\ DOMAIN profile \subseteq Profiles
      /\ profile \in OAuthProfiles
  BY RowFacts DEF PageInv, Typed
<1>4. pending[k] \in Requests
  BY DEF PageInv, Typed
<1>5. CASE ListProfiles(k)
  <2>1. Reply(k, profile) /\ UNCHANGED <<row, profile>> /\ pending[k].kind \in ProfileKinds
    BY <1>5 DEF ListProfiles, Gives, ProfileKinds
  <2>2. profile \in Replies(pending[k].kind)
    BY <1>3, <2>1, KindsAre
  <2>. QED
    BY <1>1, <1>2, <1>3, <2>1, <2>2, Replied
<1>6. CASE PostOAuthProfile(k)
  <2>1. PICK p \in Profiles :
          profile' = Inserted(profile, p, [default |-> FALSE, ready |-> TRUE])
    BY <1>6 DEF PostOAuthProfile
  <2>2. [default |-> FALSE, ready |-> TRUE] \in OAuthProfile
    BY DEF OAuthProfile
  <2>3. /\ profile' \in [DOMAIN profile \cup {p} -> OAuthProfile]
        /\ DOMAIN profile \cup {p} \subseteq Profiles
    BY <1>3, <2>1, <2>2 DEF Inserted
  <2>4. profile' \in OAuthProfiles
    BY <2>3, RowFacts
  <2>5. Reply(k, Done) /\ Done \in Replies(pending[k].kind) /\ UNCHANGED row
    BY <1>6, KindsAre DEF PostOAuthProfile, Gives
  <2>. QED
    BY <1>1, <1>2, <1>3, <2>4, <2>5, Replied
<1>7. CASE PatchOAuthProfile(k)
  <2>. DEFINE p == pending[k].of
              r == pending[k].reply
  <2>1. /\ pending[k].kind = "patch" /\ UNCHANGED row
        /\ Replies("patch") = {Null, Refused, Done} \cup OAuthProfile
    BY <1>7, KindsAre DEF PatchOAuthProfile
  <2>2. CASE /\ Reply(k, IF p \in DOMAIN profile THEN profile[p] ELSE Refused)
             /\ UNCHANGED profile
    <3>. DEFINE reply == IF p \in DOMAIN profile THEN profile[p] ELSE Refused
    <3>1. reply \in OAuthProfile \cup {Refused}
      BY <1>3
    <3>2. Reply(k, reply) /\ UNCHANGED profile
      BY <2>2
    <3>. HIDE DEF reply
    <3>3. reply \in Replies(pending[k].kind)
      BY <2>1, <3>1
    <3>. QED
      BY <1>1, <1>2, <1>3, <2>1, <3>2, <3>3, Replied
  <2>3. CASE /\ r \notin {Null, Refused, Done}
             /\ profile' = IF p \in DOMAIN profile
                             THEN [profile EXCEPT ![p] = [r EXCEPT !.ready = TRUE]]
                             ELSE profile
             /\ Reply(k, Done)
    <3>1. r \in OAuthProfile
      BY <1>4, <2>1, <2>3, RequestFields
    <3>2. [r EXCEPT !.ready = TRUE] \in OAuthProfile
      BY <3>1 DEF OAuthProfile
    <3>3. profile' \in [DOMAIN profile -> OAuthProfile]
      BY <1>3, <2>3, <3>2
    <3>4. profile' \in OAuthProfiles
      BY <1>3, <3>3, RowFacts
    <3>5. Done \in Replies(pending[k].kind)
      BY <2>1
    <3>. QED
      BY <1>1, <1>2, <1>3, <2>1, <2>3, <3>4, <3>5, Replied
  <2>. QED
    BY <1>7, <2>2, <2>3 DEF PatchOAuthProfile
<1>8. CASE DeleteOAuthProfile(k)
  <2>. DEFINE p == pending[k].of
              left == DOMAIN profile \ {p}
  <2>1. /\ profile' = [other \in left |-> profile[other]] /\ Reply(k, Done)
        /\ row' = [c \in DOMAIN row |-> IF row[c].profile = p
                                          THEN [row[c] EXCEPT !.profile = 0] ELSE row[c]]
    BY <1>8 DEF DeleteOAuthProfile
  <2>2. profile' \in [left -> OAuthProfile] /\ left \in SUBSET Profiles
    BY <1>3, <2>1
  <2>3. \A c \in DOMAIN row : [row[c] EXCEPT !.profile = 0] \in Row
    BY <1>3 DEF Row
  <2>4. row' \in [DOMAIN row -> Row]
    BY <1>3, <2>1, <2>3
  <2>5. row' \in Rows /\ profile' \in OAuthProfiles
    BY <1>3, <2>2, <2>4, RowFacts
  <2>6. Done \in Replies(pending[k].kind)
    BY <1>8, KindsAre DEF DeleteOAuthProfile, Gives
  <2>. QED
    BY <1>1, <1>2, <2>1, <2>5, <2>6, Replied
<1>9. CASE SetDefault(k)
  <2>1. /\ profile' = [p \in DOMAIN profile |->
                         [profile[p] EXCEPT !.default = p = pending[k].of]]
        /\ Reply(k, Done) /\ UNCHANGED row
    BY <1>9 DEF SetDefault
  <2>2. \A p \in DOMAIN profile :
          [profile[p] EXCEPT !.default = p = pending[k].of] \in OAuthProfile
    BY <1>3 DEF OAuthProfile
  <2>3. profile' \in [DOMAIN profile -> OAuthProfile]
    BY <2>1, <2>2
  <2>4. profile' \in OAuthProfiles
    BY <1>3, <2>3, RowFacts
  <2>5. Done \in Replies(pending[k].kind)
    BY <1>9, KindsAre DEF SetDefault, Gives
  <2>. QED
    BY <1>1, <1>2, <1>3, <2>1, <2>4, <2>5, Replied
<1>. QED
  BY <1>5, <1>6, <1>7, <1>8, <1>9

LEMMA RefusedOrNull ==
  ASSUME NEW r \in Requests PROVE Refused \in Replies(r.kind) /\ Null \in Replies(r.kind)
BY DEF Replies

LEMMA InitFlowReason ==
  ASSUME PageInv, TypeOK, NEW k \in DOMAIN pending, InitOAuthFlow(k)
  PROVE  PageInv' /\ Reason
<1>1. /\ UNCHANGED <<row, profile, opened, page>> /\ pending[k].kind = "auth"
      /\ Act \/ UNCHANGED acts
  BY DEF InitOAuthFlow, Gives
<1>2. /\ row' \in Rows /\ profile' \in OAuthProfiles /\ opened' \subseteq Sessions
      /\ acts' \in 0 .. MaxActs /\ pending[k] \in Requests
  BY <1>1, ActsStay DEF PageInv, Typed
<1>3. PICK reply \in {Refused} \cup Sessions : Reply(k, reply)
  <2>1. ASSUME StartSession(pending[k].of), Reply(k, started + 1)
        PROVE  started + 1 \in Sessions
    BY <2>1, SessionConstants DEF SessionConstants, StartSession, Sessions, TypeOK
  <2>. QED
    BY <2>1 DEF InitOAuthFlow
<1>4. reply \in Replies(pending[k].kind)
  BY <1>1, KindsAre
<1>. QED
  BY <1>1, <1>2, <1>3, <1>4, Replied

LEMMA FailsReason ==
  ASSUME PageInv, NEW k \in DOMAIN pending, Fails(k)
  PROVE  PageInv' /\ Reason
<1>1. /\ Reply(k, Refused) /\ UNCHANGED <<server, opened, page>> /\ Act
      /\ pending[k] \in Requests
  BY DEF Fails, PageInv, Typed
<1>. QED
  BY <1>1, RefusedOrNull, Replied, ServerStays, OpenedStays, ActsStay

LEMMA SessionReason ==
  ASSUME PageInv, TypeOK, SessionStep
  PROVE  PageInv' /\ Reason
<1>1. PICK s \in Started :
        \/ Act /\ UNCHANGED <<row, profile, opened, page, pending>>
        \/ UNCHANGED <<row, profile>> /\ Unpaged
        \/ UpdateTokens(session[s].channel, s + 1) /\ UNCHANGED profile /\ Unpaged
  BY DEF SessionStep
<1>2. s \in Sessions
  BY StartedFacts
<1>3. row' \in Rows
  BY <1>1, <1>2, TokensAre, TokenWritten DEF PageInv, Typed
<1>4. /\ UNCHANGED <<profile, opened, page, pending>> /\ (Act \/ UNCHANGED acts)
  BY <1>1 DEF Unpaged
<1>5. profile' \in OAuthProfiles
  BY <1>4 DEF PageInv, Typed
<1>. QED
  BY <1>3, <1>4, <1>5, PageStays, OpenedStays, ActsStay

-----------------------------------------------------------------------------
(* The answers. *)

LEMMA RestFacts ==
  ASSUME PageInv, NEW k \in DOMAIN pending
  PROVE  Rest(k) \in Seq(Requests)
<1>1. pending \in Seq(Requests)
  BY DEF PageInv, Typed
<1>. QED
  BY <1>1, RangeWithout DEF Rest, RemoveAt

LEMMA ShownRest ==
  ASSUME PageInv, NEW k \in DOMAIN pending, NEW p \in Page, Render(p, Rest(k)),
         UNCHANGED <<server, acts>>, opened' \subseteq Sessions
  PROVE  PageInv' /\ (Honest(p) => Reason)
BY RestFacts, ShownAnew, ServerStays, ActsStay

LEMMA ShownThen ==
  ASSUME PageInv, NEW k \in DOMAIN pending, NEW p \in Page, NEW kind \in Kinds,
         NEW of \in {0} \cup Channels \cup Profiles, Then(k, p, kind, of),
         UNCHANGED <<server, opened, acts>>
  PROVE  PageInv' /\ (Honest(p) => Reason)
<1>. DEFINE r == [pending[k] EXCEPT !.kind = kind, !.of = of, !.reply = Null]
<1>0. pending[k] \in Requests
  BY DEF PageInv, Typed
<1>1. r \in Requests
  BY <1>0, RequestThen
<1>2. Render(p, Append(Rest(k), r))
  BY DEF Then
<1>. HIDE DEF r
<1>3. Append(Rest(k), r) \in Seq(Requests)
  BY <1>1, RestFacts
<1>. QED
  BY <1>2, <1>3, ShownAnew, ServerStays, OpenedStays, ActsStay

(* A list that has come is a list of channels, and only it is shown anew.  *)
LEMMA ListedFacts ==
  ASSUME PageInv, NEW k \in DOMAIN pending, pending[k].reply # Null,
         pending[k].kind \in ListKinds
  PROVE  Listed(k) \in Page /\ Listed(k).card = page.card
<1>1. page \in Page /\ pending[k] \in Requests
  BY DEF PageInv, Typed
<1>2. Ok(k) => pending[k].reply \in Lists
  BY <1>1, RequestFields, KindsAre DEF Ok
<1>3. CASE Ok(k)
  <2>. DEFINE list == pending[k].reply
  <2>1. list \in Lists /\ Listed(k) = [page EXCEPT !.list = list]
    BY <1>2, <1>3 DEF Listed
  <2>. HIDE DEF list
  <2>. QED
    BY <1>1, <2>1 DEF Page
<1>4. CASE ~Ok(k)
  BY <1>1, <1>4 DEF Listed
<1>. QED
  BY <1>3, <1>4

LEMMA FetchReason ==
  ASSUME PageInv, NEW k \in DOMAIN pending, pending[k].reply # Null, FetchAnswered(k)
  PROVE  PageInv' /\ Reason
<1>1. /\ pending[k].kind \in ListKinds /\ Render(Listed(k), Rest(k))
      /\ UNCHANGED <<server, opened, acts>>
  BY DEF FetchAnswered, ListKinds
<1>2. Listed(k) \in Page /\ Listed(k).card = page.card
  BY <1>1, ListedFacts
<1>. QED
  BY <1>1, <1>2, ShownRest, SameCards, OpenedStays

LEMMA PollReason ==
  ASSUME PageInv, NEW k \in DOMAIN pending, pending[k].reply # Null, PollAnswered(k)
  PROVE  PageInv' /\ Reason
<1>. DEFINE c == pending[k].of
            p == Listed(k)
            card == [StopPolling(p.card[c]) EXCEPT !.authorizing = FALSE]
            q == [p EXCEPT !.card[c] = card]
<1>1. pending[k].kind \in ListKinds /\ UNCHANGED <<server, opened, acts>>
  BY DEF PollAnswered, ListKinds
<1>2. p \in Page /\ p.card = page.card /\ page \in Page
  BY <1>1, ListedFacts DEF PageInv, Typed
<1>3. CASE Render(p, Rest(k))
  BY <1>1, <1>2, <1>3, ShownRest, SameCards, OpenedStays
<1>4. CASE IsAuthorized(p, c) /\ Render(q, Rest(k))
  <2>1. c \in Channels /\ p.list[c] # 0
    BY <1>2, <1>4 DEF IsAuthorized, Page, Lists
  <2>2. card \in Card
    BY <1>2, <2>1, CardFacts
  <2>. HIDE DEF card, p, c
  <2>3. q \in Page /\ q.card = [p.card EXCEPT ![c] = card] /\ q.list = p.list
    BY <1>2, <2>1, <2>2 DEF Page
  <2>4. p.card \in [Channels -> Card]
    BY <1>2 DEF Page
  <2>5. Render(q, Rest(k))
    BY <1>4
  <2>. HIDE DEF q
  <2>6. Honest(q)
    BY <1>2, <2>1, <2>3, <2>4 DEF Honest
  <2>. QED
    BY <1>1, <2>3, <2>5, <2>6, ShownRest, OpenedStays
<1>. QED
  BY <1>3, <1>4 DEF PollAnswered

(* The answer to an attempt is of a card only while that card is shown.    *)
LEMMA InitReason ==
  ASSUME PageInv, NEW k \in DOMAIN pending, pending[k].reply # Null, InitAnswered(k)
  PROVE  PageInv' /\ Reason
<1>. DEFINE c == pending[k].of
            card == page.card[c]
            lost == [page EXCEPT !.orphans = @ \/ Ok(k)]
            timed == [card EXCEPT !.timer = TRUE, !.leaked = IF card.timer THEN @ + 1 ELSE @]
            failed == [card EXCEPT !.authorizing = FALSE, !.error = "failed"]
<1>1. /\ pending[k].kind = "auth" /\ UNCHANGED <<server, acts>>
      /\ opened' = IF Ok(k) THEN opened \cup {pending[k].reply} ELSE opened
  BY DEF InitAnswered
<1>2. page \in Page /\ pending[k] \in Requests /\ pending[k] \in Range(pending)
  BY DEF PageInv, Typed, Range
<1>3. Ok(k) => pending[k].reply \in Sessions
  BY <1>1, <1>2, RequestFields, KindsAre DEF Ok
<1>4. opened' \subseteq Sessions
  BY <1>1, <1>3 DEF PageInv, Typed
<1>5. CASE Render(lost, Rest(k))
  <2>1. lost \in Page /\ lost.card = page.card
    BY <1>2 DEF Page, Ok
  <2>. HIDE DEF lost
  <2>. QED
    BY <1>1, <1>4, <1>5, <2>1, ShownRest, SameCards
<1>6. CASE pending[k].mine /\ (Render(OnCard(c, timed), Rest(k))
                               \/ Render(OnCard(c, failed), Rest(k)))
  <2>1. c \in Channels
    <3>1. CardShown(page, c)
      BY <1>1, <1>2, <1>6 DEF PageInv, MineShown
    <3>. QED
      BY <1>2, <3>1 DEF CardShown, Page, Lists
  <2>2. card \in Card
    BY <1>2, <2>1, CardFacts
  <2>. HIDE DEF card, c
  <2>3. /\ timed \in Card /\ failed \in Card /\ failed.error = "failed"
        /\ timed.authorizing = card.authorizing
    <3>. DEFINE leaked == IF card.timer THEN card.leaked + 1 ELSE card.leaked
    <3>1. leaked \in Nat
      BY <2>2 DEF Card
    <3>2. timed = [card EXCEPT !.timer = TRUE, !.leaked = leaked]
      BY <2>2 DEF Card
    <3>. HIDE DEF timed, leaked
    <3>3. timed \in Card /\ timed.authorizing = card.authorizing
      BY <2>2, <3>1, <3>2 DEF Card
    <3>4. failed \in Card /\ failed.error = "failed"
      BY <2>2 DEF Card
    <3>. QED
      BY <3>3, <3>4
  <2>4. /\ Render(OnCard(c, timed), Rest(k)) \/ Render(OnCard(c, failed), Rest(k))
    BY <1>6
  <2>. HIDE DEF timed, failed
  <2>5. /\ OnCard(c, timed) \in Page /\ OnCard(c, failed) \in Page
        /\ OnCard(c, timed).card = [page.card EXCEPT ![c] = timed]
        /\ Honest(OnCard(c, failed))
    BY <1>2, <2>1, <2>3, OnCardFacts
  <2>6. Honest(OnCard(c, timed))
    BY <1>2, <2>1, <2>3, <2>5 DEF Honest, Page, card
  <2>. QED
    BY <1>1, <1>4, <2>4, <2>5, <2>6, ShownRest
<1>7. CASE ~pending[k].mine
  BY <1>5, <1>7 DEF InitAnswered
<1>8. CASE pending[k].mine
  BY <1>6, <1>8 DEF InitAnswered
<1>. QED
  BY <1>7, <1>8

LEMMA AddReason ==
  ASSUME PageInv, NEW k \in DOMAIN pending, pending[k].reply # Null, AddAnswered(k)
  PROVE  PageInv' /\ Reason
<1>. DEFINE p == IF pending[k].kind = "added" THEN Listed(k) ELSE page
            sent == [p EXCEPT !.submitting = @ /\ ~pending[k].mine]
<1>1. UNCHANGED <<server, opened, acts>>
  BY DEF AddAnswered
<1>2. page \in Page /\ pending[k] \in Requests /\ pending[k].mine \in BOOLEAN
  BY RequestFields DEF PageInv, Typed
<1>3. p \in Page /\ p.card = page.card
  BY <1>2, ListedFacts DEF ListKinds
<1>4. \/ Render(sent, Rest(k))
      \/ \E of \in {0, 1} : Then(k, p, "added", of)
  BY DEF AddAnswered
<1>. HIDE DEF p
<1>5. sent \in Page /\ sent.card = p.card
  BY <1>2, <1>3 DEF Page
<1>. HIDE DEF sent
<1>6. CASE Render(sent, Rest(k))
  BY <1>1, <1>3, <1>5, <1>6, ShownRest, SameCards, OpenedStays
<1>7. ASSUME NEW of \in {0, 1}, Then(k, p, "added", of) PROVE PageInv' /\ Reason
  <2>1. of \in {0} \cup Channels \cup Profiles /\ "added" \in Kinds
    BY PageConstants, NumbersAre DEF PageConstants
  <2>. QED
    BY <1>1, <1>3, <1>7, <2>1, ShownThen, SameCards
<1>. QED
  BY <1>4, <1>6, <1>7

LEMMA DeleteReason ==
  ASSUME PageInv, NEW k \in DOMAIN pending, DeleteAnswered(k) \/ RefreshAnswered(k)
  PROVE  PageInv' /\ Reason
<1>1. UNCHANGED <<server, opened, acts>> /\ page \in Page
  BY DEF DeleteAnswered, RefreshAnswered, PageInv, Typed
<1>2. Then(k, page, "fetch", 0) \/ Render(page, Rest(k))
  BY DEF DeleteAnswered, RefreshAnswered
<1>. QED
  BY <1>1, <1>2, ShownThen, ShownRest, SameCards, OpenedStays, NumbersAre

(* A set of requests, one for each channel of a list, can be put in order. *)
LEMMA RefreshesFacts ==
  ASSUME NEW list \in Lists
  PROVE  Refreshes(list) \in Seq(Requests)
<1>. DEFINE some == {d \in DOMAIN list : list[d] # 0}
            all == {Request("refresh", c) : c \in some}
            each == [c \in some |-> Request("refresh", c)]
<1>1. some \in SUBSET Channels /\ IsFiniteSet(Channels)
  BY PageConstants DEF PageConstants, Lists
<1>2. IsFiniteSet(some)
  BY <1>1, FS_Subset
<1>3. each \in Surjection(some, all)
  BY DEF Surjection
<1>4. all \subseteq Requests
  BY <1>1, NewRequest, NumbersAre
<1>. HIDE DEF each, some, all
<1>5. IsFiniteSet(all)
  BY <1>2, <1>3, FS_Surjection
<1>6. Cardinality(all) \in Nat /\ ExistsBijection(1 .. Cardinality(all), all)
  BY <1>5, FS_CardinalityType
<1>7. \E f \in [1 .. Cardinality(all) -> all] : IsInjective(f)
  BY <1>6 DEF ExistsBijection, Bijection, Injection
<1>8. SetToSeq(all) \in [1 .. Cardinality(all) -> all]
  BY <1>7 DEF SetToSeq
<1>9. SetToSeq(all) \in Seq(all)
  BY <1>6, <1>8
<1>10. SetToSeq(all) \in Seq(Requests)
  BY <1>4, <1>9
<1>. QED
  BY <1>10 DEF Refreshes, all, some

LEMMA ConnectedReason ==
  ASSUME PageInv, NEW k \in DOMAIN pending, pending[k].reply # Null,
         RefreshConnectedChannels(k)
  PROVE  PageInv' /\ Reason
<1>. DEFINE more == IF Ok(k) THEN Refreshes(pending[k].reply) ELSE <<>>
<1>1. /\ UNCHANGED <<server, opened, acts>> /\ pending[k].kind = "connected"
      /\ Render(page, Rest(k) \o more)
  BY DEF RefreshConnectedChannels
<1>2. page \in Page /\ pending[k] \in Requests
  BY DEF PageInv, Typed
<1>3. Ok(k) => pending[k].reply \in Lists
  BY <1>1, <1>2, RequestFields, KindsAre DEF Ok, ListKinds
<1>4. more \in Seq(Requests)
  BY <1>3, RefreshesFacts
<1>. HIDE DEF more
<1>5. Rest(k) \o more \in Seq(Requests)
  BY <1>4, RestFacts
<1>. QED
  BY <1>1, <1>2, <1>5, ShownAnew, SameCards, ServerStays, OpenedStays, ActsStay

LEMMA ActedFacts ==
  ASSUME NEW p \in Page, NEW k
  PROVE  Acted(p, k) \in Page /\ Acted(p, k).card = p.card
<1>1. [p EXCEPT !.uploading = FALSE] \in Page /\ [p EXCEPT !.uploading = FALSE].card = p.card
  BY DEF Page
<1>2. [p EXCEPT !.actionLoading = 0] \in Page /\ [p EXCEPT !.actionLoading = 0].card = p.card
  BY DEF Page
<1>. QED
  BY <1>1, <1>2 DEF Acted

LEMMA ProfileReason ==
  ASSUME PageInv, NEW k \in DOMAIN pending, pending[k].reply # Null,
         ProfileAnswered(k) \/ ProfilesAnswered(k)
  PROVE  PageInv' /\ Reason
<1>1. UNCHANGED <<server, opened, acts>> /\ page \in Page /\ pending[k] \in Requests
  BY DEF ProfileAnswered, ProfilesAnswered, PageInv, Typed
<1>2. CASE ProfileAnswered(k)
  <2>1. \/ Render(Acted(page, k), Rest(k))
        \/ \E kind \in {"uploaded", "profiles", "acted"} : Then(k, page, kind, 0)
    BY <1>2 DEF ProfileAnswered
  <2>2. Acted(page, k) \in Page /\ Acted(page, k).card = page.card
    BY <1>1, ActedFacts
  <2>. QED
    BY <1>1, <2>1, <2>2, ShownThen, ShownRest, SameCards, OpenedStays, NumbersAre
<1>3. CASE ProfilesAnswered(k)
  <2>. DEFINE p == IF Ok(k) THEN [page EXCEPT !.profiles = pending[k].reply] ELSE page
  <2>1. pending[k].kind \in ProfileKinds /\ Render(Acted(p, k), Rest(k))
    BY <1>3 DEF ProfilesAnswered, ProfileKinds
  <2>2. Ok(k) => pending[k].reply \in OAuthProfiles
    BY <1>1, <2>1, RequestFields, KindsAre DEF Ok
  <2>3. p \in Page /\ p.card = page.card
    BY <1>1, <2>2 DEF Page
  <2>. HIDE DEF p
  <2>4. Acted(p, k) \in Page /\ Acted(p, k).card = page.card
    BY <2>3, ActedFacts
  <2>. QED
    BY <1>1, <2>1, <2>4, ShownRest, SameCards, OpenedStays
<1>. QED
  BY <1>2, <1>3

-----------------------------------------------------------------------------
LEMMA PageInitInv == PageInit => PageInv
<1>. SUFFICES ASSUME PageInit PROVE PageInv
  OBVIOUS
<1>1. PICK start \in Starts :
        /\ row = [c \in {1} |-> [profile |-> 1, token |-> start.token]]
        /\ profile = [p \in {1} |-> [default |-> TRUE, ready |-> start.ready]]
        /\ page = [tab |-> start.tab, list |-> [c \in {} |-> 0],
                   card |-> [c \in Channels |-> NewCard], orphans |-> FALSE,
                   submitting |-> FALSE, profiles |-> [p \in {} |-> 0],
                   uploading |-> FALSE, actionLoading |-> 0]
        /\ pending = Mounts(start.tab)
                      \o (IF start.first THEN <<Request("connected", 0)>> ELSE <<>>)
  BY DEF PageInit
<1>2. /\ start.tab \in {"channels", "oauth"} /\ start.token \in {0, 1} /\ start.ready \in BOOLEAN
      /\ {1} \in SUBSET Channels /\ {1} \in SUBSET Profiles /\ MaxActs \in Nat
  BY PageConstants DEF PageConstants
<1>3. row \in Rows
  <2>1. start.token \in Tokens
    BY <1>2, SessionConstants DEF SessionConstants, Tokens
  <2>2. [profile |-> 1, token |-> start.token] \in Row
    BY <1>2, <2>1 DEF Row
  <2>3. row \in [{1} -> Row]
    BY <1>1, <2>2
  <2>. QED
    BY <1>2, <2>3 DEF Rows
<1>4. profile \in OAuthProfiles
  <2>1. [default |-> TRUE, ready |-> start.ready] \in OAuthProfile
    BY <1>2 DEF OAuthProfile
  <2>2. profile \in [{1} -> OAuthProfile]
    BY <1>1, <2>1
  <2>. QED
    BY <1>2, <2>2 DEF OAuthProfiles
<1>5. page \in Page
  <2>1. [c \in {} |-> 0] \in [{} -> Tokens] /\ [p \in {} |-> 0] \in [{} -> OAuthProfile]
    OBVIOUS
  <2>2. [c \in {} |-> 0] \in Lists /\ [p \in {} |-> 0] \in OAuthProfiles
    BY <2>1 DEF Lists, OAuthProfiles
  <2>3. NewCard \in Card
    BY DEF NewCard, Card
  <2>. QED
    BY <1>1, <1>2, <2>2, <2>3 DEF Page
<1>. DEFINE first == IF start.first THEN <<Request("connected", 0)>> ELSE <<>>
<1>6. first \in Seq(Requests) /\ \A r \in Range(first) : r.kind \notin {"auth", "poll"}
  <2>1. Request("connected", 0) \in Requests /\ Request("connected", 0).kind = "connected"
    BY NumbersAre, NewRequest DEF Request
  <2>. QED
    BY <2>1 DEF Range
<1>7. pending = Mounts(start.tab) \o first
  BY <1>1
<1>. HIDE DEF first
<1>8. /\ pending \in Seq(Requests)
      /\ Range(pending) = Range(Mounts(start.tab)) \cup Range(first)
  BY <1>6, <1>7, MountsFacts, RangeConcat
<1>9. MineShown
  BY <1>6, <1>8, MountsFacts DEF MineShown
<1>10. opened \subseteq Sessions /\ acts \in 0 .. MaxActs
  BY <1>2 DEF PageInit
<1>. QED
  BY <1>3, <1>4, <1>5, <1>8, <1>9, <1>10 DEF PageInv, Typed

LEMMA PageReason ==
  PageInv /\ TypeOK /\ [PageNext]_pageVars => PageInv' /\ (Reason \/ UNCHANGED pageVars)
<1>. SUFFICES ASSUME PageInv, TypeOK, [PageNext]_pageVars
              PROVE  PageInv' /\ (Reason \/ UNCHANGED pageVars)
  OBVIOUS
<1>1. CASE \E tab \in {"channels", "oauth"} : GoTo(tab)
  BY <1>1, GoToReason
<1>2. CASE \E c \in Channels : HandleAuthorize(c) \/ HandleCancel(c) \/ Tick(c)
  BY <1>2, AuthorizeReason, CancelReason, TickReason
<1>3. CASE \/ HandleSubmit \/ HandleUpload \/ \E c \in Channels : HandleRevoke(c)
           \/ \E p \in Profiles : HandlePatch(p) \/ HandleDelete(p) \/ HandleSetDefault(p)
  BY <1>3, FormsReason
<1>4. ASSUME NEW k \in DOMAIN pending, Serve(k) PROVE PageInv' /\ Reason
  BY <1>4, ServeRows, ServeProfiles, InitFlowReason DEF Serve
<1>5. ASSUME NEW k \in DOMAIN pending, Fails(k) PROVE PageInv' /\ Reason
  BY <1>5, FailsReason
<1>6. ASSUME NEW k \in DOMAIN pending, Answered(k) PROVE PageInv' /\ Reason
  BY <1>6, FetchReason, PollReason, InitReason, AddReason, DeleteReason, ConnectedReason,
     ProfileReason DEF Answered
<1>7. CASE SessionStep
  BY <1>7, SessionReason
<1>8. CASE UNCHANGED pageVars
  BY <1>8 DEF pageVars, PageInv, Typed, MineShown, CardShown
<1>9. CASE OrphanTick
  BY <1>9, OrphanReason
<1>. QED
  BY <1>1, <1>2, <1>3, <1>4, <1>5, <1>6, <1>7, <1>8, <1>9 DEF PageNext

(* The types of the composition: what is in the database, on the page and  *)
(* in every kind of answer, for any number of requests in flight.          *)
THEOREM PageTypeCorrect == PageSpec => []PageTypeOK
<1>1. PageInv => PageTypeOK
  BY TypedIs DEF PageInv
<1>. QED
  BY <1>1, PageInitInv, PageReason, SessionsImplemented, SessionsTypeCorrect, PTL DEF PageSpec

(* A card that is still shown stops waiting without an error only because  *)
(* its channel has a token, or because the user cancels.                   *)
THEOREM AuthorizingEndsForAReason == PageSpec => EndsForAReason
<1>1. Reason \/ UNCHANGED pageVars =>
        [\A c \in Channels :
           (page.card[c].authorizing /\ CardShown(page, c) /\ CardShown(page', c)
              /\ ~page'.card[c].authorizing)
             => \/ page'.card[c].error # "none"
                \/ page'.list[c] # 0
                \/ UNCHANGED pending]_pageVars
  BY DEF Reason
<1>. QED
  BY <1>1, PageInitInv, PageReason, SessionsImplemented, SessionsTypeCorrect, PTL
     DEF PageSpec, EndsForAReason
===============================================================================
