----------------------------- MODULE ChannelsPage -----------------------------
(***************************************************************************)
(* The channels page and the OAuth profiles of the settings, composed with *)
(* the authorization sessions of the server and with the rows of channels  *)
(* and profiles.  A card starts a session, opens its URL and polls the     *)
(* list of channels until the channel has a token; the callback of the     *)
(* session writes that token.  The identifiers are those of SQLite, which  *)
(* gives the one after the greatest that is there.                         *)
(***************************************************************************)
EXTENDS OAuthSessions, Sequences, SequencesExt

CONSTANTS
  Profiles,    \* identifiers of profiles; channels have numbers too
  Starts,      \* the page opened first, and what the database holds
  PollMax,     \* POLL_MAX_ITERATIONS
  MaxActs,     \* the user's gestures and failures of requests (bound)
  MaxPending,  \* the requests in flight when another is made (bound)
  Null,
  Done,        \* the answer to a request that has nothing to say
  Refused      \* that of a request that failed

ASSUME PageConstants == /\ Channels \subseteq Nat /\ Profiles \subseteq Nat \ {0}
                        /\ 1 \in Channels /\ 1 \in Profiles
                        /\ Starts \subseteq [tab : {"channels", "oauth"}, token : {0, 1},
                                              ready : BOOLEAN, first : BOOLEAN]
                        /\ IsFiniteSet(Channels)
                        /\ {PollMax, MaxActs, MaxPending} \subseteq Nat

VARIABLES
  row,       \* server: the channels, and the grant their token is of
  profile,   \* server: the OAuth client secrets
  opened,    \* the authorization URLs opened in a browser
  page,      \* the stores and the components
  pending,   \* the requests in flight
  acts

pageVars == <<vars, row, profile, opened, page, pending, acts>>
server   == <<vars, row, profile>>

(* Token 0 is none, 1 that of an earlier run of the program, and s + 1     *)
(* that of session s.                                                      *)
Tokens == 0 .. MaxSessions + 1
Row    == [profile : {0} \cup Profiles, token : Tokens]
OAuthProfile == [default : BOOLEAN, ready : BOOLEAN]
Card   == [authorizing : BOOLEAN, error : {"none", "failed", "timeout"},
           timer : BOOLEAN, leaked : Nat, count : Nat]
NewCard == [authorizing |-> FALSE, error |-> "none", timer |-> FALSE, leaked |-> 0, count |-> 0]

(* `of`: a channel or profile, 0 for none; `reply`: Null until the server  *)
(* has handled it; `mine`: the component that asked is still shown.        *)
Request(kind, of) == [kind |-> kind, of |-> of, reply |-> Null, mine |-> TRUE]
Asks(kind) == {k \in DOMAIN pending : pending[k].kind = kind}
Unserved(kind) == {k \in Asks(kind) : pending[k].reply = Null}

Rows     == UNION {[here -> Row] : here \in SUBSET Channels}
Lists    == UNION {[here -> Tokens] : here \in SUBSET Channels}
OAuthProfiles == UNION {[here -> OAuthProfile] : here \in SUBSET Profiles}
Page == [tab : {"channels", "oauth"}, list : Lists, card : [Channels -> Card],
         orphans : BOOLEAN, submitting : BOOLEAN, profiles : OAuthProfiles,
         uploading : BOOLEAN, actionLoading : {0} \cup Profiles]

(* What each kind of request may hold of an answer.                        *)
ListKinds    == {"fetch", "poll", "added", "connected"}
ProfileKinds == {"profiles", "uploaded", "acted"}
Kinds == ListKinds \cup ProfileKinds
         \cup {"auth", "refresh", "patch", "add", "delete", "upload", "remove", "default"}
Replies(kind) ==
  {Null, Refused} \cup (CASE kind \in ListKinds    -> Lists
                         [] kind \in ProfileKinds -> OAuthProfiles
                         [] kind = "auth"         -> Sessions
                         [] kind = "refresh"      -> {Done} \cup Tokens
                         [] kind = "patch"        -> {Done} \cup OAuthProfile
                         [] OTHER                 -> {Done})

IsRequest(r) ==
  r \in [kind : Kinds, of : {0} \cup Channels \cup Profiles,
         reply : Replies(r.kind), mine : BOOLEAN]

PageTypeOK ==
  /\ row \in Rows /\ profile \in OAuthProfiles
  /\ opened \subseteq Sessions
  /\ page \in Page
  /\ pending \in Seq(Range(pending)) /\ \A r \in Range(pending) : IsRequest(r)
  /\ acts \in 0 .. MaxActs

Free == Len(pending) < MaxPending
Act == acts < MaxActs /\ acts' = acts + 1

-----------------------------------------------------------------------------
(* What is shown.  A card or a section that is no longer shown loses its   *)
(* state, but not its timers; `orphans` are timers of cards that are gone. *)

(* Each of the two sections of the page lists the channels.                *)
CardShown(p, c) == p.tab = "channels" /\ c \in DOMAIN p.list
RowShown(c) == CardShown(page, c)
Timers(card) == card.timer \/ card.leaked > 0

(* Two sections of the channels page fetch the list.                       *)
Mounts(tab) == IF tab = "channels" THEN <<Request("fetch", 0), Request("fetch", 0)>>
               ELSE <<Request("profiles", 0)>>

(* Of the requests a card makes; those of the forms go with the tab.       *)
StillMine(p, r) ==
  /\ p.tab = page.tab
  /\ r.kind \in {"auth", "poll"} => CardShown(p, r.of)

Render(p, requests) ==
  LET gone == {c \in Channels : CardShown(page, c) /\ ~CardShown(p, c)}
      moved == p.tab # page.tab
  IN  /\ page' = [p EXCEPT
           !.card = [c \in Channels |-> IF CardShown(p, c) THEN @[c] ELSE NewCard],
           !.orphans = @ \/ \E c \in gone : Timers(p.card[c]),
           !.submitting = @ /\ ~moved, !.uploading = @ /\ ~moved,
           !.actionLoading = IF moved THEN 0 ELSE @]
      /\ pending' = [k \in DOMAIN requests |->
                       [requests[k] EXCEPT !.mine = @ /\ StillMine(p, requests[k])]]
                    \o (IF moved THEN Mounts(p.tab) ELSE <<>>)

Ask(p, kind, of) == Render(p, Append(pending, Request(kind, of)))

(* The migrations link the first channel to a profile.  Its token may be   *)
(* left from an earlier run, and a profile that was migrated without       *)
(* credentials has none.  If it is the first page of the program, the      *)
(* provider refreshes the connected channels, and has no list yet.         *)
PageInit ==
  /\ Init
  /\ opened = {} /\ acts = 0
  /\ \E start \in Starts :
       /\ row = [c \in {1} |-> [profile |-> 1, token |-> start.token]]
       /\ profile = [p \in {1} |-> [default |-> TRUE, ready |-> start.ready]]
       /\ page = [tab |-> start.tab, list |-> [c \in {} |-> 0],
                  card |-> [c \in Channels |-> NewCard], orphans |-> FALSE,
                  submitting |-> FALSE, profiles |-> [p \in {} |-> 0],
                  uploading |-> FALSE, actionLoading |-> 0]
       /\ pending = Mounts(start.tab)
                     \o (IF start.first THEN <<Request("connected", 0)>> ELSE <<>>)

-----------------------------------------------------------------------------
(* The card of a channel.                                                  *)

GoTo(tab) ==
  /\ page.tab # tab
  /\ Act /\ Free
  /\ Render([page EXCEPT !.tab = tab], pending)
  /\ UNCHANGED <<server, opened>>

OnCard(c, card) == [page EXCEPT !.card[c] = card]

ButtonShown(c, button) ==
  CardShown(page, c) /\ button = (IF page.card[c].authorizing THEN "cancel" ELSE "authorize")

StopPolling(card) == [card EXCEPT !.timer = FALSE, !.count = 0]

(* (Bound: no more authorizations than sessions.)                          *)
HandleAuthorize(c) ==
  /\ ButtonShown(c, "authorize")
  /\ started + Cardinality(Unserved("auth")) < MaxSessions
  /\ Act /\ Free
  /\ Ask(OnCard(c, [page.card[c] EXCEPT !.authorizing = TRUE, !.error = "none"]), "auth", c)
  /\ UNCHANGED <<server, opened>>

HandleCancel(c) ==
  /\ ButtonShown(c, "cancel")
  /\ Render(OnCard(c, [StopPolling(page.card[c]) EXCEPT !.authorizing = FALSE]), pending)
  /\ UNCHANGED <<server, opened, acts>>

(* mutant: the timer of an attempt that timed out stops, and that is all *)
GaveUpSilently(card) == StopPolling(card)

GaveUp(card) == [StopPolling(card) EXCEPT !.authorizing = FALSE, !.error = "timeout"]

(* Every timer of a card counts on the same counter; only the last one     *)
(* made can be stopped.  (Bound: one poll of a channel is in flight.)      *)
Tick(c) ==
  LET card == page.card[c] IN
  /\ Timers(card)
  /\ \/ /\ card.count + 1 >= PollMax
        /\ Render(OnCard(c, GaveUp(card)), pending)
     \/ /\ card.count + 1 < PollMax
        /\ Free /\ \A k \in Asks("poll") : pending[k].of # c
        /\ Ask(OnCard(c, [card EXCEPT !.count = @ + 1]), "poll", c)
  /\ UNCHANGED <<server, opened, acts>>

(* The timers of a card that is gone count for themselves: how long they   *)
(* go on is left open.                                                     *)
OrphanTick ==
  /\ page.orphans
  /\ \/ Free /\ Asks("fetch") = {} /\ Ask(page, "fetch", 0)
     \/ Render([page EXCEPT !.orphans = FALSE], pending)
  /\ UNCHANGED <<server, opened, acts>>

-----------------------------------------------------------------------------
(* The forms and buttons.                                                  *)

(* One more than the greatest identifier (bound: while there is one).      *)
IsNewId(id, there, ids) ==
  /\ id \in ids /\ \A other \in there : other < id
  /\ id = 1 \/ id - 1 \in there

Inserted(table, id, value) ==
  [other \in DOMAIN table \cup {id} |-> IF other = id THEN value ELSE table[other]]

FormEnabled == page.tab = "channels" /\ ~page.submitting

HandleSubmit ==
  /\ FormEnabled
  /\ Asks("add") = {} /\ \E c \in Channels : IsNewId(c, DOMAIN row, Channels)
  /\ Act /\ Free
  /\ Ask([page EXCEPT !.submitting = TRUE], "add", 0)
  /\ UNCHANGED <<server, opened>>

HandleRevoke(c) ==
  /\ RowShown(c)
  /\ Act /\ Free
  /\ Ask(page, "delete", c)
  /\ UNCHANGED <<server, opened>>

UploadEnabled == page.tab = "oauth" /\ ~page.uploading

HandleUpload ==
  /\ UploadEnabled
  /\ Asks("upload") = {} /\ \E p \in Profiles : IsNewId(p, DOMAIN profile, Profiles)
  /\ Act /\ Free
  /\ Ask([page EXCEPT !.uploading = TRUE], "upload", 0)
  /\ UNCHANGED <<server, opened>>

ProfileShown(p) == page.tab = "oauth" /\ p \in DOMAIN page.profiles

(* Nothing keeps the file of a profile from being chosen twice.            *)
ReuploadShown(p) == ProfileShown(p) /\ ~page.profiles[p].ready

HandlePatch(p) ==
  /\ ReuploadShown(p)
  /\ Act /\ Free
  /\ Ask(page, "patch", p)
  /\ UNCHANGED <<server, opened>>

ActsOn(p, kind) ==
  /\ ProfileShown(p) /\ page.actionLoading # p
  /\ Act /\ Free
  /\ Ask([page EXCEPT !.actionLoading = p], kind, p)
  /\ UNCHANGED <<server, opened>>

HandleDelete(p) == ActsOn(p, "remove")
HandleSetDefault(p) ==
  ProfileShown(p) /\ ~page.profiles[p].default /\ ActsOn(p, "default")

-----------------------------------------------------------------------------
(* The server.                                                             *)

Reply(k, reply) == pending' = [pending EXCEPT ![k].reply = reply]
Gives(k, kinds) == pending[k].kind \in kinds /\ pending[k].reply = Null

(* What a request leaves alone: the page, and of the server the rest.      *)
OnlyRows     == UNCHANGED <<vars, profile, opened, page, acts>>
OnlyProfiles == UNCHANGED <<vars, opened, page, acts>>

GetChannels(k) ==
  /\ Gives(k, {"fetch", "poll", "added", "connected"})
  /\ Reply(k, [c \in DOMAIN row |-> row[c].token])
  /\ UNCHANGED row /\ OnlyRows

PostChannel(k) ==
  /\ Gives(k, {"add"})
  /\ \E c \in Channels :
       /\ IsNewId(c, DOMAIN row, Channels)
       /\ row' = Inserted(row, c, [profile |-> 0, token |-> 0])
  /\ Reply(k, Done)
  /\ OnlyRows

DeleteChannel(k) ==
  /\ Gives(k, {"delete"})
  /\ row' = [c \in DOMAIN row \ {pending[k].of} |-> row[c]]
  /\ Reply(k, Done)
  /\ OnlyRows

(* A channel that was added on the page is linked to no profile.           *)
CanStart(c) ==
  c \in DOMAIN row /\ row[c].profile # 0 /\ profile[row[c].profile].ready

InitOAuthFlow(k) ==
  LET c == pending[k].of IN
  /\ Gives(k, {"auth"})
  /\ \/ CanStart(c) /\ StartSession(c) /\ Reply(k, started + 1) /\ UNCHANGED acts
     \/ CanStart(c) /\ StartFails(c) /\ Reply(k, Refused) /\ Act
     \/ ~CanStart(c) /\ Reply(k, Refused) /\ UNCHANGED <<vars, acts>>
  /\ UNCHANGED <<row, profile, opened, page>>

(* The refresh token is read, exchanged, and what comes of it written      *)
(* back: `reply` is the grant meanwhile.                                   *)
UpdateTokens(c, token) ==
  row' = IF c \in DOMAIN row THEN [row EXCEPT ![c].token = token] ELSE row

RefreshToken(k) ==
  LET c == pending[k].of IN
  \/ /\ Gives(k, {"refresh"})
     /\ Reply(k, IF CanStart(c) /\ row[c].token # 0 THEN row[c].token ELSE Refused)
     /\ UNCHANGED row /\ OnlyRows
  \/ /\ pending[k].kind = "refresh" /\ pending[k].reply \in Tokens \ {0}
     /\ UpdateTokens(c, pending[k].reply)
     /\ Reply(k, Done)
     /\ OnlyRows

ListProfiles(k) ==
  /\ Gives(k, {"profiles", "uploaded", "acted"})
  /\ Reply(k, profile)
  /\ UNCHANGED <<row, profile>> /\ OnlyProfiles

PostOAuthProfile(k) ==
  /\ Gives(k, {"upload"})
  /\ \E p \in Profiles :
       /\ IsNewId(p, DOMAIN profile, Profiles)
       /\ profile' = Inserted(profile, p, [default |-> FALSE, ready |-> TRUE])
  /\ Reply(k, Done)
  /\ UNCHANGED row /\ OnlyProfiles

(* The row is read, and written back whole with the new credentials:       *)
(* `reply` is the flag as it was read.                                     *)
PatchOAuthProfile(k) ==
  LET p == pending[k].of IN
  /\ pending[k].kind = "patch" /\ UNCHANGED row /\ OnlyProfiles
  /\ \/ /\ pending[k].reply = Null
        /\ Reply(k, IF p \in DOMAIN profile THEN profile[p] ELSE Refused)
        /\ UNCHANGED profile
     \/ /\ pending[k].reply \notin {Null, Refused, Done}
        /\ profile' = IF p \in DOMAIN profile
                        THEN [profile EXCEPT ![p] = [pending[k].reply EXCEPT !.ready = TRUE]]
                        ELSE profile
        /\ Reply(k, Done)

(* ON DELETE SET NULL.                                                     *)
DeleteOAuthProfile(k) ==
  LET p == pending[k].of IN
  /\ Gives(k, {"remove"})
  /\ profile' = [other \in DOMAIN profile \ {p} |-> profile[other]]
  /\ row' = [c \in DOMAIN row |-> IF row[c].profile = p THEN [row[c] EXCEPT !.profile = 0]
                                  ELSE row[c]]
  /\ Reply(k, Done) /\ OnlyProfiles

SetDefault(k) ==
  /\ Gives(k, {"default"})
  /\ profile' = [p \in DOMAIN profile |-> [profile[p] EXCEPT !.default = p = pending[k].of]]
  /\ Reply(k, Done)
  /\ UNCHANGED row /\ OnlyProfiles

(* A request is refused or lost.                                           *)
Fails(k) ==
  /\ pending[k].reply = Null
  /\ Act
  /\ Reply(k, Refused)
  /\ UNCHANGED <<server, opened, page>>

Serve(k) ==
  \/ GetChannels(k) \/ PostChannel(k) \/ DeleteChannel(k) \/ InitOAuthFlow(k)
  \/ RefreshToken(k) \/ ListProfiles(k) \/ PostOAuthProfile(k)
  \/ PatchOAuthProfile(k) \/ DeleteOAuthProfile(k) \/ SetDefault(k)

-----------------------------------------------------------------------------
(* The answers at the page: `then` takes the request's place.              *)

Rest(k) == RemoveAt(pending, k)
Then(k, p, kind, of) == Render(p, Append(Rest(k), [pending[k] EXCEPT !.kind = kind, !.of = of,
                                                                     !.reply = Null]))
Ok(k) == pending[k].reply # Refused
Listed(k) == IF Ok(k) THEN [page EXCEPT !.list = pending[k].reply] ELSE page

(* A list that cannot be had leaves the old one, and is no error to those  *)
(* who asked for it.                                                       *)
FetchAnswered(k) ==
  /\ pending[k].kind = "fetch"
  /\ Render(Listed(k), Rest(k))
  /\ UNCHANGED <<server, opened, acts>>

(* mutant: it is enough that the channel is listed *)
IsListed(p, c) == c \in DOMAIN p.list

IsAuthorized(p, c) == c \in DOMAIN p.list /\ p.list[c] # 0

PollAnswered(k) ==
  LET c == pending[k].of
      p == Listed(k)
  IN  /\ pending[k].kind = "poll"
      /\ Render(IF pending[k].mine /\ IsAuthorized(p, c)
                  THEN [p EXCEPT !.card[c] = [StopPolling(@) EXCEPT !.authorizing = FALSE]]
                  ELSE p, Rest(k))
      /\ UNCHANGED <<server, opened, acts>>

(* The URL is opened even if the user has cancelled or left meanwhile, and *)
(* the timer of an earlier attempt is forgotten, not stopped.              *)
InitAnswered(k) ==
  LET c == pending[k].of
      card == page.card[c]
  IN  /\ pending[k].kind = "auth"
      /\ opened' = IF Ok(k) THEN opened \cup {pending[k].reply} ELSE opened
      /\ Render(
           CASE ~pending[k].mine -> [page EXCEPT !.orphans = @ \/ Ok(k)]
             [] pending[k].mine /\ Ok(k) ->
                  OnCard(c, [card EXCEPT !.timer = TRUE,
                                         !.leaked = IF card.timer THEN @ + 1 ELSE @])
             [] OTHER -> OnCard(c, [card EXCEPT !.authorizing = FALSE, !.error = "failed"]),
           Rest(k))
      /\ UNCHANGED <<server, acts>>

(* The store fetches the list after an addition, and the form once more.   *)
AddAnswered(k) ==
  /\ pending[k].kind \in {"add", "added"}
  /\ LET p == IF pending[k].kind = "added" THEN Listed(k) ELSE page
         sent == [p EXCEPT !.submitting = @ /\ ~pending[k].mine]
     IN  CASE pending[k].kind = "add" /\ ~Ok(k) -> Render(sent, Rest(k))
           [] pending[k].kind = "add" /\ Ok(k)  -> Then(k, p, "added", 0)
           [] pending[k].kind # "add" /\ pending[k].of = 0 -> Then(k, p, "added", 1)
           [] OTHER                             -> Render(sent, Rest(k))
  /\ UNCHANGED <<server, opened, acts>>

DeleteAnswered(k) ==
  /\ pending[k].kind = "delete"
  /\ IF Ok(k) THEN Then(k, page, "fetch", 0) ELSE Render(page, Rest(k))
  /\ UNCHANGED <<server, opened, acts>>

(* A request for each channel that is connected.                           *)
Refreshes(list) ==
  SetToSeq({Request("refresh", c) : c \in {d \in DOMAIN list : list[d] # 0}})

RefreshConnectedChannels(k) ==
  /\ pending[k].kind = "connected"
  /\ Render(page, Rest(k) \o (IF Ok(k) THEN Refreshes(pending[k].reply) ELSE <<>>))
  /\ UNCHANGED <<server, opened, acts>>

RefreshAnswered(k) ==
  /\ pending[k].kind = "refresh"
  /\ pending[k].reply \in {Done, Refused}
  /\ IF Cardinality(Asks("refresh")) = 1 THEN Then(k, page, "fetch", 0) ELSE Render(page, Rest(k))
  /\ UNCHANGED <<server, opened, acts>>

(* The handlers of the section end when their list has come; `of` is the   *)
(* profile, 0 for the upload.                                              *)
Acted(p, k) ==
  IF ~pending[k].mine THEN p
  ELSE IF pending[k].kind \in {"upload", "uploaded"} THEN [p EXCEPT !.uploading = FALSE]
  ELSE IF pending[k].kind \in {"remove", "default", "acted"} THEN [p EXCEPT !.actionLoading = 0]
  ELSE p

ProfileAnswered(k) ==
  /\ pending[k].kind \in {"upload", "patch", "remove", "default"}
  /\ pending[k].reply \in {Done, Refused}
  /\ IF ~Ok(k) THEN Render(Acted(page, k), Rest(k))
     ELSE Then(k, page, CASE pending[k].kind = "upload" -> "uploaded"
                          [] pending[k].kind = "patch"  -> "profiles"
                          [] OTHER                      -> "acted", 0)
  /\ UNCHANGED <<server, opened, acts>>

ProfilesAnswered(k) ==
  /\ pending[k].kind \in {"profiles", "uploaded", "acted"}
  /\ LET p == IF Ok(k) THEN [page EXCEPT !.profiles = pending[k].reply] ELSE page
     IN  Render(Acted(p, k), Rest(k))
  /\ UNCHANGED <<server, opened, acts>>

Answered(k) ==
  /\ pending[k].reply # Null
  /\ \/ FetchAnswered(k) \/ PollAnswered(k) \/ InitAnswered(k) \/ AddAnswered(k)
     \/ DeleteAnswered(k) \/ RefreshConnectedChannels(k) \/ RefreshAnswered(k)
     \/ ProfileAnswered(k) \/ ProfilesAnswered(k)

-----------------------------------------------------------------------------
(* The sessions: a callback needs the URL of its session to be open, and   *)
(* the tokens go to whichever channel has the identifier by now.           *)

Unpaged == UNCHANGED <<opened, page, pending, acts>>

SessionStep ==
  \E s \in Started :
    \/ /\ s \in opened /\ Callback(s)
       /\ Act /\ UNCHANGED <<row, profile, opened, page, pending>>
    \/ /\ \/ Timeout(s) \/ Exchange(s) \/ CancelSelf(s) \/ Shutdown(s) \/ Cleanup(s)
       /\ UNCHANGED <<row, profile>> /\ Unpaged
    \/ /\ SaveTokens(s)
       /\ UpdateTokens(session[s].channel, s + 1)
       /\ UNCHANGED profile /\ Unpaged

PageNext ==
  \/ \E tab \in {"channels", "oauth"} : GoTo(tab)
  \/ \E c \in Channels : HandleAuthorize(c) \/ HandleCancel(c) \/ Tick(c) \/ HandleRevoke(c)
  \/ OrphanTick \/ HandleSubmit \/ HandleUpload
  \/ \E p \in Profiles : HandlePatch(p) \/ HandleDelete(p) \/ HandleSetDefault(p)
  \/ \E k \in DOMAIN pending : Serve(k) \/ Fails(k) \/ Answered(k)
  \/ SessionStep

(* Timers tick while they are there, and the oldest request is answered.   *)
PageSpec ==
  /\ PageInit /\ [][PageNext]_pageVars
  /\ Fairness
  /\ WF_pageVars(pending # <<>> /\ (Serve(1) \/ Answered(1)))
  /\ \A c \in Channels : WF_pageVars(Tick(c))

-----------------------------------------------------------------------------
(* Properties *)

(* "Aguardando..." ends: the token is seen, or the attempt times out,      *)
(* fails, or is cancelled, whatever earlier attempts left behind.          *)
AuthorizingEnds ==
  \A c \in Channels : page.card[c].authorizing ~> ~page.card[c].authorizing

(* A card that is still there stops waiting without an error only because  *)
(* the list now shows a token of its channel, or because the user cancels, *)
(* which is the one way that leaves the requests alone.                    *)
EndsForAReason ==
  [][\A c \in Channels :
       (page.card[c].authorizing /\ CardShown(page, c) /\ CardShown(page', c)
          /\ ~page'.card[c].authorizing)
         => \/ page'.card[c].error # "none"
            \/ page'.list[c] # 0
            \/ UNCHANGED pending]_pageVars
=============================================================================
