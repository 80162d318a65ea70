------------------------------- MODULE Upload -------------------------------
(***************************************************************************)
(* One admin of one client bot uploads videos: the upload sessions of the  *)
(* two delivery modes (services/video_creation_service.py, with the count  *)
(* that services/video_upload_feedback.py keeps), the draft of a           *)
(* collection (services/video_collection_service.py), the router that      *)
(* sends a message to one of them (telegram/client_bot/admin_router.py),   *)
(* and the deduplication of updates before it (dispatcher.py).             *)
(*                                                                         *)
(* Telegram delivers the admin's updates in any order and several at a     *)
(* time, and one that was not answered again.  A handler is a list of      *)
(* operations to go through; each command of Redis and each transaction is *)
(* a step, and the rows a transaction has locked follow from where its     *)
(* handler is.  The conversations for the sponsor, for custom messages and *)
(* for announcements, which every command clears first, are not here.      *)
(***************************************************************************)
EXTENDS Naturals, Sequences, FiniteSets

CONSTANTS
  Clips,      \* the message ids of the videos the admin may send
  Commands,   \* its other messages and the buttons it presses
  Handlers,   \* requests that are served at a time
  MaxSent,    \* bound: updates the admin sends, with what it has sent at first
  MaxDrafts,  \* bound: collections begun
  MaxMishaps, \* bound: what goes wrong
  Nothing

ASSUME VideosAreNumbers == Clips \subseteq Nat
ASSUME BoundsType == MaxDrafts \in Nat \ {0} /\ {MaxSent, MaxMishaps} \subseteq Nat

VARIABLES
  wire,     \* where each update is with Telegram
  kind,     \* what each command is
  dedup,    \* updates whose deduplication key is set
  session,  \* the state key of each delivery mode
  draft,    \* the rows of video_collections
  row,      \* the delivery mode of the row in videos with a message's id
  sponsor,  \* whether the bot's sponsor is enabled
  at,       \* the handlers
  mishaps,
  opened,   \* history: the modes that have been open since a video was sent
  refused,  \* history: videos the admin was told are not taken
  cutOff    \* history: updates whose handler died, or raised before the router had
            \* them, or that were answered as duplicates while they were served

data == <<session, draft, row>>
uploadVars == <<wire, kind, dedup, data, sponsor, at, mishaps, opened, refused, cutOff>>

----------------------------------------------------------------------------
Updates == Clips \cup Commands
Modes == {"PUBLISHED", "LINK_ONLY"}

Begins == {"createvideo", "createlinkvideo", "createcollection",
           "createlinkcollection", "createlinkcollection button"}
MessageKinds == Begins \cup {"photo", "done", "cancel", "start"}

Kind(u) == IF u \in Clips THEN "video" ELSE kind[u]

States == {"NONE", "WAITING_FOR_VIDEO", "ACCEPTING_VIDEO"}

DraftIds == 1 .. MaxDrafts
ASSUME Distinct ==
  /\ Nothing \notin Clips \cup Commands /\ Nothing \notin Modes /\ Nothing \notin DraftIds
  /\ Clips \cap Commands = {}
DraftStatuses == {"ABSENT", "DRAFT", "CANCELLED", "EXPIRED", "PUBLISHED"}
Draft == [status : DraftStatuses, mode : Modes, items : SUBSET Clips, thumb : BOOLEAN]
NoDraft == [status |-> "ABSENT", mode |-> "PUBLISHED", items |-> {}, thumb |-> FALSE]
NewDraft(m) == [NoDraft EXCEPT !.status = "DRAFT", !.mode = m]

Op(do, m) == [do |-> do, mode |-> m]
Ops == [do : {"close", "cancel", "open", "drop", "begin", "take", "collect", "publish"},
        mode : Modes]
Drop == Op("drop", "PUBLISHED")
CloseBoth == <<Op("close", "PUBLISHED"), Op("close", "LINK_ONLY")>>

\* "new": the deduplication key was not there; "link", "normal": the router is about
\* to read a state; "op": before the first operation of the list; the others are
\* inside of it.
Places == {"idle", "new", "link", "normal", "op", "wait", "clear", "finish", "restart",
           "reset", "locked", "row", "holding", "look", "claimed", "stored", "counted",
           "reply", "refuse"}
Handler == [pc : Places, u : Updates \cup {Nothing}, todo : Seq(Ops),
            draft : DraftIds \cup {Nothing},  \* the draft the router has loaded
            thumb : BOOLEAN,                  \* and its thumbnail as it loaded it
            target : DraftIds \cup {Nothing}] \* the draft a query is to lock
NoUpdate == [pc |-> "idle", u |-> Nothing, todo |-> <<>>, draft |-> Nothing,
             thumb |-> FALSE, target |-> Nothing]

UploadTypeOK ==
  /\ wire \in [Updates -> {"unsent", "due", "done"}]
  /\ kind \in [Commands -> MessageKinds]
  /\ dedup \subseteq Updates
  /\ session \in [Modes -> States]
  /\ draft \in [DraftIds -> Draft]
  /\ row \in [Clips -> Modes \cup {Nothing}]
  /\ sponsor \in BOOLEAN
  /\ at \in [Handlers -> Handler]
  /\ mishaps \in 0 .. MaxMishaps
  /\ opened \in [Clips -> SUBSET Modes]
  /\ refused \subseteq Clips /\ cutOff \subseteq Updates

\* The admin has begun one conversation, or none; a collection has a video.
NothingSent == wire = [u \in Updates |-> "unsent"] /\ opened = [v \in Clips |-> {}]
Fresh ==
  /\ session = [m \in Modes |-> "NONE"]
  /\ draft = [d \in DraftIds |-> NoDraft]
  /\ NothingSent
InSession ==
  /\ \E m \in Modes : session = [x \in Modes |-> IF x = m THEN "WAITING_FOR_VIDEO" ELSE "NONE"]
  /\ draft = [d \in DraftIds |-> NoDraft]
  /\ NothingSent
InCollection ==
  /\ session = [m \in Modes |-> "NONE"]
  /\ \E m \in Modes : LET items == {v \in Clips : \A x \in Clips : v <= x} IN
       /\ draft = [d \in DraftIds |-> IF d = 1 THEN [NewDraft(m) EXCEPT !.items = items] ELSE NoDraft]
       /\ wire = [u \in Updates |-> IF u \in items THEN "done" ELSE "unsent"]
       /\ opened = [v \in Clips |-> IF v \in items THEN {m} ELSE {}]

UploadInit ==
  /\ Fresh \/ InSession \/ InCollection
  /\ kind = [c \in Commands |-> "start"]
  /\ dedup = {}
  /\ row = [v \in Clips |-> Nothing]
  /\ sponsor = TRUE
  /\ at = [h \in Handlers |-> NoUpdate]
  /\ mishaps = 0
  /\ refused = {} /\ cutOff = {}

\* Something goes wrong: a handler's process dies, a query or a reply raises, the
\* INSERT of a video fails or takes more than 30 seconds, an update is delivered
\* again while it is served, a conversation is silent for 30 minutes, the sponsor is
\* switched off or on.
GoesWrong == mishaps < MaxMishaps /\ mishaps' = mishaps + 1

Open(m) == session[m] # "NONE"
Drafts == {d \in DraftIds : draft[d].status = "DRAFT"}
Newest == IF Drafts = {} THEN Nothing ELSE CHOOSE d \in Drafts : \A e \in Drafts : e <= d
OpenModes == {m \in Modes : Open(m) \/ \E d \in Drafts : draft[d].mode = m}
NowOpen(m) == opened' = [v \in Clips |-> IF wire[v] # "unsent" THEN opened[v] \cup {m}
                                         ELSE opened[v]]

\* A handler's operation, and its mode.
Doing(h) == Head(at[h].todo).do
Mode(h) == Head(at[h].todo).mode
IsAt(h, pc, do) == at[h].pc = pc /\ Doing(h) = do

Go(h, pc) == at' = [at EXCEPT ![h].pc = pc]
Do(h, ops) == at' = [at EXCEPT ![h].pc = "op", ![h].todo = ops]
\* The operation is over.
Proceed(h) ==
  at' = [at EXCEPT ![h] = [@ EXCEPT !.todo = Tail(at[h].todo), !.target = Nothing,
                                    !.pc = IF Len(at[h].todo) = 1 THEN "reply" ELSE "op"]]

\* The handler is through, and Telegram has its 200.
Done(h) ==
  /\ at' = [at EXCEPT ![h] = NoUpdate]
  /\ wire' = [wire EXCEPT ![at[h].u] = "done"]

\* Mutant: the deduplication key is left behind.
KeepsKey(h) ==
  /\ at' = [at EXCEPT ![h] = NoUpdate]
  /\ UNCHANGED dedup

\* An exception leaves the router: its transaction is rolled back and the
\* deduplication key deleted, and Telegram has to deliver the update again.
Raise(h) ==
  /\ at' = [at EXCEPT ![h] = NoUpdate]
  /\ dedup' = dedup \ {at[h].u}

----------------------------------------------------------------------------
(* Telegram and the dispatcher.                                            *)

Served(u) == \E h \in Handlers : at[h].u = u

\* An update arrives for the first time.  When it was sent makes no difference: that
\* Telegram may deliver updates in any order, any order of sending shows.
Sends(h, u) ==
  /\ wire[u] = "unsent" /\ at[h].pc = "idle"
  /\ Cardinality({x \in Updates : wire[x] # "unsent"}) < MaxSent
  /\ wire' = [wire EXCEPT ![u] = "due"]
  /\ IF u \in Clips
     THEN opened' = [opened EXCEPT ![u] = OpenModes] /\ UNCHANGED kind
     ELSE (\E k \in MessageKinds : kind' = [kind EXCEPT ![u] = k]) /\ UNCHANGED opened
  /\ at' = [at EXCEPT ![h].pc = "new", ![h].u = u]
  /\ UNCHANGED <<dedup, data, sponsor, mishaps, refused, cutOff>>

\* It arrives again; the look at the deduplication key.
Resends(h, u) ==
  /\ wire[u] = "due" /\ at[h].pc = "idle"
  /\ IF Served(u) THEN GoesWrong ELSE UNCHANGED mishaps
  /\ IF u \in dedup
     THEN /\ wire' = [wire EXCEPT ![u] = "done"]
          /\ cutOff' = IF Served(u) THEN cutOff \cup {u} ELSE cutOff
          /\ UNCHANGED at
     ELSE /\ at' = [at EXCEPT ![h].pc = "new", ![h].u = u]
          /\ UNCHANGED <<wire, cutOff>>
  /\ UNCHANGED <<kind, dedup, data, sponsor, opened, refused>>

\* What the router has a command do, whatever conversation is open.
Orders(k) ==
  CASE k = "createvideo" -> <<Drop, Op("close", "LINK_ONLY"), Op("open", "PUBLISHED")>>
    [] k = "createlinkvideo" -> <<Drop, Op("close", "PUBLISHED"), Op("open", "LINK_ONLY")>>
    [] k = "createcollection" -> CloseBoth \o <<Op("begin", "PUBLISHED")>>
    [] k = "createlinkcollection" -> CloseBoth \o <<Drop, Op("begin", "LINK_ONLY")>>
    [] k = "createlinkcollection button" ->
         <<Drop>> \o CloseBoth \o <<Op("begin", "LINK_ONLY")>>
    [] k = "start" -> CloseBoth

\* The key is set.  What is not such a command goes to the draft, if there is one.
Routes(h) ==
  LET k == Kind(at[h].u) IN
  /\ at[h].pc = "new"
  /\ dedup' = dedup \cup {at[h].u}
  /\ CASE k \in Begins \cup {"start"} -> Do(h, Orders(k))
       [] k \notin Begins \cup {"start"} /\ Newest # Nothing ->
            at' = [at EXCEPT ![h] = [@ EXCEPT
                     !.pc = "op", !.draft = Newest, !.thumb = draft[Newest].thumb,
                     !.todo = <<CASE k = "done" -> Op("publish", "PUBLISHED")
                                  [] k = "cancel" -> Drop
                                  [] OTHER -> Op("collect", "PUBLISHED")>>]]
       [] k \notin Begins \cup {"start"} /\ Newest = Nothing ->
            Go(h, IF k = "done" THEN "reply" ELSE "link")
  /\ UNCHANGED <<wire, kind, data, sponsor, mishaps, opened, refused, cutOff>>

\* Without a draft, to the session of links, then to the other.
RoutesTo(h, pc, m) ==
  LET k == Kind(at[h].u) IN
  /\ at[h].pc = pc
  /\ CASE Open(m) -> Do(h, <<Op(IF k = "cancel" THEN "cancel" ELSE "take", m)>>)
       [] ~Open(m) /\ pc = "link" -> Go(h, "normal")
       [] ~Open(m) /\ pc = "normal" ->
            CASE k = "cancel" -> Do(h, CloseBoth)
              [] k = "video" -> Go(h, "refuse")
              [] OTHER -> Go(h, "reply")
  /\ UNCHANGED <<wire, kind, dedup, data, sponsor, mishaps, opened, refused, cutOff>>

Answers(h) ==
  /\ at[h].pc \in {"reply", "refuse"}
  /\ refused' = IF at[h].pc = "refuse" THEN refused \cup {at[h].u} ELSE refused
  /\ Done(h)
  /\ UNCHANGED <<kind, dedup, data, sponsor, mishaps, opened, cutOff>>

----------------------------------------------------------------------------
(* Upload sessions: closing and opening one.                               *)

Quiet == <<wire, kind, dedup, sponsor, opened, refused, cutOff>>

\* A handler is saving a video of the session.
InHand(m) == \E h \in Handlers : at[h].pc \in {"claimed", "stored", "counted"} /\ Mode(h) = m

\* A wait is over: no video is being saved, or 30 seconds have passed.
WaitIsOver(m) ==
  IF session[m] = "ACCEPTING_VIDEO" /\ InHand(m) THEN GoesWrong ELSE UNCHANGED mishaps

close_if_active(h) ==
  /\ IsAt(h, "op", "close")
  /\ IF Open(Mode(h)) THEN Go(h, "wait") ELSE Proceed(h)
  /\ UNCHANGED <<Quiet, data, mishaps>>

\* The last look before the key is deleted.
cancel_create_video_session(h) ==
  /\ \/ at[h].pc = "wait"
     \/ IsAt(h, "op", "cancel")
  /\ WaitIsOver(Mode(h))
  /\ Go(h, "clear")
  /\ UNCHANGED <<Quiet, data>>

clear_creation_state(h) ==
  /\ at[h].pc = "clear"
  /\ session' = [session EXCEPT ![Mode(h)] = "NONE"]
  /\ Go(h, "finish")
  /\ UNCHANGED <<Quiet, draft, row, mishaps>>

\* The admin is told how many videos have been counted ("the hash" of the feedback,
\* which is common to the modes and is made anew by a video that is late).
FinishesFeedback(h) ==
  /\ at[h].pc \in {"finish", "restart"}
  /\ IF at[h].pc = "finish" THEN Proceed(h) ELSE Go(h, "reset")
  /\ UNCHANGED <<Quiet, data, mishaps>>

\* A session of the same mode is finished first, once its video is saved.
start_create_video_session(h) ==
  /\ IsAt(h, "op", "open")
  /\ IF ~sponsor THEN Proceed(h) /\ UNCHANGED mishaps
     ELSE /\ WaitIsOver(Mode(h))
          /\ Go(h, IF Open(Mode(h)) THEN "restart" ELSE "reset")
  /\ UNCHANGED <<Quiet, data>>

OpensSession(h) ==
  /\ at[h].pc = "reset"
  /\ session' = [session EXCEPT ![Mode(h)] = "WAITING_FOR_VIDEO"]
  /\ NowOpen(Mode(h))
  /\ Proceed(h)
  /\ UNCHANGED <<wire, kind, dedup, sponsor, refused, cutOff, draft, row, mishaps>>

----------------------------------------------------------------------------
(* Upload sessions: the intake of a video.                                 *)

\* What is no video is answered with a hint.
HintsAtVideo(h) ==
  /\ IsAt(h, "op", "take") /\ at[h].u \notin Clips
  /\ Proceed(h)
  /\ UNCHANGED <<Quiet, data, mishaps>>

claim_creation_state(h) ==
  /\ IsAt(h, "op", "take") /\ at[h].u \in Clips
  /\ IF session[Mode(h)] = "WAITING_FOR_VIDEO"
     THEN /\ session' = [session EXCEPT ![Mode(h)] = "ACCEPTING_VIDEO"]
          /\ Go(h, "claimed")
     ELSE Go(h, "look") /\ UNCHANGED session
  /\ UNCHANGED <<Quiet, draft, row, mishaps>>

\* It looks why it could not claim.  Unless the session is gone, Telegram has to try
\* again: also when the other video was saved between the claim and the look.
ClaimFails(h) ==
  LET m == Mode(h) IN
  /\ at[h].pc = "look"
  /\ \/ session[m] = "NONE" /\ Go(h, "refuse") /\ UNCHANGED <<dedup, mishaps>>
     \/ session[m] = "ACCEPTING_VIDEO" /\ Go(h, "op") /\ UNCHANGED <<dedup, mishaps>>
     \/ session[m] # "NONE" /\ WaitIsOver(m) /\ Raise(h)
  /\ UNCHANGED <<wire, kind, sponsor, opened, refused, cutOff, data>>

ReleasesTo(m) == IF session[m] = "ACCEPTING_VIDEO" THEN "WAITING_FOR_VIDEO" ELSE session[m]

\* Mutant: the bot's row is not locked.
NotLocked(h) == at[h].pc # "idle"

\* The INSERT takes a share of the bot's row.
BotFree(h) ==
  \A g \in Handlers \ {h} :
    at[g].pc # "locked" /\ (at[g].pc = "row" => Doing(g) # "begin")

\* Without a sponsor the session is closed; a message that has a row is left alone;
\* the row is committed with its job, or the session is released and an error told.
SavesVideo(h) ==
  LET v == at[h].u  m == Mode(h) IN
  /\ at[h].pc = "claimed"
  /\ \/ /\ ~sponsor
        /\ session' = [session EXCEPT ![m] = "NONE"]
        /\ Go(h, "refuse")
        /\ UNCHANGED <<row, mishaps>>
     \/ /\ sponsor /\ row[v] # Nothing
        /\ session' = [session EXCEPT ![m] = ReleasesTo(m)]
        /\ Go(h, "reply")
        /\ UNCHANGED <<row, mishaps>>
     \/ /\ sponsor /\ row[v] = Nothing /\ BotFree(h)
        /\ row' = [row EXCEPT ![v] = m]
        /\ Go(h, "stored")
        /\ UNCHANGED <<session, mishaps>>
     \/ /\ sponsor /\ row[v] = Nothing /\ GoesWrong
        /\ session' = [session EXCEPT ![m] = ReleasesTo(m)]
        /\ Go(h, "refuse")
        /\ UNCHANGED row
  /\ UNCHANGED <<Quiet, draft>>

CountsVideo(h) ==
  /\ at[h].pc = "stored"
  /\ Go(h, "counted")
  /\ UNCHANGED <<Quiet, data, mishaps>>

release_creation_state(h) ==
  /\ at[h].pc = "counted"
  /\ session' = [session EXCEPT ![Mode(h)] = ReleasesTo(Mode(h))]
  /\ Done(h)
  /\ UNCHANGED <<kind, dedup, sponsor, opened, refused, cutOff, draft, row, mishaps>>

\* In 30 minutes of silence, or after a handler died or raised at ACCEPTING_VIDEO.
SessionExpires(m) ==
  /\ Open(m) /\ ~InHand(m)
  /\ IF session[m] = "ACCEPTING_VIDEO" THEN UNCHANGED mishaps ELSE GoesWrong
  /\ session' = [session EXCEPT ![m] = "NONE"]
  /\ UNCHANGED <<Quiet, draft, row, at>>

----------------------------------------------------------------------------
(* Collections.  A query for the draft FOR UPDATE reads which row it is to *)
(* lock, waits for the row, and finds nothing if that is no draft any more. *)

DraftExpires(d) ==
  /\ draft[d].status = "DRAFT" /\ GoesWrong
  /\ \A h \in Handlers : at[h].target # d
  /\ draft' = [draft EXCEPT ![d].status = "EXPIRED"]
  /\ UNCHANGED <<Quiet, session, row, at>>

\* Without an enabled sponsor nothing is begun; otherwise the bot's row is locked.
LocksBot(h) ==
  /\ IsAt(h, "op", "begin")
  /\ IF sponsor THEN BotFree(h) /\ Go(h, "locked") ELSE Proceed(h)
  /\ UNCHANGED <<Quiet, data, mishaps>>

ReadsTarget(h) ==
  /\ \/ at[h].pc = "op" /\ Doing(h) \in {"drop", "collect", "publish"}
     \/ at[h].pc = "locked"
  /\ at' = [at EXCEPT ![h].pc = "row", ![h].target = Newest]
  /\ UNCHANGED <<Quiet, data, mishaps>>

\* /done keeps the row of its draft while it publishes it.
RowFree(h) == \A g \in Handlers \ {h} : at[g].pc = "holding" => at[g].target # at[h].target
StillDraft(h) == at[h].target # Nothing /\ draft[at[h].target].status = "DRAFT"

\* Mutant: a status the table does not know.
Discarded(d) == [draft EXCEPT ![d].status = "DISCARDED"]
Cancelled(d) == [draft EXCEPT ![d].status = "CANCELLED"]

\* The collection's cancel: of /cancel, and of a command that begins something else.
CancelsDraft(h) ==
  /\ IsAt(h, "row", "drop") /\ RowFree(h)
  /\ draft' = IF StillDraft(h) THEN Cancelled(at[h].target) ELSE draft
  /\ Proceed(h)
  /\ UNCHANGED <<Quiet, session, row, mishaps>>

\* An older draft is cancelled and a new one committed.
BeginsCollection(h) ==
  /\ IsAt(h, "row", "begin") /\ RowFree(h)
  /\ \E d \in DraftIds :
       /\ draft[d].status = "ABSENT" /\ \A e \in DraftIds : e < d => draft[e].status # "ABSENT"
       /\ draft' = [(IF StillDraft(h) THEN Cancelled(at[h].target) ELSE draft)
                      EXCEPT ![d] = NewDraft(Mode(h))]
  /\ NowOpen(Mode(h))
  /\ Proceed(h)
  /\ UNCHANGED <<wire, kind, dedup, sponsor, refused, cutOff, session, row, mishaps>>

receive(h) ==
  LET d == at[h].target  u == at[h].u IN
  /\ IsAt(h, "row", "collect") /\ RowFree(h)
  /\ CASE StillDraft(h) /\ u \in Clips ->
            draft' = [draft EXCEPT ![d].items = @ \cup {u}] /\ Proceed(h)
       [] StillDraft(h) /\ u \notin Clips ->
            draft' = [draft EXCEPT ![d].thumb = @ \/ draft[d].mode = "PUBLISHED"] /\ Proceed(h)
       [] ~StillDraft(h) ->
            Go(h, IF u \in Clips THEN "refuse" ELSE "reply") /\ UNCHANGED draft
  /\ UNCHANGED <<Quiet, session, row, mishaps>>

\* The thumbnail of a row that is loaded already is the one it had then.
ThumbSeen(h) == IF at[h].target = at[h].draft THEN at[h].thumb ELSE draft[at[h].target].thumb
Complete(h) ==
  LET d == draft[at[h].target] IN
  d.items # {} /\ (d.mode = "PUBLISHED" => ThumbSeen(h)) /\ sponsor

\* /done has locked its draft, and publishes it if it is complete.
finish(h) ==
  /\ IsAt(h, "row", "publish") /\ RowFree(h)
  /\ Go(h, IF StillDraft(h) /\ Complete(h) THEN "holding" ELSE "reply")
  /\ UNCHANGED <<Quiet, data, mishaps>>

First(d) == CHOOSE v \in draft[d].items : \A x \in draft[d].items : v <= x

\* The first video's message gets the row, unless it has one.
PublishesDraft(h) ==
  LET d == at[h].target  v == First(d) IN
  /\ at[h].pc = "holding" /\ BotFree(h)
  /\ IF row[v] = Nothing
     THEN /\ row' = [row EXCEPT ![v] = draft[d].mode]
          /\ draft' = [draft EXCEPT ![d].status = "PUBLISHED"]
          /\ Proceed(h) /\ UNCHANGED dedup
     ELSE Raise(h) /\ UNCHANGED <<row, draft>>
  /\ UNCHANGED <<wire, kind, sponsor, opened, refused, cutOff, session, mishaps>>

\* /done has the draft and wants the bot, a new collection has the bot and wants the
\* draft: the database aborts one of the two.
DeadlockAborts(h) ==
  /\ \E g \in Handlers \ {h} :
       LET begun == {x \in {g, h} : at[x].pc = "row" /\ Doing(x) = "begin"}
           held == {x \in {g, h} : at[x].pc = "holding"}
       IN  begun # {} /\ held # {} /\ at[g].target = at[h].target
  /\ Raise(h)
  /\ UNCHANGED <<wire, kind, sponsor, opened, refused, cutOff, data, mishaps>>

----------------------------------------------------------------------------
(* What goes wrong.                                                         *)

\* The key is set, and the query for the admin raises: outside of the dispatcher's
\* try, the key stays, and the update that is delivered again is a duplicate.
RoleRaises(h) ==
  /\ at[h].pc = "new" /\ GoesWrong
  /\ dedup' = dedup \cup {at[h].u}
  /\ at' = [at EXCEPT ![h] = NoUpdate]
  /\ cutOff' = cutOff \cup {at[h].u}
  /\ UNCHANGED <<wire, kind, sponsor, opened, refused, data>>

\* The router raises.  While a video is counted, that is caught.
HandlerRaises(h) ==
  /\ at[h].pc \notin {"idle", "new", "stored", "counted"} /\ GoesWrong
  /\ Raise(h)
  /\ UNCHANGED <<wire, kind, sponsor, opened, refused, cutOff, data>>

\* The deduplication key stays.
ProcessDies(h) ==
  /\ at[h].pc # "idle" /\ GoesWrong
  /\ at' = [at EXCEPT ![h] = NoUpdate]
  /\ cutOff' = cutOff \cup {at[h].u}
  /\ UNCHANGED <<wire, kind, dedup, sponsor, opened, refused, data>>

SponsorChanges ==
  /\ GoesWrong
  /\ sponsor' = ~sponsor
  /\ UNCHANGED <<wire, kind, dedup, opened, refused, cutOff, data, at>>

\* Everything sent is answered: a system that stops anywhere else is deadlocked.
Rests ==
  /\ \A u \in Updates : wire[u] # "due"
  /\ \A h \in Handlers : at[h].pc = "idle"
  /\ UNCHANGED uploadVars

----------------------------------------------------------------------------
Step(h) ==
  \/ Routes(h) \/ RoutesTo(h, "link", "LINK_ONLY") \/ RoutesTo(h, "normal", "PUBLISHED")
  \/ Answers(h)
  \/ close_if_active(h) \/ cancel_create_video_session(h) \/ clear_creation_state(h)
  \/ FinishesFeedback(h) \/ start_create_video_session(h) \/ OpensSession(h)
  \/ HintsAtVideo(h) \/ claim_creation_state(h) \/ ClaimFails(h) \/ SavesVideo(h)
  \/ CountsVideo(h) \/ release_creation_state(h)
  \/ LocksBot(h) \/ ReadsTarget(h) \/ CancelsDraft(h) \/ BeginsCollection(h)
  \/ receive(h) \/ finish(h) \/ PublishesDraft(h) \/ DeadlockAborts(h)

UploadNext ==
  \/ \E h \in Handlers : \/ Step(h) \/ RoleRaises(h) \/ HandlerRaises(h)
                          \/ ProcessDies(h)
                          \/ \E u \in Updates : Sends(h, u) \/ Resends(h, u)
  \/ \E m \in Modes : SessionExpires(m)
  \/ \E d \in DraftIds : DraftExpires(d)
  \/ SponsorChanges
  \/ Rests

UploadSpec == UploadInit /\ [][UploadNext]_uploadVars

----------------------------------------------------------------------------
\* However commands overlap, the admin has one draft at most: a video goes into the
\* collection that the next /done publishes (the lock of the bot's row in
\* video_collection_service.start).
OneDraft == Cardinality(Drafts) <= 1

\* A video whose update is over has a row in videos or is in a collection, in a mode
\* that has been open since it was sent (a video meant for a link is not broadcast),
\* or the admin was told that it is not taken; unless its handler died, or raised
\* before the router had it, or it was answered as a duplicate while it was served.
\* Whatever the router raises, Telegram delivers it again and it is taken up anew.
Taken(v) ==
  \/ row[v] \in opened[v]
  \/ \E d \in DraftIds : v \in draft[d].items /\ draft[d].mode \in opened[v]
EveryVideoAccountedFor ==
  \A v \in Clips :
    /\ row[v] # Nothing => row[v] \in opened[v]
    /\ wire[v] = "done" /\ ~Served(v) => Taken(v) \/ v \in refused \/ v \in cutOff
=============================================================================
