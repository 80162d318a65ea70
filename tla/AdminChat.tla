------------------------------ MODULE AdminChat ------------------------------
(***************************************************************************)
(* The messages that are asked for: an administrator composes a broadcast   *)
(* (telegram/campaign_flow.py, admin/campaigns.py, control_hub/campaigns.py)*)
(* or changes a setting of a bot (admin/sponsor.py,                         *)
(* admin/custom_messages.py), and the next text that arrives is taken for   *)
(* the answer (admin_router.py, control_hub/router.py).                     *)
(*                                                                         *)
(* What has been asked for is kept in Redis under three keys, for half an   *)
(* hour.  Updates are served at once: a handler looks at the keys one after *)
(* the other, works in a database session, and its changes are there when   *)
(* it commits.  Either the owner writes to the Control Hub or the owner of  *)
(* one bot to that bot; the two share nothing but the campaigns table,      *)
(* where their keys differ.  The bot's settings and sponsor rows are        *)
(* written when it is connected, so no handler has to create them.          *)
(***************************************************************************)
EXTENDS Naturals, Sequences

CONSTANTS
  Messages,   \* what the administrator sends that is not a command
  Audiences,  \* ONE_BOT and some of OWNERS and ALL_VIEWERS
  Columns,    \* start_message and default_message, which are treated alike
  Requests,   \* the updates served at once
  MaxFaults,  \* bound: handlers that raise or die
  None

ASSUME NoneIsNone == None \notin Messages \cup Columns
ASSUME SponsorIsNoColumn == "sponsor" \notin Columns
ASSUME OneBot == "ONE_BOT" \in Audiences /\ "NONE" \notin Audiences
ASSUME MaxFaultsNat == MaxFaults \in Nat

VARIABLES
  chat,            \* who writes: HUB or CLIENT
  active,          \* the bot is ACTIVE
  draft,           \* controlhub:campaign:draft:<scope>:<user>
  messages_state,  \* controlhub:clientbot:messages_state:<bot>:<user>: the column
                   \* whose text is waited for
  sponsor_state,   \* controlhub:clientbot:sponsor_state:<bot>:<user>
  settings,        \* the bot's row of client_bot_settings
  sponsor,         \* the bot's row of sponsor_configs
  campaigns,       \* the rows of message_campaigns, in the order of their commits
  sent,            \* the messages that have been sent
  req,             \* the handlers at work
  faults,
  chosen,          \* history: the audience chosen last, NONE once that was cancelled,
                   \* left, expired or sent to
  raced,           \* history: the draft has an audience that was chosen before
  previewed,       \* history: messages shown with "Send broadcast" under them
  cutOff,          \* history: messages of a draft whose preview was cut off, and
                   \* that were not shown before or since
  asked            \* history: what the administrator was asked for and not let off

redis == <<draft, messages_state, sponsor_state>>
database == <<settings, sponsor, campaigns>>
composing == <<chosen, raced, previewed, cutOff>>
history == <<composing, asked>>
vars == <<chat, active, redis, database, sent, req, faults, history>>

----------------------------------------------------------------------------
Draft == [audience : Audiences \cup {"NONE"}, content : Messages \cup {None}]
NoDraft == [audience |-> "NONE", content |-> None]

Texts == Messages \cup {None, "welcome"}
Sponsor == [sponsor_url : Messages \cup {None}, is_enabled : BOOLEAN]

Kinds == {"none", "text", "command", "confirm", "cancel", "home", "help", "enable", "disable", "reset"}
PCs == {"idle", "draft", "messages", "sponsor", "receive", "preview", "load", "flush", "look", "select",
        "insert", "commit", "clear"}
Request == [pc : PCs, kind : Kinds, msg : Messages \cup {None},
            what : Columns \cup {"sponsor", "none"},
            draft : Draft,          \* what it read of the draft
            seen : BOOLEAN,         \* it read is_enabled, or no text in the column
            ok : BOOLEAN]           \* history: asked for, or as composed, when it looked
Idle == [pc |-> "idle", kind |-> "none", msg |-> None, what |-> "none",
         draft |-> NoDraft, seen |-> FALSE, ok |-> FALSE]

Prompts == Columns \cup {"sponsor"}

TypeOK ==
  /\ chat \in {"HUB", "CLIENT"}
  /\ active \in BOOLEAN
  /\ draft \in Draft
  /\ messages_state \in Columns \cup {None}
  /\ sponsor_state \in {"NONE", "WAITING_FOR_SPONSOR_URL"}
  /\ settings \in [Columns -> Texts]
  /\ sponsor \in Sponsor
  /\ campaigns \in Seq([msg : Messages, audience : Audiences])
  /\ sent \subseteq Messages
  /\ req \in [Requests -> Request]
  /\ faults \in 0..MaxFaults
  /\ chosen \in Audiences \cup {"NONE"}
  /\ raced \in BOOLEAN
  /\ previewed \subseteq Messages /\ cutOff \subseteq Messages
  /\ asked \subseteq Prompts

Init ==
  /\ chat \in {"HUB", "CLIENT"}
  /\ active = TRUE
  /\ draft = NoDraft /\ messages_state = None /\ sponsor_state = "NONE"
  /\ settings = [c \in Columns |-> "welcome"]
  /\ sponsor = [sponsor_url |-> None, is_enabled |-> FALSE]
  /\ campaigns = <<>>
  /\ sent = {}
  /\ req = [r \in Requests |-> Idle]
  /\ faults = 0
  /\ chosen = "NONE" /\ raced = FALSE /\ previewed = {} /\ cutOff = {}
  /\ asked = {}

----------------------------------------------------------------------------
(* What the administrator goes by.                                          *)

\* The administrator chooses an audience, or none any more.
Chooses(audience) ==
  /\ chosen' = audience /\ raced' = FALSE
  /\ UNCHANGED <<previewed, cutOff>>

\* The preview of a message is still on its way.
Previewing(m) == \E r \in Requests : req[r].pc = "preview" /\ req[r].msg = m

\* What is about to be sent is for the audience chosen last, and has been shown in a
\* preview.
AsComposed(d) ==
  /\ d.audience = chosen \/ raced
  /\ d.content \in previewed \cup cutOff \/ Previewing(d.content)

LetOff(what) == asked' = asked \ what

----------------------------------------------------------------------------
(* The three keys.  A handler that finds nobody waiting goes on to the next *)
(* key; the expiry of a key can happen at any time.                         *)

get_draft == draft
set_draft(d) == draft' = d
\* Mutant: nothing is cleared.
KeepDraft == UNCHANGED draft
clear_draft == draft' = NoDraft

\* Mutant: nothing is cleared.
KeepMessagesState == UNCHANGED messages_state
clear_messages_state == messages_state' = None
clear_sponsor_state == sponsor_state' = "NONE"

expire_draft ==
  /\ draft # NoDraft
  /\ clear_draft
  /\ Chooses("NONE")
  /\ UNCHANGED <<chat, active, messages_state, sponsor_state, database, sent, req, faults,
                 asked>>

expire_messages_state ==
  /\ messages_state # None
  /\ clear_messages_state
  /\ LetOff(Columns)
  /\ UNCHANGED <<chat, active, draft, sponsor_state, database, sent, req, faults, composing>>

expire_sponsor_state ==
  /\ sponsor_state # "NONE"
  /\ clear_sponsor_state
  /\ LetOff({"sponsor"})
  /\ UNCHANGED <<chat, active, draft, messages_state, database, sent, req, faults, composing>>

----------------------------------------------------------------------------
(* Buttons that only write a key.                                           *)

\* A paused bot answers its administrator that it is paused, whatever is sent.
Served == chat = "HUB" \/ active

\* The owner chooses who receives a broadcast; in a bot the choice is made.
\* /sendbroadcast and admin:campaign:new, owner:campaign:owners, :all, :bot.
NewDraft(audience) ==
  /\ Served
  /\ chat = "CLIENT" => audience = "ONE_BOT"
  /\ audience = "ONE_BOT" => active
  /\ set_draft([audience |-> audience, content |-> None])
  /\ Chooses(audience)
  /\ UNCHANGED <<chat, active, messages_state, sponsor_state, database, sent, req, faults, asked>>

\* The button, and in the Control Hub /cancel too.
cancel_draft ==
  /\ Served
  /\ clear_draft
  /\ Chooses("NONE")
  /\ UNCHANGED <<chat, active, messages_state, sponsor_state, database, sent, req, faults, asked>>

\* admin:startmessage:set and admin:defaultmessage:set.
ask_message(column) ==
  /\ chat = "CLIENT" /\ active
  /\ messages_state' = column
  /\ asked' = (asked \ Columns) \cup {column}
  /\ UNCHANGED <<chat, active, draft, sponsor_state, database, sent, req, faults, composing>>

\* admin:sponsor:set.
ask_sponsor_url ==
  /\ chat = "CLIENT" /\ active
  /\ sponsor_state' = "WAITING_FOR_SPONSOR_URL"
  /\ asked' = asked \cup {"sponsor"}
  /\ UNCHANGED <<chat, active, draft, messages_state, database, sent, req, faults, composing>>

\* The bot is disconnected or loses its token, and is connected again.
bot_changes ==
  /\ active' = ~active
  /\ UNCHANGED <<chat, redis, database, sent, req, faults, history>>

----------------------------------------------------------------------------
(* An update that is served in several steps.                               *)

Begins(r, q) ==
  /\ Served
  /\ req[r] = Idle
  /\ req' = [req EXCEPT ![r] = q]
  /\ UNCHANGED <<chat, active, redis, database, history>>

\* A text, a photo, a video.  The Control Hub does not remember which updates
\* it has served: it serves one again that Telegram sends again.
Send(r, m) ==
  /\ \/ m \notin sent /\ UNCHANGED faults
     \/ m \in sent /\ chat = "HUB" /\ faults < MaxFaults /\ faults' = faults + 1
  /\ sent' = sent \cup {m}
  /\ Begins(r, [Idle EXCEPT !.pc = "draft", !.kind = "text", !.msg = m])

\* /startmessage <text>, /defaultmessage <text>, /sponsor <url>: no key is asked.
SendCommand(r, m, what) ==
  /\ chat = "CLIENT" /\ m \notin sent
  /\ sent' = sent \cup {m} /\ UNCHANGED faults
  /\ Begins(r, [Idle EXCEPT !.pc = "load", !.kind = "command", !.msg = m, !.what = what,
                            !.ok = TRUE])

\* "Send broadcast".
TapConfirm(r) ==
  /\ Begins(r, [Idle EXCEPT !.pc = "look", !.kind = "confirm"])
  /\ UNCHANGED <<sent, faults>>

\* The other updates are of a bot, and need no message.
Tap(r, kind, what, pc) ==
  /\ chat = "CLIENT"
  /\ Begins(r, [Idle EXCEPT !.pc = pc, !.kind = kind, !.what = what])
  /\ UNCHANGED <<sent, faults>>

SendCancel(r) == Tap(r, "cancel", "none", "draft")
\* /start, and what creates a video or a collection, drop a draft; /help does not.
SendStart(r) == Tap(r, "home", "none", "draft")
SendHelp(r) == Tap(r, "help", "none", "messages")
reset_message(r, column) == Tap(r, "reset", column, "load")
\* enable_sponsor, disable_sponsor.
switch_sponsor(r, kind) == Tap(r, kind, "sponsor", "load")

\* The handler goes on, or is through.
Goes(r, q) == req' = [req EXCEPT ![r] = q]
To(r, pc) == Goes(r, [req[r] EXCEPT !.pc = pc])
Ends(r) == Goes(r, Idle)

\* Its session is rolled back; Telegram sends the update again, or the dead
\* process has left the note that it was served.
First(q) ==
  CASE q.kind = "confirm" -> [Idle EXCEPT !.pc = "look", !.kind = "confirm"]
    [] q.kind = "text"    -> [Idle EXCEPT !.pc = "draft", !.kind = "text", !.msg = q.msg]
    [] q.kind \in {"cancel", "home"} -> [Idle EXCEPT !.pc = "draft", !.kind = q.kind]
    [] q.kind = "help" -> [Idle EXCEPT !.pc = "messages", !.kind = "help"]
    [] OTHER -> [q EXCEPT !.pc = "load", !.seen = FALSE]
Fails(r) == Ends(r) \/ Goes(r, First(req[r]))

Fault(r) ==
  /\ req[r] # Idle
  /\ faults < MaxFaults /\ faults' = faults + 1
  /\ Fails(r)
  /\ cutOff' = IF req[r].pc = "preview" THEN cutOff \cup ({req[r].msg} \ previewed) ELSE cutOff
  /\ UNCHANGED <<chat, active, redis, database, sent, chosen, raced, previewed, asked>>

----------------------------------------------------------------------------
(* Looking for what was asked.                                              *)

look_draft(r) ==
  /\ req[r].pc = "draft"
  /\ CASE req[r].kind = "text" /\ draft = NoDraft ->
            /\ IF chat = "HUB" THEN Ends(r) ELSE To(r, "messages")
            /\ UNCHANGED <<draft, composing>>
       [] req[r].kind = "text" /\ draft # NoDraft ->
            \* not what can be broadcast, or too large for the bots
            /\ \/ Ends(r)
               \/ Goes(r, [req[r] EXCEPT !.pc = "receive", !.draft = get_draft])
            /\ UNCHANGED <<draft, composing>>
       [] req[r].kind = "cancel" /\ draft = NoDraft ->
            To(r, "messages") /\ UNCHANGED <<draft, composing>>
       [] req[r].kind = "cancel" /\ draft # NoDraft ->
            Ends(r) /\ clear_draft /\ Chooses("NONE")
       [] req[r].kind = "home" ->
            To(r, "messages") /\ clear_draft /\ Chooses("NONE")
  /\ UNCHANGED <<chat, active, messages_state, sponsor_state, database, sent, faults, asked>>

\* The draft is written with the audience that was read, whatever has become of the
\* draft in between; then the preview is sent.
receive(r) ==
  /\ req[r].pc = "receive"
  /\ set_draft([req[r].draft EXCEPT !.content = req[r].msg])
  /\ raced' = (raced \/ req[r].draft.audience # draft.audience)
  /\ To(r, "preview")
  /\ UNCHANGED <<chat, active, messages_state, sponsor_state, database, sent, faults,
                 chosen, previewed, cutOff, asked>>

\* The message and, under it, "Send broadcast".
preview(r) ==
  /\ req[r].pc = "preview"
  /\ previewed' = previewed \cup {req[r].msg} /\ cutOff' = cutOff \ {req[r].msg}
  /\ Ends(r)
  /\ UNCHANGED <<chat, active, redis, database, sent, faults, chosen, raced, asked>>

look_messages(r) ==
  /\ req[r].pc = "messages"
  /\ CASE req[r].kind = "text" ->
            /\ \/ \E c \in Columns :
                    /\ messages_state = c
                    /\ \/ Goes(r, [req[r] EXCEPT !.pc = "load", !.what = c, !.ok = c \in asked])
                       \/ Ends(r)   \* a photo, a video: there is no text to store
               \/ messages_state = None /\ To(r, "sponsor")
            /\ UNCHANGED <<messages_state, asked>>
       [] req[r].kind = "cancel" /\ messages_state = None ->
            To(r, "sponsor") /\ UNCHANGED <<messages_state, asked>>
       [] req[r].kind = "cancel" /\ messages_state # None ->
            Ends(r) /\ clear_messages_state /\ asked' = asked \ Columns
       [] req[r].kind \in {"home", "help"} ->
            To(r, "sponsor") /\ clear_messages_state /\ asked' = asked \ Columns
  /\ UNCHANGED <<chat, active, draft, sponsor_state, database, sent, faults, composing>>

\* /cancel that finds nothing clears both keys once more.
look_sponsor(r) ==
  /\ req[r].pc = "sponsor"
  /\ CASE req[r].kind = "text" /\ sponsor_state = "NONE" ->
            Ends(r) /\ UNCHANGED <<messages_state, sponsor_state, asked>>
       [] req[r].kind = "text" /\ sponsor_state # "NONE" ->
            /\ Goes(r, [req[r] EXCEPT !.pc = "load", !.what = "sponsor",
                                      !.ok = "sponsor" \in asked])
            /\ UNCHANGED <<messages_state, sponsor_state, asked>>
       [] req[r].kind = "cancel" /\ sponsor_state # "NONE" ->
            /\ Ends(r) /\ clear_sponsor_state
            /\ asked' = asked \ {"sponsor"}
            /\ UNCHANGED messages_state
       [] req[r].kind = "cancel" /\ sponsor_state = "NONE" ->
            /\ Ends(r) /\ clear_messages_state /\ clear_sponsor_state
            /\ asked' = {}
       [] req[r].kind \in {"home", "help"} ->
            /\ Ends(r) /\ clear_sponsor_state
            /\ asked' = asked \ {"sponsor"}
            /\ UNCHANGED messages_state
  /\ UNCHANGED <<chat, active, draft, database, sent, faults, composing>>

----------------------------------------------------------------------------
(* Settings and sponsor: one row each, read, changed, flushed, committed.   *)

\* The columns the session writes: those it gave a value they did not have
\* when it read the row.
Writes(q) ==
  CASE q.pc = "idle" \/ q.kind = "confirm" -> {}
    [] q.what \in Columns -> IF q.kind = "reset" /\ q.seen THEN {} ELSE {q.what}
    [] q.kind = "enable"  -> IF q.seen THEN {} ELSE {"is_enabled"}
    [] q.kind = "disable" -> IF q.seen THEN {"is_enabled"} ELSE {}
    [] OTHER -> {"sponsor_url"} \cup (IF q.seen THEN {} ELSE {"is_enabled"})

\* A row that is written stays locked until the commit.
Locked(r) ==
  \E s \in Requests \ {r} :
    /\ req[s].pc = "commit" /\ Writes(req[s]) # {}
    /\ (req[s].what = "sponsor") = (req[r].what = "sponsor")

load_settings(r) ==
  /\ req[r].pc = "load" /\ req[r].what \in Columns
  /\ Goes(r, [req[r] EXCEPT !.pc = "flush",
                            !.seen = req[r].kind = "reset" /\ settings[req[r].what] = None])
  /\ UNCHANGED <<chat, active, redis, database, sent, faults, history>>

\* What is no link is refused, and so is enabling none: the question stays open.
validate_sponsor_url(r) ==
  /\ req[r].pc = "load" /\ req[r].what = "sponsor"
  /\ req[r].kind # "disable" /\ (req[r].kind = "enable" => sponsor.sponsor_url = None)
  /\ Ends(r)
  /\ UNCHANGED <<chat, active, redis, database, sent, faults, history>>

load_sponsor(r) ==
  /\ req[r].pc = "load" /\ req[r].what = "sponsor"
  /\ req[r].kind = "enable" => sponsor.sponsor_url # None
  /\ Goes(r, [req[r] EXCEPT !.pc = "flush", !.seen = sponsor.is_enabled])
  /\ UNCHANGED <<chat, active, redis, database, sent, faults, history>>

\* The UPDATE; then the key of the conversation is cleared, and the
\* administrator is told that the value is saved.
flush(r) ==
  /\ req[r].pc = "flush"
  /\ Writes(req[r]) # {} => ~Locked(r)
  /\ IF req[r].kind \notin {"text", "command"}
       THEN UNCHANGED <<messages_state, sponsor_state, asked>>
     ELSE IF req[r].what = "sponsor"
       THEN clear_sponsor_state /\ asked' = asked \ {"sponsor"} /\ UNCHANGED messages_state
       ELSE clear_messages_state /\ asked' = asked \ Columns /\ UNCHANGED sponsor_state
  /\ To(r, "commit")
  /\ UNCHANGED <<chat, active, draft, database, sent, faults, composing>>

commit(r) ==
  /\ req[r].pc = "commit" /\ req[r].kind # "confirm"
  /\ settings' = [c \in Columns |->
       CASE c \notin Writes(req[r]) -> settings[c]
         [] req[r].kind = "reset"   -> None
         [] OTHER                   -> req[r].msg]
  /\ sponsor' =
       [sponsor_url |-> IF "sponsor_url" \in Writes(req[r]) THEN req[r].msg ELSE sponsor.sponsor_url,
        is_enabled  |-> IF "is_enabled" \in Writes(req[r]) THEN req[r].kind # "disable"
                                                           ELSE sponsor.is_enabled]
  /\ Ends(r)
  /\ UNCHANGED <<chat, active, redis, campaigns, sent, faults, history>>

----------------------------------------------------------------------------
(* "Send broadcast".  The key of a campaign is the message it was made of.  *)

Made(m) == \E i \in DOMAIN campaigns : campaigns[i].msg = m

look_confirm(r) ==
  /\ req[r].pc = "look"
  /\ IF draft.content = None
       THEN Ends(r)
       ELSE Goes(r, [req[r] EXCEPT !.pc = "select", !.draft = get_draft, !.ok = AsComposed(draft)])
  /\ UNCHANGED <<chat, active, redis, database, sent, faults, history>>

\* A campaign with this key is taken for the one to make.
select_existing(r) ==
  /\ req[r].pc = "select"
  /\ To(r, IF Made(req[r].draft.content) THEN "clear" ELSE "insert")
  /\ UNCHANGED <<chat, active, redis, database, sent, faults, history>>

\* Mutant: the key is not unique.
InsertAnyway(r) ==
  /\ req[r].pc = "insert"
  /\ IF ~active /\ req[r].draft.audience = "ONE_BOT" THEN Ends(r) ELSE To(r, "commit")
  /\ UNCHANGED <<chat, active, redis, database, sent, faults, history>>

\* The INSERT waits for another one with the same key and fails if that one
\* was committed; nothing is made for a bot that is not active.
insert(r) ==
  /\ req[r].pc = "insert"
  /\ \A s \in Requests \ {r} :
       req[s].pc = "commit" => req[s].draft.content # req[r].draft.content
  /\ CASE Made(req[r].draft.content) -> Fails(r)
       [] ~active /\ req[r].draft.audience = "ONE_BOT" -> Ends(r)
       [] OTHER -> To(r, "commit")
  /\ UNCHANGED <<chat, active, redis, database, sent, faults, history>>

commit_campaign(r) ==
  /\ req[r].pc = "commit" /\ req[r].kind = "confirm"
  /\ campaigns' = Append(campaigns, [msg |-> req[r].draft.content,
                                     audience |-> req[r].draft.audience])
  /\ To(r, "clear")
  /\ UNCHANGED <<chat, active, redis, settings, sponsor, sent, faults, history>>

clear_confirmed(r) ==
  /\ req[r].pc = "clear"
  /\ clear_draft
  /\ Chooses("NONE")
  /\ Ends(r)
  /\ UNCHANGED <<chat, active, messages_state, sponsor_state, database, sent, faults,
                 asked>>

----------------------------------------------------------------------------
Next ==
  \/ expire_draft \/ expire_messages_state \/ expire_sponsor_state
  \/ bot_changes
  \/ \E a \in Audiences : NewDraft(a)
  \/ cancel_draft
  \/ \E c \in Columns : ask_message(c)
  \/ ask_sponsor_url
  \/ \E r \in Requests :
       \/ \E m \in Messages : Send(r, m)
       \/ \E m \in Messages, what \in Prompts : SendCommand(r, m, what)
       \/ TapConfirm(r) \/ SendCancel(r) \/ SendStart(r) \/ SendHelp(r)
       \/ \E c \in Columns : reset_message(r, c)
       \/ \E kind \in {"enable", "disable"} : switch_sponsor(r, kind)
       \/ look_draft(r) \/ receive(r) \/ preview(r) \/ look_messages(r) \/ look_sponsor(r)
       \/ load_settings(r) \/ validate_sponsor_url(r) \/ load_sponsor(r) \/ flush(r) \/ commit(r)
       \/ look_confirm(r) \/ select_existing(r) \/ insert(r) \/ commit_campaign(r)
       \/ clear_confirmed(r)
       \/ Fault(r)

Spec == Init /\ [][Next]_vars

----------------------------------------------------------------------------
\* However often "Send broadcast" is tapped, whichever handler dies and is
\* served again, one message becomes one campaign at most: the unique
\* idempotency_key of message_campaigns, looked for before and enforced by the
\* INSERT (message_campaign_service.create).
OncePerMessage ==
  \A i, j \in DOMAIN campaigns : campaigns[i].msg = campaigns[j].msg => i = j

\* What is made a campaign is, when "Send broadcast" finds it, for the audience chosen
\* last, and nothing once that was cancelled, left by another command, has expired or
\* was already sent to; unless a message was being received while the audience was
\* chosen, whose handler writes back the one it has read.  And the message was shown
\* in a preview, unless that was cut off or is still on its way: the draft is written
\* first, and the button of an older preview sends whatever it holds.
SentAsComposed ==
  [][\A r \in Requests : commit_campaign(r) => req[r].ok]_vars

\* A text becomes a welcome text, a default answer or the sponsor's link only if
\* that was asked for when the handler looked, and the administrator had not
\* been let off since: by /cancel, /start, a command that creates something, a
\* value that was saved, or the half hour.
StoredOnlyIfAsked ==
  [][\A r \in Requests : commit(r) /\ Writes(req[r]) # {} /\ req[r].kind = "text" => req[r].ok]_vars
=============================================================================
