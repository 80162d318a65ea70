---------------------------- MODULE ChatsProofs ----------------------------
(***************************************************************************)
(* Of the conversations of AdminChat, for any messages, audiences, columns  *)
(* and number of updates served at once, and any number of handlers that    *)
(* die: a message becomes one campaign at most, as it was composed, and a   *)
(* text is stored only where it was asked for.                              *)
(*                                                                         *)
(* Of the screens of HubScreens, for any users, tables, page size and       *)
(* number of changes meanwhile: every button is answered, a client is shown *)
(* its own bots only, and no row of a list is missed.                       *)
(***************************************************************************)
EXTENDS Chats, SequenceTheorems, FiniteSetTheorems, WellFoundedInduction, TLAPS

----------------------------------------------------------------------------
(* What a handler has in hand.                                              *)

Conversation == {"text", "cancel", "home", "help"}
Setting == {"text", "command", "reset", "enable", "disable"}

\* The updates that pass through each step, and what they carry.
WellFormed(q) ==
  /\ q.pc = "idle" <=> q = Idle
  /\ q.pc = "draft" => q.kind \in {"text", "cancel", "home"}
  /\ q.pc \in {"messages", "sponsor"} => q.kind \in Conversation
  /\ q.pc \in {"receive", "preview"} => q.kind = "text"
  /\ q.pc = "receive" => q.draft.audience \in Audiences
  /\ q.pc \in {"load", "flush"} => q.kind \in Setting /\ q.what \in Prompts
  /\ q.pc \in {"look", "select", "insert", "clear"} => q.kind = "confirm"
  /\ q.pc = "commit" => q.kind \in Setting \cup {"confirm"}
  /\ q.pc = "commit" /\ q.kind # "confirm" => q.what \in Prompts
  /\ q.pc \in {"select", "insert", "commit"} /\ q.kind = "confirm" =>
       q.draft \in [audience : Audiences, content : Messages]
  /\ q.kind \in {"text", "command"} => q.msg \in Messages

Form == {q \in Request : WellFormed(q)}

\* A draft has an audience.
Typed ==
  /\ TypeOK
  /\ req \in [Requests -> Form]
  /\ draft = NoDraft \/ draft.audience \in Audiences

LEMMA IdleForm == Idle \in Form
BY OneBot DEF Idle, Form, WellFormed, Request, PCs, Kinds, Draft, NoDraft

\* The forms updates come in: for no text has it been looked whether it was
\* asked for.
Beginning ==
  {q \in Form : q.pc \in {"draft", "messages", "load", "look"}
               /\ (q.kind = "text" => q.pc = "draft")}

LEMMA BeginForm ==
  /\ \A m \in Messages :
       [Idle EXCEPT !.pc = "draft", !.kind = "text", !.msg = m] \in Beginning
  /\ \A m \in Messages, what \in Prompts :
       [Idle EXCEPT !.pc = "load", !.kind = "command", !.msg = m, !.what = what,
                    !.ok = TRUE] \in Beginning
  /\ [Idle EXCEPT !.pc = "look", !.kind = "confirm"] \in Beginning
  /\ \A kind \in {"cancel", "home"} :
       /\ [Idle EXCEPT !.pc = "draft", !.kind = kind] \in Beginning
       /\ [Idle EXCEPT !.pc = "draft", !.kind = kind, !.what = "none"] \in Beginning
  /\ [Idle EXCEPT !.pc = "messages", !.kind = "help"] \in Beginning
  /\ [Idle EXCEPT !.pc = "messages", !.kind = "help", !.what = "none"] \in Beginning
  /\ \A kind \in {"reset", "enable", "disable"}, what \in Prompts :
       [Idle EXCEPT !.pc = "load", !.kind = kind, !.what = what] \in Beginning
<1>. USE OneBot DEF Idle, Beginning, Form, WellFormed, Request, PCs, Kinds, Draft,
            NoDraft, Prompts
<1>1. ASSUME NEW m \in Messages
      PROVE  [Idle EXCEPT !.pc = "draft", !.kind = "text", !.msg = m] \in Beginning
  OBVIOUS
<1>2. ASSUME NEW m \in Messages, NEW what \in Prompts
      PROVE  [Idle EXCEPT !.pc = "load", !.kind = "command", !.msg = m, !.what = what,
                          !.ok = TRUE] \in Beginning
  BY DEF Setting
<1>3. [Idle EXCEPT !.pc = "look", !.kind = "confirm"] \in Beginning
  OBVIOUS
<1>4. ASSUME NEW kind \in {"cancel", "home"}
      PROVE  /\ [Idle EXCEPT !.pc = "draft", !.kind = kind] \in Beginning
             /\ [Idle EXCEPT !.pc = "draft", !.kind = kind, !.what = "none"] \in Beginning
  OBVIOUS
<1>5. /\ [Idle EXCEPT !.pc = "messages", !.kind = "help"] \in Beginning
      /\ [Idle EXCEPT !.pc = "messages", !.kind = "help", !.what = "none"] \in Beginning
  BY DEF Conversation
<1>6. ASSUME NEW kind \in {"reset", "enable", "disable"}, NEW what \in Prompts
      PROVE  [Idle EXCEPT !.pc = "load", !.kind = kind, !.what = what] \in Beginning
  BY DEF Setting
<1>. QED  BY <1>1, <1>2, <1>3, <1>4, <1>5, <1>6

\* The forms a handler takes on its way.
LEMMA StepForm ==
  ASSUME NEW q \in Form
  PROVE  /\ q.pc = "draft" => [q EXCEPT !.pc = "messages"] \in Form
         /\ \A d \in Draft : q.pc = "draft" /\ q.kind = "text" /\ d.audience \in Audiences =>
              [q EXCEPT !.pc = "receive", !.draft = d] \in Form
         /\ q.pc = "receive" => [q EXCEPT !.pc = "preview"] \in Form
         /\ q.pc = "messages" => [q EXCEPT !.pc = "sponsor"] \in Form
         /\ \A what \in Prompts, ok \in BOOLEAN :
              q.pc \in {"messages", "sponsor"} /\ q.kind = "text" =>
                [q EXCEPT !.pc = "load", !.what = what, !.ok = ok] \in Form
         /\ \A seen \in BOOLEAN : q.pc = "load" => [q EXCEPT !.pc = "flush", !.seen = seen] \in Form
         /\ q.pc = "flush" => [q EXCEPT !.pc = "commit"] \in Form
         /\ \A d \in [audience : Audiences, content : Messages], ok \in BOOLEAN :
              q.pc = "look" => [q EXCEPT !.pc = "select", !.draft = d, !.ok = ok] \in Form
         /\ q.pc = "select" =>
              [q EXCEPT !.pc = "insert"] \in Form /\ [q EXCEPT !.pc = "clear"] \in Form
         /\ q.pc = "insert" => [q EXCEPT !.pc = "commit"] \in Form
         /\ q.pc = "commit" /\ q.kind = "confirm" => [q EXCEPT !.pc = "clear"] \in Form
<1>. USE DEF Form, WellFormed, Request
<1>0. Idle.pc = "idle" /\ "messages" \in PCs /\ "receive" \in PCs /\ "sponsor" \in PCs
      /\ "preview" \in PCs /\ "load" \in PCs /\ "flush" \in PCs /\ "commit" \in PCs /\ "select" \in PCs
      /\ "insert" \in PCs /\ "clear" \in PCs
  BY DEF Idle, PCs
<1>1. q.pc = "draft" => [q EXCEPT !.pc = "messages"] \in Form
  BY <1>0 DEF Conversation
<1>2. \A d \in Draft : q.pc = "draft" /\ q.kind = "text" /\ d.audience \in Audiences =>
        [q EXCEPT !.pc = "receive", !.draft = d] \in Form
  BY <1>0
<1>3. q.pc = "messages" => [q EXCEPT !.pc = "sponsor"] \in Form
  BY <1>0
<1>4. \A what \in Prompts, ok \in BOOLEAN :
        q.pc \in {"messages", "sponsor"} /\ q.kind = "text" =>
          [q EXCEPT !.pc = "load", !.what = what, !.ok = ok] \in Form
  BY <1>0 DEF Setting, Prompts
<1>5. \A seen \in BOOLEAN : q.pc = "load" => [q EXCEPT !.pc = "flush", !.seen = seen] \in Form
  BY <1>0
<1>6. q.pc = "flush" => [q EXCEPT !.pc = "commit"] \in Form
  BY <1>0 DEF Setting
<1>7. ASSUME NEW d \in [audience : Audiences, content : Messages], NEW ok \in BOOLEAN,
             q.pc = "look"
      PROVE  [q EXCEPT !.pc = "select", !.draft = d, !.ok = ok] \in Form
  <2>1. d \in Draft
    BY DEF Draft
  <2>. QED  BY <1>0, <1>7, <2>1
<1>8. q.pc = "select" => [q EXCEPT !.pc = "insert"] \in Form /\ [q EXCEPT !.pc = "clear"] \in Form
  BY <1>0
<1>9. q.pc = "insert" => [q EXCEPT !.pc = "commit"] \in Form
  BY <1>0
<1>10. q.pc = "commit" /\ q.kind = "confirm" => [q EXCEPT !.pc = "clear"] \in Form
  BY <1>0
<1>11. q.pc = "receive" => [q EXCEPT !.pc = "preview"] \in Form
  BY <1>0
<1>. QED  BY <1>1, <1>2, <1>3, <1>4, <1>5, <1>6, <1>7, <1>8, <1>9, <1>10, <1>11

\* An update that is served again takes one of the forms updates come in.
LEMMA FirstForm ==
  ASSUME NEW q \in Form, q # Idle
  PROVE  First(q) \in Beginning
<1>1. q.kind \in {"confirm", "text", "cancel", "home", "help"} \cup Setting /\ q.pc # "idle"
      /\ q.pc \in PCs
  BY DEF Form, WellFormed, Request, Conversation, Setting, PCs
<1>2. CASE q.kind = "confirm"
  BY <1>2, BeginForm DEF First
<1>3. CASE q.kind = "text"
  <2>1. q.msg \in Messages
    BY <1>3 DEF Form, WellFormed
  <2>. QED  BY <1>3, <2>1, BeginForm DEF First
<1>4. CASE q.kind \in {"cancel", "home"}
  BY <1>4, BeginForm DEF First
<1>5. CASE q.kind = "help"
  BY <1>5, BeginForm DEF First
<1>6. CASE q.kind \in {"command", "reset", "enable", "disable"}
  <2>1. First(q) = [q EXCEPT !.pc = "load", !.seen = FALSE]
    BY <1>6 DEF First
  <2>2. q.what \in Prompts
    BY <1>1, <1>6 DEF Form, WellFormed, PCs, Conversation
  <2>3. Idle.pc = "idle" /\ "load" \in PCs
    BY DEF Idle, PCs
  <2>. QED  BY <1>6, <2>1, <2>2, <2>3 DEF Beginning, Form, WellFormed, Request, Setting
<1>. QED  BY <1>1, <1>2, <1>3, <1>4, <1>5, <1>6 DEF Setting

----------------------------------------------------------------------------
(* Types.                                                                   *)

\* An update comes in.
Comes(r) ==
  \/ \E m \in Messages : Send(r, m)
  \/ \E m \in Messages, what \in Prompts : SendCommand(r, m, what)
  \/ TapConfirm(r) \/ SendCancel(r) \/ SendStart(r) \/ SendHelp(r)
  \/ \E c \in Columns : reset_message(r, c)
  \/ \E kind \in {"enable", "disable"} : switch_sponsor(r, kind)

\* A handler looks for what was asked, or writes a setting.
Handles(r) ==
  \/ look_draft(r) \/ receive(r) \/ preview(r) \/ look_messages(r) \/ look_sponsor(r)
  \/ load_settings(r) \/ validate_sponsor_url(r) \/ load_sponsor(r) \/ flush(r) \/ commit(r)

\* A handler makes a campaign.
Confirms(r) ==
  \/ look_confirm(r) \/ select_existing(r) \/ insert(r) \/ commit_campaign(r)
  \/ clear_confirmed(r)

\* The administrator's buttons, and time.
Around ==
  \/ expire_draft \/ expire_messages_state \/ expire_sponsor_state \/ bot_changes
  \/ \E a \in Audiences : NewDraft(a)
  \/ cancel_draft
  \/ \E c \in Columns : ask_message(c)
  \/ ask_sponsor_url

LEMMA NextIs ==
  Next <=> Around \/ \E r \in Requests : Comes(r) \/ Handles(r) \/ Confirms(r) \/ Fault(r)
BY Zenon DEF Next, Around, Comes, Handles, Confirms

LEMMA NoDraftType == NoDraft \in Draft /\ NoDraft.audience = "NONE" /\ NoDraft.content = None
BY DEF NoDraft, Draft

LEMMA ComposedOrNot == \A d : AsComposed(d) \in BOOLEAN
BY DEF AsComposed

LEMMA AroundTyped ==
  ASSUME Typed, Around
  PROVE  Typed'
<1>. USE NoDraftType DEF Typed, TypeOK, composing
<1>1. CASE expire_draft \/ cancel_draft
  BY <1>1 DEF expire_draft, cancel_draft, clear_draft, Chooses, database
<1>2. CASE expire_messages_state \/ expire_sponsor_state \/ bot_changes
  BY <1>2 DEF expire_messages_state, expire_sponsor_state, bot_changes, clear_messages_state,
              clear_sponsor_state, LetOff, database, redis, history
<1>3. ASSUME NEW a \in Audiences, NewDraft(a) PROVE Typed'
  <2>1. [audience |-> a, content |-> None] \in Draft
    BY DEF Draft
  <2>. QED  BY <1>3, <2>1 DEF NewDraft, set_draft, Chooses, database
<1>4. CASE (\E c \in Columns : ask_message(c)) \/ ask_sponsor_url
  BY <1>4 DEF ask_message, ask_sponsor_url, database, Prompts
<1>. QED  BY <1>1, <1>2, <1>3, <1>4 DEF Around

LEMMA ComesForm ==
  ASSUME NEW r \in Requests, Comes(r)
  PROVE  \E q \in Beginning : Begins(r, q)
<1>. USE BeginForm
<1>1. ASSUME NEW m \in Messages, Send(r, m) PROVE \E q \in Beginning : Begins(r, q)
  BY <1>1 DEF Send
<1>2. ASSUME NEW m \in Messages, NEW what \in Prompts, SendCommand(r, m, what)
      PROVE  \E q \in Beginning : Begins(r, q)
  BY <1>2 DEF SendCommand
<1>3. CASE TapConfirm(r)
  BY <1>3 DEF TapConfirm
<1>4. CASE SendCancel(r) \/ SendStart(r) \/ SendHelp(r)
  BY <1>4 DEF SendCancel, SendStart, SendHelp, Tap
<1>5. ASSUME NEW c \in Columns, reset_message(r, c) PROVE \E q \in Beginning : Begins(r, q)
  BY <1>5 DEF reset_message, Tap, Prompts
<1>6. ASSUME NEW kind \in {"enable", "disable"}, switch_sponsor(r, kind)
      PROVE  \E q \in Beginning : Begins(r, q)
  BY <1>6 DEF switch_sponsor, Tap, Prompts
<1>. QED  BY <1>1, <1>2, <1>3, <1>4, <1>5, <1>6 DEF Comes

LEMMA ComesTyped ==
  ASSUME Typed, NEW r \in Requests, Comes(r)
  PROVE  Typed'
<1>. USE DEF Typed, TypeOK, history, composing
<1>1. PICK q \in Form : Begins(r, q)
  BY ComesForm DEF Beginning
<1>3. sent' \subseteq Messages /\ faults' \in 0 .. MaxFaults
  <2>1. ASSUME NEW m \in Messages, Send(r, m)
        PROVE  sent' \subseteq Messages /\ faults' \in 0 .. MaxFaults
    BY <2>1, MaxFaultsNat DEF Send
  <2>2. ASSUME NEW m \in Messages, NEW what \in Prompts, SendCommand(r, m, what)
        PROVE  sent' \subseteq Messages /\ faults' \in 0 .. MaxFaults
    BY <2>2 DEF SendCommand
  <2>3. CASE UNCHANGED <<sent, faults>>
    BY <2>3
  <2>. QED  BY <2>1, <2>2, <2>3 DEF Comes, TapConfirm, SendCancel, SendStart, SendHelp,
                                    reset_message, switch_sponsor, Tap
<1>4. req' \in [Requests -> Form] /\ req' \in [Requests -> Request]
  BY <1>1 DEF Begins, Form
<1>. QED  BY <1>1, <1>3, <1>4 DEF Begins, redis, database

LEMMA InOrNot == \A c, S : (c \in S) \in BOOLEAN
OBVIOUS

LEMMA HandlesForm ==
  ASSUME Typed, NEW r \in Requests, Handles(r)
  PROVE  \E q \in Form : req' = [req EXCEPT ![r] = q]
<1>. DEFINE q == req[r]
<1>0. q \in Form /\ q \in Request /\ Idle \in Form /\ draft \in Draft
  BY IdleForm DEF Typed, TypeOK
<1>. USE <1>0, StepForm DEF Goes, To, Ends
<1>1. CASE look_draft(r)
  <2>1. q.pc = "draft" /\ q.kind \in {"text", "cancel", "home"}
    BY <1>1 DEF look_draft, Form, WellFormed
  <2>2. CASE q.kind = "text" /\ draft # NoDraft
    <3>1. draft.audience \in Audiences
      BY <2>2 DEF Typed
    <3>2. [q EXCEPT !.pc = "receive", !.draft = draft] \in Form
      BY <2>1, <2>2, <3>1
    <3>. QED  BY <1>1, <2>1, <2>2, <3>2 DEF look_draft, get_draft
  <2>3. CASE ~(q.kind = "text" /\ draft # NoDraft)
    <3>1. [q EXCEPT !.pc = "messages"] \in Form
      BY <2>1
    <3>. QED  BY <1>1, <2>1, <2>3, <3>1 DEF look_draft
  <2>. QED  BY <2>2, <2>3
<1>2. CASE receive(r) \/ preview(r) \/ validate_sponsor_url(r) \/ commit(r)
  BY <1>2 DEF receive, preview, validate_sponsor_url, commit
<1>3. CASE look_messages(r)
  <2>1. q.pc = "messages" /\ q.kind \in {"text", "cancel", "home", "help"}
    BY <1>3 DEF look_messages, Form, WellFormed, Conversation
  <2>2. \A c \in Columns : q.kind = "text" =>
          [q EXCEPT !.pc = "load", !.what = c, !.ok = c \in asked] \in Form
    <3>1. \A c \in Columns : c \in Prompts
      BY DEF Prompts
    <3>2. \A c : (c \in asked) \in BOOLEAN
      BY InOrNot, Zenon
    <3>. HIDE DEF q
    <3>. QED  BY <2>1, <3>1, <3>2, Zenon
  <2>3. [q EXCEPT !.pc = "sponsor"] \in Form
    BY <2>1
  <2>. QED  BY <1>3, <2>1, <2>2, <2>3 DEF look_messages
<1>4. CASE look_sponsor(r)
  <2>1. q.pc = "sponsor" /\ q.kind \in {"text", "cancel", "home", "help"}
    BY <1>4 DEF look_sponsor, Form, WellFormed, Conversation
  <2>2. q.kind = "text" =>
          [q EXCEPT !.pc = "load", !.what = "sponsor", !.ok = "sponsor" \in asked] \in Form
    <3>1. "sponsor" \in Prompts
      BY DEF Prompts
    <3>2. ("sponsor" \in asked) \in BOOLEAN
      BY InOrNot, Zenon
    <3>. HIDE DEF q
    <3>. QED  BY <2>1, <3>1, <3>2, Zenon
  <2>. QED  BY <1>4, <2>1, <2>2 DEF look_sponsor
<1>5. CASE load_settings(r)
  BY <1>5 DEF load_settings
<1>6. CASE load_sponsor(r)
  BY <1>6 DEF load_sponsor, Typed, TypeOK, Sponsor
<1>7. CASE flush(r)
  BY <1>7 DEF flush
<1>. QED  BY <1>1, <1>2, <1>3, <1>4, <1>5, <1>6, <1>7 DEF Handles

LEMMA HandlesTyped ==
  ASSUME Typed, NEW r \in Requests, Handles(r)
  PROVE  Typed'
<1>. USE NoDraftType DEF Typed, TypeOK, composing
<1>0. req[r] \in Form /\ req[r] \in Request
  BY DEF Form
<1>1. req' \in [Requests -> Form] /\ req' \in [Requests -> Request]
  BY HandlesForm DEF Form
<1>2. CASE look_draft(r)
  <2>1. req[r].kind \in {"text", "cancel", "home"}
    BY <1>0, <1>2 DEF look_draft, Form, WellFormed
  <2>2. \/ draft' = NoDraft /\ Chooses("NONE")
        \/ UNCHANGED <<draft, composing>>
    BY <1>2, <2>1 DEF look_draft, clear_draft
  <2>. QED  BY <1>1, <1>2, <2>2 DEF look_draft, Chooses, database
<1>3. CASE receive(r)
  <2>. DEFINE d == [req[r].draft EXCEPT !.content = req[r].msg]
  <2>1. d \in Draft /\ d.audience \in Audiences
    BY <1>0, <1>3 DEF receive, Form, WellFormed, Request, Draft
  <2>2. draft' = d /\ raced' \in BOOLEAN
    BY <1>3 DEF receive, set_draft
  <2>. HIDE DEF d
  <2>. QED  BY <1>1, <1>3, <2>1, <2>2 DEF receive, database
<1>9. CASE preview(r)
  <2>1. req[r].msg \in Messages
    BY <1>0, <1>9 DEF preview, Form, WellFormed
  <2>. QED  BY <1>1, <1>9, <2>1 DEF preview, redis, database
<1>4. CASE look_messages(r)
  <2>1. req[r].kind \in {"text", "cancel", "home", "help"}
    BY <1>0, <1>4 DEF look_messages, Form, WellFormed, Conversation
  <2>2. messages_state' \in {messages_state, None} /\ asked' \subseteq asked
    BY <1>4, <2>1 DEF look_messages, clear_messages_state
  <2>. QED  BY <1>1, <1>4, <2>2 DEF look_messages, database
<1>5. CASE look_sponsor(r)
  <2>1. req[r].kind \in {"text", "cancel", "home", "help"}
    BY <1>0, <1>5 DEF look_sponsor, Form, WellFormed, Conversation
  <2>2. /\ messages_state' \in {messages_state, None} /\ asked' \subseteq asked
        /\ sponsor_state' \in {sponsor_state, "NONE"}
    BY <1>5, <2>1 DEF look_sponsor, clear_messages_state, clear_sponsor_state
  <2>. QED  BY <1>1, <1>5, <2>2 DEF look_sponsor, database
<1>6. CASE load_settings(r) \/ validate_sponsor_url(r) \/ load_sponsor(r)
  BY <1>1, <1>6 DEF load_settings, validate_sponsor_url, load_sponsor, redis, database, history
<1>7. CASE flush(r)
  <2>1. /\ messages_state' \in {messages_state, None} /\ asked' \subseteq asked
        /\ sponsor_state' \in {sponsor_state, "NONE"}
    BY <1>7 DEF flush, clear_messages_state, clear_sponsor_state
  <2>. QED  BY <1>1, <1>7, <2>1 DEF flush, database
<1>8. CASE commit(r)
  <2>1. req[r].msg \in Messages \cup {None}
    BY <1>0 DEF Request
  <2>2. settings' \in [Columns -> Texts]
    <3>. DEFINE new(c) == CASE c \notin Writes(req[r]) -> settings[c]
                           [] req[r].kind = "reset"   -> None
                           [] OTHER                   -> req[r].msg
    <3>1. settings' = [c \in Columns |-> new(c)]
      BY <1>8, Zenon DEF commit
    <3>2. \A c \in Columns : new(c) \in {settings[c], None, req[r].msg}
      OBVIOUS
    <3>3. \A c \in Columns : new(c) \in Texts
      BY <2>1, <3>2 DEF Texts
    <3>. HIDE DEF new
    <3>. QED  BY <3>1, <3>3
  <2>3. sponsor' \in Sponsor
    BY <1>8, <2>1 DEF commit, Sponsor
  <2>. QED  BY <1>1, <1>8, <2>2, <2>3 DEF commit, redis, history
<1>. QED  BY <1>2, <1>3, <1>4, <1>5, <1>6, <1>7, <1>8, <1>9 DEF Handles

LEMMA ConfirmsForm ==
  ASSUME Typed, NEW r \in Requests, Confirms(r) \/ Fault(r)
  PROVE  \E q \in Form : req' = [req EXCEPT ![r] = q]
<1>. DEFINE q == req[r]
<1>0. q \in Form /\ Idle \in Form
  BY IdleForm DEF Typed
<1>. USE <1>0, StepForm DEF Goes, To, Ends
<1>1. CASE look_confirm(r)
  <2>1. CASE draft.content = None
    BY <1>1, <2>1 DEF look_confirm
  <2>2. CASE draft.content # None
    <3>1. draft \in [audience : Audiences, content : Messages]
      BY <2>2, NoDraftType DEF Typed, TypeOK, Draft
    <3>2. [q EXCEPT !.pc = "select", !.draft = draft, !.ok = AsComposed(draft)] \in Form
      BY <1>1, <3>1, ComposedOrNot DEF look_confirm
    <3>. QED  BY <1>1, <2>2, <3>2 DEF look_confirm, get_draft
  <2>. QED  BY <2>1, <2>2
<1>2. CASE select_existing(r)
  BY <1>2 DEF select_existing
<1>3. CASE insert(r)
  <2>1. q # Idle
    <3>1. q.pc = "insert" /\ Idle.pc = "idle"
      BY <1>3 DEF insert, Idle
    <3>. QED  BY <3>1
  <2>2. First(q) \in Form /\ [q EXCEPT !.pc = "commit"] \in Form
    BY <1>3, <2>1, FirstForm DEF insert, Beginning
  <2>. QED  BY <1>3, <2>2 DEF insert, Fails
<1>4. CASE commit_campaign(r)
  BY <1>4 DEF commit_campaign
<1>5. CASE clear_confirmed(r)
  BY <1>5 DEF clear_confirmed
<1>6. CASE Fault(r)
  <2>1. First(q) \in Form
    BY <1>6, FirstForm DEF Fault, Beginning
  <2>. QED  BY <1>6, <2>1 DEF Fault, Fails
<1>. QED  BY <1>1, <1>2, <1>3, <1>4, <1>5, <1>6 DEF Confirms

LEMMA ConfirmsTyped ==
  ASSUME Typed, NEW r \in Requests, Confirms(r) \/ Fault(r)
  PROVE  Typed'
<1>. USE NoDraftType DEF Typed, TypeOK, composing
<1>0. req[r] \in Form /\ req[r] \in Request
  BY DEF Form
<1>1. req' \in [Requests -> Form] /\ req' \in [Requests -> Request]
  BY ConfirmsForm DEF Form
<1>2. CASE look_confirm(r) \/ select_existing(r) \/ insert(r)
  BY <1>1, <1>2 DEF look_confirm, select_existing, insert, redis, database, history
<1>3. CASE commit_campaign(r)
  <2>1. [msg |-> req[r].draft.content, audience |-> req[r].draft.audience]
          \in [msg : Messages, audience : Audiences]
    BY <1>0, <1>3 DEF commit_campaign, Form, WellFormed
  <2>2. campaigns' \in Seq([msg : Messages, audience : Audiences])
    BY <1>3, <2>1, AppendProperties DEF commit_campaign
  <2>. QED  BY <1>1, <1>3, <2>2 DEF commit_campaign, redis, history
<1>4. CASE clear_confirmed(r)
  BY <1>1, <1>4 DEF clear_confirmed, clear_draft, Chooses, database
<1>5. CASE Fault(r)
  <2>1. req[r].pc = "preview" => req[r].msg \in Messages
    BY <1>0 DEF Form, WellFormed
  <2>2. cutOff' \subseteq Messages /\ faults' \in 0 .. MaxFaults
    BY <1>5, <2>1, MaxFaultsNat DEF Fault
  <2>. QED  BY <1>1, <1>5, <2>2 DEF Fault, redis, database
<1>. QED  BY <1>2, <1>3, <1>4, <1>5 DEF Confirms

LEMMA InitTyped == Init => Typed
<1>. SUFFICES ASSUME Init PROVE Typed
  OBVIOUS
<1>1. req \in [Requests -> Form] /\ req \in [Requests -> Request]
  BY IdleForm DEF Init, Form
<1>2. settings \in [Columns -> Texts] /\ sponsor \in Sponsor
  BY DEF Init, Texts, Sponsor
<1>3. campaigns \in Seq([msg : Messages, audience : Audiences])
  BY DEF Init
<1>4. /\ sent \subseteq Messages /\ faults \in 0 .. MaxFaults
      /\ previewed \subseteq Messages /\ cutOff \subseteq Messages /\ asked \subseteq Prompts
  BY MaxFaultsNat DEF Init
<1>5. draft = NoDraft /\ NoDraft \in Draft
  BY NoDraftType DEF Init
<1>. QED  BY <1>1, <1>2, <1>3, <1>4, <1>5 DEF Init, Typed, TypeOK

LEMMA StepTyped == Typed /\ [Next]_vars => Typed'
<1>. SUFFICES ASSUME Typed, [Next]_vars PROVE Typed'
  OBVIOUS
<1>1. CASE UNCHANGED vars
  BY <1>1 DEF vars, redis, database, history, composing, Typed, TypeOK
<1>. QED  BY <1>1, NextIs, AroundTyped, ComesTyped, HandlesTyped, ConfirmsTyped

\* Every variable of the conversations always has its type.
THEOREM TypeCorrect == Spec => []TypeOK
<1>1. Typed => TypeOK
  BY DEF Typed
<1>. QED  BY <1>1, InitTyped, StepTyped, PTL DEF Spec

----------------------------------------------------------------------------
(* Who makes a campaign.                                                    *)

\* Its campaign is in the session, not yet committed.
Inserting(q) == q.pc = "commit" /\ q.kind = "confirm"
\* It has read the draft its campaign is made of.
Composed(q) == q.pc \in {"select", "insert"} \/ Inserting(q)

LEMMA IdleComposes == Idle.pc = "idle" /\ ~Composed(Idle) /\ ~Inserting(Idle)
BY DEF Idle, Composed, Inserting

LEMMA NobodyComposes ==
  ASSUME NEW q \in Form, q.kind # "confirm" \/ q \in Beginning
  PROVE  ~Composed(q) /\ ~Inserting(q)
<1>1. q.pc \in {"select", "insert"} => q.kind = "confirm"
  BY DEF Form, WellFormed
<1>2. q \in Beginning => q.pc \in {"draft", "messages", "load", "look"}
  BY DEF Beginning
<1>. QED  BY <1>1, <1>2 DEF Composed, Inserting

\* A handler that looks for what was asked confirms nothing.
LEMMA HandlesKind ==
  ASSUME Typed, NEW r \in Requests, Handles(r)
  PROVE  req'[r].kind # "confirm"
<1>. DEFINE q == req[r]
<1>0. q \in Form /\ q \in Request /\ Idle.kind = "none" /\ r \in DOMAIN req
  BY DEF Typed, TypeOK, Idle
<1>1. CASE look_draft(r)
  <2>1. q.kind \in {"text", "cancel", "home"}
    BY <1>0, <1>1 DEF look_draft, Form, WellFormed
  <2>2. /\ q' \in {Idle, [q EXCEPT !.pc = "messages"], [q EXCEPT !.pc = "receive", !.draft = draft]}
    BY <1>0, <1>1, <2>1 DEF look_draft, get_draft, Goes, To, Ends
  <2>. QED  BY <1>0, <2>1, <2>2 DEF Request
<1>2. CASE preview(r) \/ validate_sponsor_url(r) \/ commit(r)
  BY <1>0, <1>2 DEF preview, validate_sponsor_url, commit, Ends, Goes
<1>7. CASE receive(r)
  <2>1. q' = [q EXCEPT !.pc = "preview"] /\ q.kind = "text"
    BY <1>0, <1>7 DEF receive, To, Goes, Form, WellFormed
  <2>. QED  BY <1>0, <2>1 DEF Request
<1>3. CASE look_messages(r)
  <2>1. q.kind \in {"text", "cancel", "home", "help"}
    BY <1>0, <1>3 DEF look_messages, Form, WellFormed, Conversation
  <2>2. \/ q' \in {Idle, [q EXCEPT !.pc = "sponsor"]}
        \/ \E c \in Columns : q' = [q EXCEPT !.pc = "load", !.what = c, !.ok = c \in asked]
    BY <1>0, <1>3, <2>1 DEF look_messages, Goes, To, Ends
  <2>. QED  BY <1>0, <2>1, <2>2 DEF Request
<1>4. CASE look_sponsor(r)
  <2>1. q.kind \in {"text", "cancel", "home", "help"}
    BY <1>0, <1>4 DEF look_sponsor, Form, WellFormed, Conversation
  <2>2. q' \in {Idle, [q EXCEPT !.pc = "load", !.what = "sponsor", !.ok = "sponsor" \in asked]}
    BY <1>0, <1>4, <2>1 DEF look_sponsor, Goes, To, Ends
  <2>. QED  BY <1>0, <2>1, <2>2 DEF Request
<1>5. CASE load_settings(r) \/ load_sponsor(r)
  <2>1. \E seen : q' = [q EXCEPT !.pc = "flush", !.seen = seen]
    BY <1>0, <1>5 DEF load_settings, load_sponsor, Goes
  <2>2. q.kind # "confirm"
    BY <1>0, <1>5 DEF load_settings, load_sponsor, Form, WellFormed, Setting
  <2>. QED  BY <1>0, <2>1, <2>2 DEF Request
<1>6. CASE flush(r)
  <2>1. q' = [q EXCEPT !.pc = "commit"] /\ q.kind # "confirm"
    BY <1>0, <1>6 DEF flush, To, Goes, Form, WellFormed, Setting
  <2>. QED  BY <1>0, <2>1 DEF Request
<1>. QED  BY <1>1, <1>2, <1>3, <1>4, <1>5, <1>6, <1>7 DEF Handles

\* A handler that starts, that handles something else or that dies has read no draft to
\* make a campaign of.
LEMMA OthersCompose ==
  ASSUME Typed, NEW r \in Requests,
         Comes(r) \/ Handles(r) \/ Fault(r) \/ clear_confirmed(r)
  PROVE  \E q \in Form : /\ req' = [req EXCEPT ![r] = q]
                         /\ ~Composed(q) /\ ~Inserting(q)
<1>. USE NobodyComposes, IdleComposes, IdleForm
<1>1. CASE Comes(r)
  BY <1>1, ComesForm DEF Begins, Beginning
<1>2. CASE Handles(r)
  <2>1. PICK q \in Form : req' = [req EXCEPT ![r] = q]
    BY <1>2, HandlesForm
  <2>2. q.kind # "confirm"
    BY <1>2, <2>1, HandlesKind DEF Typed, TypeOK
  <2>. QED  BY <2>1, <2>2
<1>3. CASE Fault(r)
  <2>1. First(req[r]) \in Beginning
    BY <1>3, FirstForm DEF Fault, Typed
  <2>. QED  BY <1>3, <2>1 DEF Fault, Fails, Ends, Goes, Beginning
<1>4. CASE clear_confirmed(r)
  BY <1>4 DEF clear_confirmed, Ends, Goes
<1>. QED  BY <1>1, <1>2, <1>3, <1>4

\* Nor do they write a campaign.
LEMMA OthersMake ==
  ASSUME NEW r \in Requests, Comes(r) \/ Handles(r) \/ Fault(r) \/ clear_confirmed(r)
  PROVE  campaigns' = campaigns
BY DEF Comes, Send, SendCommand, TapConfirm, SendCancel, SendStart, SendHelp, reset_message,
       switch_sponsor, Tap, Begins, Handles, look_draft, receive, preview, look_messages,
       look_sponsor, load_settings, validate_sponsor_url, load_sponsor, flush, commit, Fault, clear_confirmed,
       database

----------------------------------------------------------------------------
(* One campaign of a message.  The INSERT has looked at the rows that are   *)
(* committed and at those that are about to be, and keeps off both.         *)

\* Of a message whose campaign is about to be committed there is none yet ...
NotMadeYet == \A r \in Requests : Inserting(req[r]) => ~Made(req[r].draft.content)

\* ... and no other one is about to be.
InsertsOnce ==
  \A r, s \in Requests :
    Inserting(req[r]) /\ Inserting(req[s]) /\ req[r].draft.content = req[s].draft.content => r = s

KeyInv == Typed /\ NotMadeYet /\ InsertsOnce /\ OncePerMessage

LEMMA KeyKept ==
  ASSUME KeyInv, Typed', campaigns' = campaigns,
         \/ req' = req
         \/ \E r \in Requests, q \in Form : req' = [req EXCEPT ![r] = q] /\ ~Inserting(q)
  PROVE  KeyInv'
<1>1. \A r \in Requests : Inserting(req'[r]) => req'[r] = req[r]
  BY DEF KeyInv, Typed
<1>2. NotMadeYet' /\ InsertsOnce' /\ OncePerMessage'
  BY <1>1 DEF KeyInv, NotMadeYet, InsertsOnce, OncePerMessage, Made, Inserting
<1>. QED  BY <1>2 DEF KeyInv

LEMMA InsertKey ==
  ASSUME KeyInv, Typed', NEW r \in Requests, insert(r)
  PROVE  KeyInv'
<1>1. req[r] \in Form /\ req[r] # Idle /\ req[r].kind = "confirm" /\ campaigns' = campaigns
      /\ req \in [Requests -> Form] /\ req[r] \in Request
  <2>1. req[r].pc = "insert" /\ req[r] \in Form
    BY DEF insert, KeyInv, Typed
  <2>. QED  BY <2>1, IdleComposes DEF insert, database, KeyInv, Typed, TypeOK, Form, WellFormed
<1>2. CASE req' = [req EXCEPT ![r] = Idle] \/ req' = [req EXCEPT ![r] = First(req[r])]
  <2>1. First(req[r]) \in Form /\ ~Inserting(First(req[r]))
    BY <1>1, FirstForm, NobodyComposes DEF Beginning
  <2>. QED  BY <1>1, <1>2, <2>1, IdleForm, IdleComposes, KeyKept
<1>3. CASE /\ ~Made(req[r].draft.content)
           /\ req' = [req EXCEPT ![r] = [req[r] EXCEPT !.pc = "commit"]]
  <2>. DEFINE m == req[r].draft.content
  <2>1. \A s \in Requests \ {r} : Inserting(req[s]) => req[s].draft.content # m
    BY DEF insert, Inserting
  <2>2. req'[r].draft.content = m
    BY <1>1, <1>3 DEF Request
  <2>3. \A s \in Requests \ {r} : req'[s] = req[s]
    BY <1>1, <1>3
  <2>4. \A n : Made(n)' <=> Made(n)
    BY <1>1 DEF Made
  <2>5. NotMadeYet'
    BY <1>3, <2>2, <2>3, <2>4 DEF KeyInv, NotMadeYet, Inserting
  <2>6. ASSUME NEW a \in Requests, NEW b \in Requests, Inserting(req'[a]), Inserting(req'[b]),
               req'[a].draft.content = req'[b].draft.content
        PROVE  a = b
    <3>1. CASE a = r /\ b # r
      BY <2>1, <2>2, <2>3, <2>6, <3>1
    <3>2. CASE b = r /\ a # r
      BY <2>1, <2>2, <2>3, <2>6, <3>2
    <3>3. CASE a # r /\ b # r
      BY <2>3, <2>6, <3>3 DEF KeyInv, InsertsOnce
    <3>. QED  BY <3>1, <3>2, <3>3
  <2>7. InsertsOnce'
    BY <2>6 DEF InsertsOnce, Inserting
  <2>8. OncePerMessage'
    BY <1>1 DEF KeyInv, OncePerMessage
  <2>. QED  BY <2>5, <2>7, <2>8 DEF KeyInv
<1>. QED  BY <1>2, <1>3 DEF insert, Fails, Ends, To, Goes

LEMMA CommitKey ==
  ASSUME KeyInv, Typed', NEW r \in Requests, commit_campaign(r)
  PROVE  KeyInv'
<1>. DEFINE row == [msg |-> req[r].draft.content, audience |-> req[r].draft.audience]
<1>1. /\ Inserting(req[r]) /\ req[r] \in Request /\ req \in [Requests -> Form]
      /\ req' = [req EXCEPT ![r] = [req[r] EXCEPT !.pc = "clear"]]
      /\ campaigns' = Append(campaigns, row)
  BY DEF commit_campaign, Inserting, KeyInv, Typed, TypeOK, To, Goes
<1>2. ~Inserting(req'[r]) /\ \A s \in Requests \ {r} : req'[s] = req[s]
  BY <1>1 DEF Inserting, Request
<1>3. /\ Len(campaigns) \in Nat /\ DOMAIN campaigns = 1 .. Len(campaigns)
      /\ DOMAIN campaigns' = 1 .. Len(campaigns) + 1
      /\ \A i \in 1 .. Len(campaigns) : campaigns'[i] = campaigns[i]
      /\ campaigns'[Len(campaigns) + 1] = row
  BY <1>1, AppendProperties, LenProperties DEF KeyInv, Typed, TypeOK
<1>4. ~Made(row.msg)
  BY <1>1 DEF KeyInv, NotMadeYet
<1>. HIDE DEF row
<1>5. OncePerMessage'
  <2>1. ASSUME NEW i \in DOMAIN campaigns', NEW j \in DOMAIN campaigns',
               campaigns'[i].msg = campaigns'[j].msg
        PROVE  i = j
    BY <1>3, <1>4, <2>1 DEF Made, KeyInv, OncePerMessage
  <2>. QED  BY <2>1 DEF OncePerMessage
<1>6. InsertsOnce'
  BY <1>2 DEF KeyInv, InsertsOnce, Inserting
<1>7. ASSUME NEW s \in Requests, Inserting(req'[s])
      PROVE  \A i \in DOMAIN campaigns' : campaigns'[i].msg # req'[s].draft.content
  <2>1. s # r /\ req'[s] = req[s]
    BY <1>2, <1>7
  <2>2. ~Made(req[s].draft.content) /\ req[s].draft.content # req[r].draft.content
    BY <1>1, <1>7, <2>1 DEF KeyInv, NotMadeYet, InsertsOnce
  <2>3. row.msg = req[r].draft.content
    BY DEF row
  <2>. QED  BY <1>3, <2>1, <2>2, <2>3 DEF Made
<1>8. NotMadeYet'
  BY <1>7 DEF NotMadeYet, Inserting, Made
<1>. QED  BY <1>5, <1>6, <1>8 DEF KeyInv

LEMMA StepKey == KeyInv /\ [Next]_vars => KeyInv'
<1>. SUFFICES ASSUME KeyInv, [Next]_vars PROVE KeyInv'
  OBVIOUS
<1>0. Typed /\ Typed'
  BY StepTyped DEF KeyInv
<1>1. CASE UNCHANGED vars
  BY <1>0, <1>1, KeyKept DEF vars, database
<1>2. CASE Around
  <2>1. req' = req /\ campaigns' = campaigns
    BY <1>2 DEF Around, expire_draft, expire_messages_state, expire_sponsor_state, bot_changes,
                NewDraft, cancel_draft, ask_message, ask_sponsor_url, database
  <2>. QED  BY <1>0, <2>1, KeyKept
<1>3. ASSUME NEW r \in Requests, Comes(r) \/ Handles(r) \/ Fault(r) \/ clear_confirmed(r)
      PROVE  KeyInv'
  BY <1>0, <1>3, OthersCompose, OthersMake, KeyKept
<1>4. ASSUME NEW r \in Requests, look_confirm(r) \/ select_existing(r)
      PROVE  KeyInv'
  <2>1. \E q \in Form : req' = [req EXCEPT ![r] = q] /\ ~Inserting(q)
    <3>1. PICK q \in Form : req' = [req EXCEPT ![r] = q]
      BY <1>0, <1>4, ConfirmsForm DEF Confirms
    <3>2. \/ req'[r] \in {Idle, [req[r] EXCEPT !.pc = "clear"], [req[r] EXCEPT !.pc = "insert"]}
          \/ req'[r] = [req[r] EXCEPT !.pc = "select", !.draft = draft, !.ok = AsComposed(draft)]
      BY <1>0, <1>4 DEF look_confirm, select_existing, get_draft, To, Goes, Ends, Typed
    <3>3. req[r] \in Request /\ req'[r] = q
      BY <1>0, <3>1 DEF Typed, TypeOK
    <3>4. q.pc # "commit"
      BY <3>2, <3>3, IdleComposes DEF Request
    <3>. QED  BY <3>1, <3>4 DEF Inserting
  <2>2. campaigns' = campaigns
    BY <1>4 DEF look_confirm, select_existing, database
  <2>. QED  BY <1>0, <2>1, <2>2, KeyKept
<1>. QED  BY <1>0, <1>1, <1>2, <1>3, <1>4, NextIs, InsertKey, CommitKey DEF Confirms

\* However often "Send broadcast" is tapped, and whichever handlers die and are
\* served again, a message becomes one campaign at most.
THEOREM OneCampaignPerMessage == Spec => []OncePerMessage
<1>1. Init => KeyInv
  <2>. SUFFICES ASSUME Init PROVE KeyInv
    OBVIOUS
  <2>1. \A r \in Requests : ~Inserting(req[r])
    BY IdleComposes DEF Init
  <2>. QED  BY <2>1, InitTyped DEF Init, KeyInv, NotMadeYet, InsertsOnce, OncePerMessage
<1>2. KeyInv => OncePerMessage
  BY DEF KeyInv
<1>. QED  BY <1>1, <1>2, StepKey, PTL DEF Spec

----------------------------------------------------------------------------
(* Sent as composed.  The draft is for the audience chosen last, if none    *)
(* was written over, and its message is shown before "Send broadcast" finds *)
(* it, if its preview arrives; who has found it keeps what it has found.    *)

ShownTo(m) == m \in previewed \cup cutOff \/ Previewing(m)

DraftAsChosen == raced \/ draft.audience = chosen
DraftShown == draft.content = None \/ ShownTo(draft.content)
FoundAsComposed == \A r \in Requests : Composed(req[r]) => req[r].ok

DraftInv == Typed /\ DraftAsChosen /\ DraftShown /\ FoundAsComposed

\* A handler's step leaves the previews of the others on their way.
LEMMA OthersPreview ==
  ASSUME Typed, NEW r \in Requests, NEW q, req' = [req EXCEPT ![r] = q],
         req[r].pc # "preview", previewed' = previewed, cutOff' = cutOff
  PROVE  \A m : ShownTo(m) => ShownTo(m)'
<1>1. \A s \in Requests : req[s].pc = "preview" => req'[s] = req[s]
  BY DEF Typed
<1>. QED  BY <1>1 DEF ShownTo, Previewing

\* What has been shown, or is on its way, stays so.
LEMMA ShownKept ==
  ASSUME Typed, Next
  PROVE  \A m : ShownTo(m) => ShownTo(m)'
<1>1. CASE Around
  <2>1. UNCHANGED <<req, previewed, cutOff>>
    BY <1>1 DEF Around, expire_draft, expire_messages_state, expire_sponsor_state, bot_changes,
                NewDraft, cancel_draft, ask_message, ask_sponsor_url, Chooses, history, composing
  <2>. QED  BY <2>1 DEF ShownTo, Previewing
<1>2. ASSUME NEW r \in Requests, Comes(r) PROVE \A m : ShownTo(m) => ShownTo(m)'
  <2>1. PICK q \in Beginning : Begins(r, q)
    BY <1>2, ComesForm
  <2>. QED  BY <2>1, IdleComposes, OthersPreview DEF Begins, history, composing
<1>3. ASSUME NEW r \in Requests, req[r].pc # "preview", Handles(r) \/ Confirms(r) \/ Fault(r)
      PROVE \A m : ShownTo(m) => ShownTo(m)'
  <2>1. \E q : req' = [req EXCEPT ![r] = q]
    BY <1>3, HandlesForm, ConfirmsForm
  <2>2. previewed' = previewed /\ cutOff' = cutOff
    <3>1. CASE Handles(r)
      <4>1. CASE look_draft(r)
        <5>1. req[r].kind \in {"text", "cancel", "home"}
          BY <4>1 DEF look_draft, Typed, Form, WellFormed
        <5>2. UNCHANGED composing \/ Chooses("NONE")
          BY <4>1, <5>1 DEF look_draft
        <5>. QED  BY <5>2 DEF Chooses, composing
      <4>2. CASE ~look_draft(r)
        BY <1>3, <3>1, <4>2
           DEF Handles, receive, preview, look_messages, look_sponsor, load_settings,
               validate_sponsor_url, load_sponsor, flush, commit, history, composing
      <4>. QED  BY <4>1, <4>2
    <3>2. CASE Confirms(r) \/ Fault(r)
      BY <1>3, <3>2 DEF Confirms, look_confirm, select_existing, insert, commit_campaign,
                        clear_confirmed, Fault, Chooses, history, composing
    <3>. QED  BY <1>3, <3>1, <3>2
  <2>. QED  BY <1>3, <2>1, <2>2, OthersPreview
<1>4. ASSUME NEW r \in Requests, req[r].pc = "preview", Handles(r) \/ Confirms(r) \/ Fault(r)
      PROVE \A m : ShownTo(m) => ShownTo(m)'
  <2>1. preview(r) \/ Fault(r)
    BY <1>4 DEF Handles, Confirms, look_draft, receive, look_messages, look_sponsor, load_settings,
                validate_sponsor_url, load_sponsor, flush, commit, look_confirm, select_existing,
                insert, commit_campaign, clear_confirmed
  <2>2. \A s \in Requests \ {r} : req'[s] = req[s]
    BY <2>1 DEF preview, Fault, Fails, Ends, Goes, Typed
  <2>3. /\ previewed \cup cutOff \subseteq previewed' \cup cutOff'
        /\ req[r].msg \in previewed' \cup cutOff'
    BY <1>4, <2>1 DEF preview, Fault
  <2>. QED  BY <2>2, <2>3 DEF ShownTo, Previewing
<1>. QED  BY <1>1, <1>2, <1>3, <1>4, NextIs

\* Nobody writes the draft but who chooses, clears or receives.
DraftWritten ==
  \/ UNCHANGED <<draft, chosen, raced>>
  \/ draft' = NoDraft /\ Chooses("NONE")
  \/ \E a \in Audiences : draft' = [audience |-> a, content |-> None] /\ Chooses(a)
  \/ \E r \in Requests : receive(r)

LEMMA Written ==
  ASSUME Typed, Next
  PROVE  DraftWritten
<1>. USE DEF DraftWritten
<1>1. CASE Around
  <2>1. ASSUME NEW a \in Audiences, NewDraft(a) PROVE DraftWritten
    BY <2>1 DEF NewDraft, set_draft
  <2>2. CASE expire_draft \/ cancel_draft
    BY <2>2 DEF expire_draft, cancel_draft, clear_draft
  <2>3. CASE UNCHANGED <<draft, chosen, raced>>
    BY <2>3
  <2>. QED  BY <1>1, <2>1, <2>2, <2>3
            DEF Around, expire_messages_state, expire_sponsor_state, bot_changes, ask_message,
                ask_sponsor_url, redis, history, composing
<1>2. ASSUME NEW r \in Requests, Comes(r) PROVE DraftWritten
  BY <1>2, ComesForm DEF Begins, redis, history, composing
<1>3. ASSUME NEW r \in Requests, Handles(r) PROVE DraftWritten
  <2>1. CASE look_draft(r)
    <3>1. req[r].kind \in {"text", "cancel", "home"}
      BY <2>1 DEF look_draft, Typed, Form, WellFormed
    <3>2. UNCHANGED <<draft, composing>> \/ (draft' = NoDraft /\ Chooses("NONE"))
      BY <2>1, <3>1 DEF look_draft, clear_draft
    <3>. QED  BY <3>2 DEF composing
  <2>2. CASE receive(r)
    BY <2>2
  <2>3. CASE ~look_draft(r) /\ ~receive(r)
    BY <1>3, <2>3 DEF Handles, preview, look_messages, look_sponsor, load_settings,
                      validate_sponsor_url, load_sponsor, flush, commit, redis, history, composing
  <2>. QED  BY <2>1, <2>2, <2>3
<1>4. ASSUME NEW r \in Requests, Confirms(r) \/ Fault(r) PROVE DraftWritten
  BY <1>4 DEF Confirms, look_confirm, select_existing, insert, commit_campaign, clear_confirmed,
              clear_draft, Fault, redis, history, composing
<1>. QED  BY <1>1, <1>2, <1>3, <1>4, NextIs

LEMMA WrittenDraft ==
  ASSUME DraftInv, Next
  PROVE  DraftAsChosen' /\ DraftShown'
<1>0. Typed
  BY DEF DraftInv
<1>1. CASE UNCHANGED <<draft, chosen, raced>>
  BY <1>0, <1>1, ShownKept DEF DraftInv, DraftAsChosen, DraftShown
<1>2. CASE draft' = NoDraft /\ Chooses("NONE")
  BY <1>2, NoDraftType DEF Chooses, DraftAsChosen, DraftShown
<1>3. ASSUME NEW a \in Audiences, draft' = [audience |-> a, content |-> None], Chooses(a)
      PROVE  DraftAsChosen' /\ DraftShown'
  BY <1>3 DEF Chooses, DraftAsChosen, DraftShown
<1>4. ASSUME NEW r \in Requests, receive(r)
      PROVE  DraftAsChosen' /\ DraftShown'
  <2>1. req[r] \in Request /\ req[r].draft \in Draft /\ req' = [req EXCEPT ![r] = [req[r] EXCEPT !.pc = "preview"]]
    BY <1>0, <1>4 DEF receive, To, Goes, Typed, TypeOK, Request
  <2>2. draft'.content = req[r].msg /\ draft'.audience = req[r].draft.audience
    BY <1>4, <2>1 DEF receive, set_draft, Draft
  <2>3. req'[r].pc = "preview" /\ req'[r].msg = req[r].msg
    BY <1>0, <2>1 DEF Typed, Request
  <2>4. DraftShown'
    BY <2>2, <2>3 DEF DraftShown, ShownTo, Previewing
  <2>5. DraftAsChosen'
    BY <1>4, <2>2 DEF receive, DraftInv, DraftAsChosen
  <2>. QED  BY <2>4, <2>5
<1>. QED  BY <1>0, <1>1, <1>2, <1>3, <1>4, Written DEF DraftWritten

\* "Send broadcast" finds what is composed and keeps it.
LEMMA ConfirmsFound ==
  ASSUME DraftInv, NEW r \in Requests,
         look_confirm(r) \/ select_existing(r) \/ insert(r) \/ commit_campaign(r)
  PROVE  \E q \in Form : req' = [req EXCEPT ![r] = q] /\ (Composed(q) => q.ok)
<1>0. Typed /\ req[r] \in Form /\ req[r] \in Request /\ r \in DOMAIN req
  BY DEF DraftInv, Typed, TypeOK
<1>1. PICK q \in Form : req' = [req EXCEPT ![r] = q]
  BY <1>0, ConfirmsForm DEF Confirms
<1>2. q = req'[r]
  BY <1>0, <1>1
<1>3. CASE q = Idle \/ (q = First(req[r]) /\ insert(r))
  <2>1. insert(r) => req[r] # Idle
    BY IdleComposes DEF insert
  <2>2. insert(r) => First(req[r]) \in Beginning
    BY <1>0, <2>1, FirstForm
  <2>3. ~Composed(q)
    BY <1>1, <1>3, <2>2, IdleComposes, NobodyComposes
  <2>. QED  BY <1>1, <2>3
<1>4. CASE look_confirm(r)
  <2>1. CASE draft.content = None
    <3>1. q = Idle
      BY <1>0, <1>2, <1>4, <2>1 DEF look_confirm, Ends, Goes
    <3>. QED  BY <1>3, <3>1
  <2>2. CASE draft.content # None
    <3>1. q = [req[r] EXCEPT !.pc = "select", !.draft = draft, !.ok = AsComposed(draft)]
      BY <1>0, <1>2, <1>4, <2>2 DEF look_confirm, get_draft, Goes
    <3>2. q.ok = AsComposed(draft)
      <4>. HIDE DEF AsComposed
      <4>. QED  BY <1>0, <3>1 DEF Request
    <3>3. AsComposed(draft)
      BY <2>2 DEF AsComposed, DraftInv, DraftAsChosen, DraftShown, ShownTo
    <3>. QED  BY <1>1, <3>2, <3>3
  <2>. QED  BY <2>1, <2>2
<1>5. CASE select_existing(r) \/ insert(r) \/ commit_campaign(r)
  <2>1. \/ q = Idle
        \/ q = First(req[r]) /\ insert(r)
        \/ \E pc \in PCs : q = [req[r] EXCEPT !.pc = pc]
    BY <1>0, <1>2, <1>5 DEF select_existing, insert, commit_campaign, To, Goes, Ends, Fails, PCs
  <2>2. req[r].ok
    BY <1>5 DEF select_existing, insert, commit_campaign, Composed, Inserting, DraftInv,
                FoundAsComposed
  <2>3. ASSUME NEW pc \in PCs, q = [req[r] EXCEPT !.pc = pc] PROVE q.ok
    BY <1>0, <2>2, <2>3 DEF Request
  <2>. QED  BY <1>1, <1>3, <2>1, <2>3
<1>. QED  BY <1>4, <1>5

LEMMA StepDraft == DraftInv /\ [Next]_vars => DraftInv'
<1>. SUFFICES ASSUME DraftInv, [Next]_vars PROVE DraftInv'
  OBVIOUS
<1>0. Typed /\ Typed'
  BY StepTyped DEF DraftInv
<1>1. CASE UNCHANGED vars
  BY <1>0, <1>1 DEF vars, redis, history, composing, DraftInv, DraftAsChosen, DraftShown, ShownTo,
                    Previewing, FoundAsComposed, Composed, Inserting
<1>2. CASE Next
  <2>1. \/ req' = req
        \/ \E r \in Requests, q \in Form :
             req' = [req EXCEPT ![r] = q] /\ (Composed(q) => q.ok)
    <3>1. CASE Around
      BY <3>1 DEF Around, expire_draft, expire_messages_state, expire_sponsor_state, bot_changes,
                  NewDraft, cancel_draft, ask_message, ask_sponsor_url
    <3>2. ASSUME NEW r \in Requests, Comes(r) \/ Handles(r) \/ Fault(r) \/ clear_confirmed(r)
          PROVE  \E q \in Form : req' = [req EXCEPT ![r] = q] /\ (Composed(q) => q.ok)
      BY <1>0, <3>2, OthersCompose
    <3>. QED  BY <1>2, <3>1, <3>2, NextIs, ConfirmsFound DEF Confirms
  <2>2. \A s \in Requests : Composed(req'[s]) => req'[s].ok
    BY <1>0, <2>1 DEF DraftInv, FoundAsComposed, Typed
  <2>3. FoundAsComposed'
    BY <2>2 DEF FoundAsComposed, Composed, Inserting
  <2>. QED  BY <1>0, <1>2, <2>3, WrittenDraft DEF DraftInv
<1>. QED  BY <1>1, <1>2

\* What becomes a campaign was, when it was found, for the audience chosen last and shown
\* in a preview, but for an audience that was written back and a preview that was cut off
\* or is on its way.
THEOREM CampaignAsComposed == Spec => SentAsComposed
<1>1. Init => DraftInv
  <2>. SUFFICES ASSUME Init PROVE DraftInv
    OBVIOUS
  <2>1. \A r \in Requests : ~Composed(req[r])
    BY IdleComposes DEF Init
  <2>. QED  BY <2>1, InitTyped, NoDraftType
            DEF Init, DraftInv, DraftAsChosen, DraftShown, FoundAsComposed
<1>2. ASSUME DraftInv
      PROVE  \A r \in Requests : commit_campaign(r) => req[r].ok
  BY <1>2 DEF DraftInv, FoundAsComposed, Composed, Inserting, commit_campaign
<1>. QED  BY <1>1, <1>2, StepDraft, PTL DEF Spec, SentAsComposed

----------------------------------------------------------------------------
(* Stored only if asked.  A key in Redis is there only while its question   *)
(* stands; that is why a column is not called "sponsor".                    *)

Answers(q) == q.kind = "text" /\ q.pc \in {"load", "flush", "commit"} => q.ok

KeysAsked ==
  /\ messages_state # None => messages_state \in asked
  /\ sponsor_state # "NONE" => "sponsor" \in asked

AskedInv == Typed /\ KeysAsked /\ \A r \in Requests : Answers(req[r])

LEMMA IdleAnswers == Answers(Idle) /\ \A q \in Beginning : Answers(q)
BY DEF Idle, Answers, Beginning

\* A request that goes on keeps what it saw when it looked.
LEMMA AskedKept ==
  ASSUME AskedInv, Typed', KeysAsked',
         \/ req' = req
         \/ \E r \in Requests, q \in Form : req' = [req EXCEPT ![r] = q] /\ Answers(q)
  PROVE  AskedInv'
<1>1. \A r \in Requests : Answers(req'[r])
  BY DEF AskedInv, Typed
<1>. QED  BY <1>1 DEF AskedInv, Answers

LEMMA AroundAsked ==
  ASSUME AskedInv, Typed', Around
  PROVE  AskedInv'
<1>. USE DEF AskedInv, KeysAsked, Typed, TypeOK
<1>0. req' = req
  BY DEF Around, expire_draft, expire_messages_state, expire_sponsor_state, bot_changes,
         NewDraft, cancel_draft, ask_message, ask_sponsor_url, database
<1>1. KeysAsked'
  <2>1. CASE expire_messages_state \/ expire_sponsor_state
    BY <2>1, SponsorIsNoColumn DEF expire_messages_state, expire_sponsor_state,
                                   clear_messages_state, clear_sponsor_state, LetOff
  <2>2. CASE \E c \in Columns : ask_message(c)
    BY <2>2, SponsorIsNoColumn DEF ask_message
  <2>3. CASE ask_sponsor_url
    BY <2>3 DEF ask_sponsor_url
  <2>4. CASE UNCHANGED <<messages_state, sponsor_state, asked>>
    BY <2>4
  <2>. QED  BY <2>1, <2>2, <2>3, <2>4 DEF Around, expire_draft, bot_changes, NewDraft,
                                          cancel_draft, redis, history
<1>. QED  BY <1>0, <1>1, AskedKept

LEMMA ComesAsked ==
  ASSUME AskedInv, Typed', NEW r \in Requests, Comes(r)
  PROVE  AskedInv'
<1>1. PICK q \in Beginning : Begins(r, q)
  BY ComesForm
<1>2. q \in Form /\ Answers(q)
  BY IdleAnswers DEF Beginning
<1>3. KeysAsked'
  BY <1>1 DEF Begins, redis, history, AskedInv, KeysAsked
<1>. QED  BY <1>1, <1>2, <1>3, AskedKept DEF Begins

LEMMA HandlesAsked ==
  ASSUME AskedInv, Typed', NEW r \in Requests, Handles(r)
  PROVE  AskedInv'
<1>. DEFINE q == req[r]
<1>0. /\ Typed /\ q \in Form /\ q \in Request /\ Answers(q)
      /\ req \in [Requests -> Request]
  BY DEF AskedInv, Typed, TypeOK
<1>1. PICK p \in Form : req' = [req EXCEPT ![r] = p]
  BY <1>0, HandlesForm
<1>2. p = req'[r]
  BY <1>0, <1>1
<1>3. CASE look_draft(r)
  <2>1. q.kind \in {"text", "cancel", "home"}
    BY <1>0, <1>3 DEF look_draft, Form, WellFormed
  <2>2. p \in {Idle, [q EXCEPT !.pc = "messages"], [q EXCEPT !.pc = "receive", !.draft = draft]}
    BY <1>0, <1>2, <1>3, <2>1 DEF look_draft, get_draft, Goes, To, Ends
  <2>3. Answers(p)
    BY <1>0, <2>2, IdleAnswers DEF Answers, Request
  <2>4. KeysAsked'
    BY <1>3 DEF look_draft, AskedInv, KeysAsked
  <2>. QED  BY <1>1, <2>3, <2>4, AskedKept
<1>9. CASE receive(r)
  <2>1. p = [q EXCEPT !.pc = "preview"]
    BY <1>0, <1>2, <1>9 DEF receive, To, Goes
  <2>2. Answers(p)
    BY <1>0, <2>1 DEF Answers, Request
  <2>3. KeysAsked'
    BY <1>9 DEF receive, AskedInv, KeysAsked
  <2>. QED  BY <1>1, <2>2, <2>3, AskedKept
<1>4. CASE preview(r) \/ validate_sponsor_url(r) \/ commit(r)
  <2>1. p = Idle
    BY <1>0, <1>2, <1>4 DEF preview, validate_sponsor_url, commit, Ends, Goes
  <2>2. KeysAsked'
    BY <1>4 DEF preview, validate_sponsor_url, commit, redis, history, AskedInv, KeysAsked
  <2>. QED  BY <1>1, <2>1, <2>2, IdleAnswers, AskedKept
<1>5. CASE look_messages(r)
  <2>1. q.kind \in {"text", "cancel", "home", "help"}
    BY <1>0, <1>5 DEF look_messages, Form, WellFormed, Conversation
  <2>2. Answers(p)
    <3>1. CASE p \in {Idle, [q EXCEPT !.pc = "sponsor"]}
      BY <1>0, <3>1, IdleAnswers DEF Answers, Request
    <3>2. ASSUME NEW c \in Columns, messages_state = c,
                 p = [q EXCEPT !.pc = "load", !.what = c, !.ok = c \in asked]
          PROVE  Answers(p)
      <4>1. c \in asked
        BY <3>2, NoneIsNone DEF AskedInv, KeysAsked
      <4>. QED  BY <1>0, <3>2, <4>1 DEF Answers, Request
    <3>. QED  BY <1>0, <1>2, <1>5, <2>1, <3>1, <3>2 DEF look_messages, Goes, To, Ends
  <2>3. /\ sponsor_state' = sponsor_state
        /\ \/ UNCHANGED <<messages_state, asked>>
           \/ messages_state' = None /\ asked' = asked \ Columns
    BY <1>5, <2>1 DEF look_messages, clear_messages_state
  <2>4. KeysAsked'
    BY <2>3, SponsorIsNoColumn DEF AskedInv, KeysAsked
  <2>. QED  BY <1>1, <2>2, <2>4, AskedKept
<1>6. CASE look_sponsor(r)
  <2>1. q.kind \in {"text", "cancel", "home", "help"}
    BY <1>0, <1>6 DEF look_sponsor, Form, WellFormed, Conversation
  <2>2. Answers(p)
    <3>1. CASE p = Idle
      BY <3>1, IdleAnswers
    <3>2. CASE /\ sponsor_state # "NONE"
               /\ p = [q EXCEPT !.pc = "load", !.what = "sponsor", !.ok = "sponsor" \in asked]
      <4>1. "sponsor" \in asked
        BY <3>2 DEF AskedInv, KeysAsked
      <4>. QED  BY <1>0, <3>2, <4>1 DEF Answers, Request
    <3>. QED  BY <1>0, <1>2, <1>6, <2>1, <3>1, <3>2 DEF look_sponsor, Goes, Ends
  <2>3. \/ UNCHANGED <<messages_state, sponsor_state, asked>>
        \/ /\ messages_state' = messages_state /\ sponsor_state' = "NONE"
           /\ asked' = asked \ {"sponsor"}
        \/ messages_state' = None /\ sponsor_state' = "NONE"
    BY <1>6, <2>1 DEF look_sponsor, clear_messages_state, clear_sponsor_state
  <2>4. messages_state # "sponsor" \/ messages_state = None
    BY <1>0, SponsorIsNoColumn DEF Typed, TypeOK
  <2>5. KeysAsked'
    BY <2>3, <2>4 DEF AskedInv, KeysAsked
  <2>. QED  BY <1>1, <2>2, <2>5, AskedKept
<1>7. CASE load_settings(r) \/ load_sponsor(r)
  <2>1. \E seen : p = [q EXCEPT !.pc = "flush", !.seen = seen] /\ q.pc = "load"
    BY <1>0, <1>2, <1>7 DEF load_settings, load_sponsor, Goes
  <2>2. Answers(p)
    BY <1>0, <2>1 DEF Answers, Request
  <2>3. KeysAsked'
    BY <1>7 DEF load_settings, load_sponsor, redis, history, AskedInv, KeysAsked
  <2>. QED  BY <1>1, <2>2, <2>3, AskedKept
<1>8. CASE flush(r)
  <2>1. p = [q EXCEPT !.pc = "commit"] /\ q.pc = "flush"
    BY <1>0, <1>2, <1>8 DEF flush, To, Goes
  <2>2. Answers(p)
    BY <1>0, <2>1 DEF Answers, Request
  <2>3. KeysAsked'
    BY <1>0, <1>8, SponsorIsNoColumn
       DEF flush, clear_messages_state, clear_sponsor_state, AskedInv, KeysAsked, Typed, TypeOK
  <2>. QED  BY <1>1, <2>2, <2>3, AskedKept
<1>. QED  BY <1>3, <1>4, <1>5, <1>6, <1>7, <1>8, <1>9 DEF Handles

\* Who confirms a broadcast, or is served again, answers no question yet.
LEMMA ConfirmsAsked ==
  ASSUME AskedInv, Typed', NEW r \in Requests, Confirms(r) \/ Fault(r)
  PROVE  AskedInv'
<1>0. Typed /\ req[r] \in Form /\ req[r] \in Request
  BY DEF AskedInv, Typed, TypeOK
<1>1. PICK q \in Form : req' = [req EXCEPT ![r] = q]
  BY <1>0, ConfirmsForm
<1>2. q = req'[r]
  BY <1>0, <1>1 DEF Typed
<1>3. KeysAsked'
  BY DEF Confirms, look_confirm, select_existing, insert, commit_campaign, clear_confirmed, Fault,
         redis, history, AskedInv, KeysAsked
<1>4. CASE q = Idle \/ (q = First(req[r]) /\ req[r] # Idle)
  BY <1>0, <1>1, <1>3, <1>4, FirstForm, IdleAnswers, AskedKept
<1>5. CASE Fault(r)
  BY <1>0, <1>2, <1>4, <1>5 DEF Fault, Fails, Ends, Goes, Typed
<1>6. CASE Confirms(r)
  <2>1. req[r].kind = "confirm" /\ req[r] # Idle
    BY <1>0, <1>6, IdleComposes DEF Confirms, look_confirm, select_existing, insert,
                                    commit_campaign, clear_confirmed, Form, WellFormed
  <2>2. \/ q \in {Idle, First(req[r]),
                 [req[r] EXCEPT !.pc = "select", !.draft = draft, !.ok = AsComposed(draft)]}
        \/ \E pc : q = [req[r] EXCEPT !.pc = pc]
    <3>1. look_confirm(r) =>
            q \in {Idle, [req[r] EXCEPT !.pc = "select", !.draft = draft, !.ok = AsComposed(draft)]}
      BY <1>0, <1>2 DEF look_confirm, get_draft, Goes, Ends, Typed
    <3>2. select_existing(r) \/ commit_campaign(r) => \E pc : q = [req[r] EXCEPT !.pc = pc]
      BY <1>0, <1>2 DEF select_existing, commit_campaign, To, Goes, Typed
    <3>3. insert(r) => q \in {Idle, First(req[r]), [req[r] EXCEPT !.pc = "commit"]}
      BY <1>0, <1>2 DEF insert, To, Goes, Ends, Fails, Typed
    <3>4. clear_confirmed(r) => q = Idle
      BY <1>0, <1>2 DEF clear_confirmed, Goes, Ends, Typed
    <3>. QED  BY <1>6, <3>1, <3>2, <3>3, <3>4 DEF Confirms
  <2>3. CASE q.kind = "confirm"
    BY <1>1, <1>3, <2>3, AskedKept DEF Answers
  <2>. QED  BY <1>0, <1>4, <2>1, <2>2, <2>3 DEF Request
<1>. QED  BY <1>5, <1>6

LEMMA StepAsked == AskedInv /\ [Next]_vars => AskedInv'
<1>. SUFFICES ASSUME AskedInv, [Next]_vars PROVE AskedInv'
  OBVIOUS
<1>1. Typed'
  BY StepTyped DEF AskedInv
<1>2. CASE UNCHANGED vars
  BY <1>1, <1>2, AskedKept DEF vars, redis, history, AskedInv, KeysAsked
<1>. QED  BY <1>1, <1>2, NextIs, AroundAsked, ComesAsked, HandlesAsked, ConfirmsAsked

\* A text is stored in a setting only if it was asked for when the handler
\* looked.
THEOREM TextsAskedFor == Spec => StoredOnlyIfAsked
<1>1. Init => AskedInv
  <2>. SUFFICES ASSUME Init PROVE AskedInv
    OBVIOUS
  <2>. QED  BY InitTyped, IdleAnswers DEF Init, AskedInv, KeysAsked
<1>2. ASSUME AskedInv
      PROVE  \A r \in Requests :
               commit(r) /\ Writes(req[r]) # {} /\ req[r].kind = "text" => req[r].ok
  BY <1>2 DEF AskedInv, Answers, commit
<1>. QED  BY <1>1, <1>2, StepAsked, PTL DEF Spec, StoredOnlyIfAsked

(***************************************************************************)
(* The screens of the Control Hub bot.                                      *)
(*                                                                         *)
(* A screen is a subset of Buttons: anybody's words, the own bots, and for  *)
(* the owner the words of the owner, pages from 1 on and the rows of the    *)
(* tables.  The tables only grow and a bot stays with its client, so that   *)
(* what was a button stays one.                                             *)
(***************************************************************************)
LEMMA Appended ==
  ASSUME NEW S, NEW s \in Seq(S), NEW n \in S
  PROVE  \A i \in 1 .. Len(s) : Append(s, n)[i] = s[i]
BY AppendProperties

LEMMA FourLong ==
  ASSUME NEW S, NEW s \in Seq(S), Len(s) = 3, NEW n \in S
  PROVE  /\ Append(s, n) \in Seq(S) /\ Len(Append(s, n)) = 4
         /\ Append(s, n)[1] = s[1] /\ Append(s, n)[2] = s[2] /\ Append(s, n)[3] = s[3]
         /\ Append(s, n)[4] = n
<1>1. Len(Append(s, n)) = Len(s) + 1 /\ Append(s, n)[Len(s) + 1] = n
  BY AppendProperties
<1>2. Len(s) + 1 = 4 /\ 1 \in 1 .. Len(s) /\ 2 \in 1 .. Len(s) /\ 3 \in 1 .. Len(s)
  OBVIOUS
<1>3. \A i \in 1 .. Len(s) : Append(s, n)[i] = s[i]
  BY Appended
<1>4. Append(s, n) \in Seq(S)
  BY AppendProperties
<1>. QED  BY <1>1, <1>2, <1>3, <1>4, Zenon

LEMMA FirstThree ==
  ASSUME NEW S, NEW t \in Seq(S), Len(t) = 4
  PROVE  /\ SubSeq(t, 1, 3) \in Seq(S) /\ Len(SubSeq(t, 1, 3)) = 3
         /\ SubSeq(t, 1, 3)[1] = t[1] /\ SubSeq(t, 1, 3)[2] = t[2] /\ SubSeq(t, 1, 3)[3] = t[3]
<1>1. \A i \in 1 .. 3 : t[i] \in S
  BY ElementOfSeq
<1>. QED BY <1>1, SubSeqProperties

LEMMA AppendFourth ==
  ASSUME NEW a, NEW b, NEW c, NEW n
  PROVE  Append(<<a, b, c>>, n) = <<a, b, c, n>>
<1>. DEFINE S == {a, b, c, n}
<1>0. <<a, b, c>> \in Seq(S) /\ <<a, b, c, n>> \in Seq(S)
  OBVIOUS
<1>1. PICK s \in Seq(S) : s = <<a, b, c>>
  BY <1>0, Zenon
<1>2. PICK t \in Seq(S) : t = <<a, b, c, n>>
  BY <1>0, Zenon
<1>3. /\ Len(s) = 3 /\ s[1] = a /\ s[2] = b /\ s[3] = c
      /\ Len(t) = 4 /\ t[1] = a /\ t[2] = b /\ t[3] = c /\ t[4] = n
  BY <1>1, <1>2
<1>4. n \in S
  OBVIOUS
<1>. HIDE DEF S
<1>5. /\ Append(s, n) \in Seq(S) /\ Len(Append(s, n)) = 4
      /\ Append(s, n)[1] = a /\ Append(s, n)[2] = b /\ Append(s, n)[3] = c
      /\ Append(s, n)[4] = n
  BY <1>3, <1>4, FourLong
<1>6. PICK r \in Seq(S) : r = Append(s, n)
  BY <1>5
<1>7. \A i \in 1 .. Len(r) : r[i] = t[i]
  BY <1>3, <1>5, <1>6
<1>8. r = t
  BY <1>3, <1>5, <1>6, <1>7, SeqEqual
<1>. QED  BY <1>1, <1>2, <1>6, <1>8

LEMMA FirstThreeOf ==
  ASSUME NEW a, NEW b, NEW c, NEW n
  PROVE  SubSeq(<<a, b, c, n>>, 1, 3) = <<a, b, c>>
<1>. DEFINE S == {a, b, c, n}
<1>0. <<a, b, c>> \in Seq(S) /\ <<a, b, c, n>> \in Seq(S)
  OBVIOUS
<1>1. PICK s \in Seq(S) : s = <<a, b, c>>
  BY <1>0, Zenon
<1>2. PICK t \in Seq(S) : t = <<a, b, c, n>>
  BY <1>0, Zenon
<1>3. /\ Len(s) = 3 /\ s[1] = a /\ s[2] = b /\ s[3] = c
      /\ Len(t) = 4 /\ t[1] = a /\ t[2] = b /\ t[3] = c
  BY <1>1, <1>2
<1>. HIDE DEF S
<1>4. PICK r \in Seq(S) : r = SubSeq(t, 1, 3)
  BY <1>3, FirstThree
<1>5. Len(r) = 3 /\ r[1] = a /\ r[2] = b /\ r[3] = c
  BY <1>3, <1>4, FirstThree
<1>6. \A i \in 1 .. Len(r) : r[i] = s[i]
  BY <1>3, <1>5
<1>7. r = s
  BY <1>3, <1>5, <1>6, SeqEqual
<1>. QED  BY <1>1, <1>2, <1>4, <1>7

\* A button whose handler has three parts carries its number as the fourth.
LEMMA Named ==
  ASSUME NEW data, NEW a, NEW b, NEW c, NEW n, data = <<a, b, c, n>>
  PROVE  Name(data) = <<a, b, c>> /\ Number(data) = n /\ Len(data) = 4
<1>1. Len(data) = 4 /\ data[4] = n
  OBVIOUS
<1>2. SubSeq(data, 1, 3) = <<a, b, c>>
  BY FirstThreeOf
<1>. QED  BY <1>1, <1>2 DEF Name, Number

LEMMA Unnumbered ==
  ASSUME NEW data, Len(data) # 4
  PROVE  Name(data) = data
BY DEF Name

----------------------------------------------------------------------------
(* The buttons a screen may have.                                           *)

ClientWords == {"how_it_works", "connectbot", "cancel", "mybots", "account", "help"}
BotWords == {"reconnect", "refresh", "view", "disconnect", "disconnect_confirm"}
Sections == {"clients", "bots", "jobs", "queue", "broadcasts", "systemstats"}
ClientVerbs == {"view", "suspend", "suspend_confirm", "reactivate", "reactivate_confirm"}
JobWords == {"view", "retry", "retry_confirm"}
Filters == {"running", "failed", "all"}

\* Anybody's buttons; those with a number are about the bots in own, or 0.
ClientButtons(own) ==
  {<<"client", s>> : s \in ClientWords}
    \cup {<<"client", "connect", s>> : s \in {"token_ready", "cancel"}}
    \cup {<<"nav", s>> : s \in {"owner_home", "client_home"}}
    \cup {<<"client", "connect", s, b>> : s \in {"confirm", "retry"}, b \in own}
    \cup {<<"client", "bot", s, b>> : s \in BotWords, b \in own}

\* The owner's: of the rows with these ids.
OwnerWords ==
  {<<"owner", s>> : s \in Sections}
    \cup {<<"owner", s, "search">> : s \in {"clients", "bots"}}
    \cup {<<"owner", s, "refresh">> : s \in {"queue", "systemstats"}}
    \cup {<<"owner", "campaign", s>> : s \in {"start", "list", "owners", "all"}}
    \cup {<<"owner", "search", "cancel">>}
PageButtons ==
  {<<"owner", s, "page", n>> : s \in {"clients", "bots"}, n \in Nat \ {0}}
    \cup {<<"owner", "campaign", "botlist", n>> : n \in Nat \ {0}}
    \cup {<<"owner", s, f, n>> : s \in {"jobs", "broadcasts"}, f \in Filters, n \in Nat \ {0}}
RowButtonsOf(C, B, J, R) ==
  {<<"owner", "client", s, c>> : s \in ClientVerbs, c \in C}
    \cup {<<"owner", "bots", "client", c>> : c \in C}
    \cup {<<"owner", "bot", "view", b>> : b \in B}
    \cup {<<"owner", "campaign", "bot", b>> : b \in B}
    \cup {<<"owner", "campaign", "view", m>> : m \in Nat}
    \cup {<<"owner", "job", s, j>> : s \in JobWords, j \in J}
    \cup {<<"owner", "broadcast", "view", r>> : r \in R}

Mine == list_by_client(client_of(clients))
Own == {0} \cup Mine
OwnerButtons ==
  OwnerWords \cup PageButtons
    \cup RowButtonsOf(DOMAIN clients, DOMAIN bots, DOMAIN jobs, DOMAIN broadcasts)
Buttons == ClientButtons(Own) \cup (IF who = Owner THEN OwnerButtons ELSE {})

\* Lists, one button per row and the neighbouring pages.
LEMMA RowsAre ==
  ASSUME NEW a, NEW b, NEW c, NEW S
  PROVE  \A x : x \in Rows(<<a, b, c>>, S) <=> \E i \in S : x = <<a, b, c, i>>
BY AppendFourth DEF Rows

LEMMA LeafIs ==
  ASSUME NEW a, NEW b, NEW c, NEW page \in Nat \ {0}, NEW pages \in Nat
  PROVE  Leaf(<<a, b, c>>, page, pages) \subseteq {<<a, b, c, n>> : n \in Nat \ {0}}
<1>1. \A n \in {page - 1, page + 1} \cap (1..pages \cup 1..(page - 1)) : n \in Nat \ {0}
  OBVIOUS
<1>. QED  BY <1>1, AppendFourth DEF Leaf

\* A client's keyboards.
LEMMA ClientKeyboards ==
  ASSUME NEW own, NEW b \in own, NEW mine \in SUBSET own
  PROVE  LET K == ClientButtons(own) IN
         /\ new_client_keyboard \subseteq K /\ how_it_works_keyboard \subseteq K
         /\ botfather_guide_keyboard \subseteq K /\ token_prompt_keyboard \subseteq K
         /\ client_home_zero_bots_keyboard \subseteq K /\ client_home_keyboard \subseteq K
         /\ client_mybots_keyboard(mine) \subseteq K
         /\ client_connect_confirm_keyboard(b) \subseteq K
         /\ client_disconnect_confirm_keyboard(b) \subseteq K
         /\ back_to_client_home_keyboard \subseteq K /\ back_to_owner_home_keyboard \subseteq K
<1>1. client_mybots_keyboard(mine) \subseteq ClientButtons(own)
  <2>1. Rows(<<"client", "bot", "view">>, mine) \subseteq ClientButtons(own)
    BY RowsAre DEF ClientButtons, BotWords
  <2>. QED  BY <2>1 DEF client_mybots_keyboard, Home, ClientButtons, ClientWords
<1>2. /\ client_connect_confirm_keyboard(b) \subseteq ClientButtons(own)
      /\ client_disconnect_confirm_keyboard(b) \subseteq ClientButtons(own)
  BY DEF client_connect_confirm_keyboard, client_disconnect_confirm_keyboard, ClientButtons,
         BotWords
<1>3. /\ new_client_keyboard \subseteq ClientButtons(own)
      /\ how_it_works_keyboard \subseteq ClientButtons(own)
      /\ botfather_guide_keyboard \subseteq ClientButtons(own)
      /\ token_prompt_keyboard \subseteq ClientButtons(own)
  BY DEF new_client_keyboard, how_it_works_keyboard, botfather_guide_keyboard,
         token_prompt_keyboard, Home, ClientButtons, ClientWords
<1>4. /\ client_home_zero_bots_keyboard \subseteq ClientButtons(own)
      /\ client_home_keyboard \subseteq ClientButtons(own)
      /\ back_to_client_home_keyboard \subseteq ClientButtons(own)
      /\ back_to_owner_home_keyboard \subseteq ClientButtons(own)
  BY DEF client_home_zero_bots_keyboard, client_home_keyboard, back_to_client_home_keyboard,
         back_to_owner_home_keyboard, Home, ClientButtons, ClientWords
<1>. QED  BY <1>1, <1>2, <1>3, <1>4

LEMMA BotKeyboard ==
  ASSUME NEW own, NEW b \in own, NEW s \in BotStatuses
  PROVE  client_bot_detail_keyboard(b, s) \subseteq ClientButtons(own)
BY DEF client_bot_detail_keyboard, BotStatuses, ClientButtons, ClientWords, BotWords, Home

----------------------------------------------------------------------------
(* Rows.                                                                    *)

ClientRow == [user : People, status : ClientStatuses]
\* telegram_user_id is unique.
OneRow(cs) == \A c, d \in DOMAIN cs : cs[c].user = cs[d].user => c = d

LEMMA MaxOfOne ==
  /\ Max0({}) = 0
  /\ \A n \in Nat : Max0({n}) = n
BY DEF Max0

LEMMA ClientOf ==
  ASSUME NEW cs \in Seq(ClientRow), OneRow(cs)
  PROVE  /\ client_of(cs) \in {0} \cup DOMAIN cs
         /\ \A c \in DOMAIN cs : cs[c].user = who <=> client_of(cs) = c
         /\ 0 \notin DOMAIN cs
<1>. DEFINE mine == {c \in DOMAIN cs : cs[c].user = who}
<1>1. DOMAIN cs = 1 .. Len(cs) /\ Len(cs) \in Nat
  BY LenProperties
<1>2. CASE mine = {}
  <2>1. client_of(cs) = 0
    BY <1>2, MaxOfOne DEF client_of
  <2>2. \A c \in DOMAIN cs : cs[c].user # who /\ c # 0
    BY <1>1, <1>2
  <2>. QED  BY <2>1, <2>2
<1>3. CASE mine # {}
  <2>1. PICK c \in DOMAIN cs : mine = {c}
    BY <1>3 DEF OneRow
  <2>2. client_of(cs) = c
    BY <1>1, <2>1, MaxOfOne DEF client_of
  <2>. QED  BY <1>1, <2>1, <2>2
<1>. QED  BY <1>2, <1>3

\* Rows are added, and changed in their status only.
More(rows, rows2) == DOMAIN rows \subseteq DOMAIN rows2

LEMMA AppendRow ==
  ASSUME NEW S, NEW rows \in Seq(S), NEW r \in S
  PROVE  /\ Append(rows, r) \in Seq(S) /\ Len(Append(rows, r)) = Len(rows) + 1
         /\ DOMAIN rows = 1 .. Len(rows) /\ Len(rows) \in Nat
         /\ DOMAIN Append(rows, r) = 1 .. Len(rows) + 1
         /\ \A i \in DOMAIN rows : Append(rows, r)[i] = rows[i]
         /\ Append(rows, r)[Len(rows) + 1] = r
<1>1. Append(rows, r) \in Seq(S) /\ Len(Append(rows, r)) = Len(rows) + 1
  BY AppendProperties
<1>2. DOMAIN rows = 1 .. Len(rows) /\ Len(rows) \in Nat
  BY LenProperties
<1>3. DOMAIN Append(rows, r) = 1 .. Len(Append(rows, r))
  BY <1>1, LenProperties
<1>4. \A i \in 1 .. Len(rows) : Append(rows, r)[i] = rows[i]
  BY AppendProperties
<1>5. Append(rows, r)[Len(rows) + 1] = r
  BY AppendProperties
<1>. QED  BY <1>1, <1>2, <1>3, <1>4, <1>5, Zenon

LEMMA Resolved ==
  ASSUME clients \in Seq(ClientRow), OneRow(clients), who \in People
  PROVE  LET cs == resolve_or_create_client IN
         /\ cs \in Seq(ClientRow) /\ OneRow(cs)
         /\ More(clients, cs) /\ \A c \in DOMAIN clients : cs[c] = clients[c]
         /\ client_of(cs) \in DOMAIN cs
         /\ client_of(clients) # 0 => client_of(cs) = client_of(clients)
<1>1. CASE client_of(clients) # 0
  BY <1>1, ClientOf DEF resolve_or_create_client, More
<1>2. CASE client_of(clients) = 0
  <2>. DEFINE r == [user |-> who, status |-> "ACTIVE"]
  <2>1. r \in ClientRow
    BY DEF ClientRow, ClientStatuses
  <2>2. PICK cs \in Seq(ClientRow) : cs = Append(clients, r)
    BY <2>1, AppendRow
  <2>3. /\ DOMAIN clients = 1 .. Len(clients) /\ Len(clients) \in Nat
        /\ DOMAIN cs = 1 .. Len(clients) + 1
        /\ \A i \in DOMAIN clients : cs[i] = clients[i]
        /\ cs[Len(clients) + 1] = r
    <3>. HIDE DEF r
    <3>. QED  BY <2>1, <2>2, AppendRow
  <2>4. \A c \in DOMAIN clients : clients[c].user # who
    BY <1>2, ClientOf
  <2>5. OneRow(cs)
    <3>1. \A c \in DOMAIN cs : c \in DOMAIN clients \/ c = Len(clients) + 1
      BY <2>3
    <3>2. cs[Len(clients) + 1].user = who
      BY <2>3
    <3>. QED  BY <2>3, <2>4, <3>1, <3>2 DEF OneRow
  <2>6. client_of(cs) = Len(clients) + 1
    <3>1. Len(clients) + 1 \in DOMAIN cs /\ cs[Len(clients) + 1].user = who
      BY <2>3
    <3>. QED  BY <2>5, <3>1, ClientOf
  <2>7. resolve_or_create_client = cs
    BY <1>2, <2>2 DEF resolve_or_create_client
  <2>8. More(clients, cs)
    BY <2>3 DEF More
  <2>. QED  BY <1>2, <2>3, <2>5, <2>6, <2>7, <2>8
<1>. QED  BY <1>1, <1>2

BotRow(C) == [client : C, status : BotStatuses]

LEMMA MineIs ==
  ASSUME clients \in Seq(ClientRow), OneRow(clients), bots \in Seq(BotRow(DOMAIN clients))
  PROVE  /\ Mine \subseteq DOMAIN bots /\ Own \subseteq 0 .. Len(bots)
         /\ client_of(clients) = 0 => Mine = {}
         /\ \A b \in DOMAIN bots : bots[b].client = client_of(clients) <=> b \in Mine
<1>1. DOMAIN bots = 1 .. Len(bots) /\ Len(bots) \in Nat
  BY LenProperties
<1>2. 0 \notin DOMAIN clients
  BY ClientOf
<1>3. \A b \in DOMAIN bots : bots[b].client \in DOMAIN clients
  <2>1. \A b \in 1 .. Len(bots) : bots[b] \in BotRow(DOMAIN clients)
    BY ElementOfSeq
  <2>. QED  BY <1>1, <2>1 DEF BotRow
<1>. QED  BY <1>1, <1>2, <1>3 DEF Mine, Own, list_by_client

----------------------------------------------------------------------------
(* The owner's keyboards.                                                   *)

LEMMA MaxWithOne ==
  ASSUME NEW n \in Nat
  PROVE  Max0({1, n}) \in Nat \ {0} /\ Max0({1, n}) >= n
<1>1. \E i \in {1, n} : \A j \in {1, n} : j <= i
  <2>1. CASE n <= 1
    BY <2>1
  <2>2. CASE n > 1
    BY <2>2
  <2>. QED  BY <2>1, <2>2
<1>2. Max0({1, n}) \in {1, n} /\ \A j \in {1, n} : j <= Max0({1, n})
  BY <1>1 DEF Max0
<1>. QED  BY <1>2

LEMMA Pages ==
  ASSUME NEW total \in Nat
  PROVE  total_pages(total) \in Nat \ {0} /\ total <= total_pages(total) * PageSize
<1>. DEFINE n == (total + PageSize - 1) \div PageSize
<1>1. PageSize \in Nat /\ PageSize >= 1
  BY Bounds
<1>2. n \in Nat /\ total <= n * PageSize
  BY <1>1
<1>3. Max0({1, n}) \in Nat \ {0} /\ Max0({1, n}) >= n
  BY <1>2, MaxWithOne
<1>4. total_pages(total) = Max0({1, n})
  BY DEF total_pages
<1>5. \A m \in Nat : m >= n => m * PageSize >= n * PageSize
  <2>. HIDE DEF n
  <2>. QED  BY <1>1, <1>2
<1>. HIDE DEF n
<1>6. total_pages(total) \in Nat \ {0} /\ total_pages(total) >= n
  BY <1>3, <1>4
<1>7. PICK m \in Nat \ {0} : m = total_pages(total) /\ m >= n
  BY <1>6
<1>8. m * PageSize >= n * PageSize
  BY <1>5, <1>7
<1>9. m * PageSize \in Nat /\ n * PageSize \in Nat
  BY <1>1, <1>2, <1>7
<1>10. total <= m * PageSize
  <2>. DEFINE x == m * PageSize  y == n * PageSize
  <2>1. x >= y /\ total <= y /\ x \in Nat /\ y \in Nat
    BY <1>2, <1>8, <1>9
  <2>. HIDE DEF x, y
  <2>2. total <= x
    BY <2>1
  <2>. QED  BY <2>2 DEF x
<1>. QED  BY <1>7, <1>10

LEMMA Tables ==
  ASSUME ScreensTypeOK
  PROVE  /\ DOMAIN clients = 1 .. Len(clients) /\ DOMAIN bots = 1 .. Len(bots)
         /\ DOMAIN jobs = 1 .. Len(jobs) /\ DOMAIN broadcasts = 1 .. Len(broadcasts)
         /\ Len(clients) \in Nat /\ Len(bots) \in Nat /\ Len(jobs) \in Nat
         /\ Len(broadcasts) \in Nat
         /\ \A b \in DOMAIN bots : /\ bots[b].client \in DOMAIN clients
                                   /\ bots[b].status \in BotStatuses
         /\ \A c \in DOMAIN clients : clients[c].status \in ClientStatuses
<1>1. DOMAIN clients = 1 .. Len(clients) /\ Len(clients) \in Nat
  BY LenProperties DEF ScreensTypeOK
<1>2. DOMAIN bots = 1 .. Len(bots) /\ Len(bots) \in Nat
  BY LenProperties DEF ScreensTypeOK
<1>3. DOMAIN jobs = 1 .. Len(jobs) /\ Len(jobs) \in Nat
  BY LenProperties DEF ScreensTypeOK
<1>4. DOMAIN broadcasts = 1 .. Len(broadcasts) /\ Len(broadcasts) \in Nat
  BY LenProperties DEF ScreensTypeOK
<1>5. \A b \in 1 .. Len(bots) : bots[b] \in [client : DOMAIN clients, status : BotStatuses]
  BY ElementOfSeq DEF ScreensTypeOK
<1>6. \A c \in 1 .. Len(clients) : clients[c] \in [user : People, status : ClientStatuses]
  BY ElementOfSeq DEF ScreensTypeOK
<1>. QED  BY <1>1, <1>2, <1>3, <1>4, <1>5, <1>6

LEMMA PlainKeyboards ==
  LET K == ClientButtons({}) \cup OwnerWords \cup PageButtons IN
  /\ owner_home_keyboard \subseteq K /\ back_to_owner_home_keyboard \subseteq K
  /\ owner_clients_summary_keyboard \subseteq K /\ owner_bots_summary_keyboard \subseteq K
  /\ owner_jobs_summary_keyboard \subseteq K /\ owner_queue_keyboard \subseteq K
  /\ owner_broadcasts_summary_keyboard \subseteq K /\ owner_systemstats_keyboard \subseteq K
  /\ cancel_search_keyboard \subseteq K /\ audience_keyboard \subseteq K
<1>1. 1 \in Nat \ {0}
  OBVIOUS
<1>2. /\ owner_home_keyboard \subseteq ClientButtons({}) \cup OwnerWords \cup PageButtons
      /\ back_to_owner_home_keyboard \subseteq ClientButtons({}) \cup OwnerWords \cup PageButtons
      /\ owner_queue_keyboard \subseteq ClientButtons({}) \cup OwnerWords \cup PageButtons
      /\ owner_systemstats_keyboard \subseteq ClientButtons({}) \cup OwnerWords \cup PageButtons
      /\ cancel_search_keyboard \subseteq ClientButtons({}) \cup OwnerWords \cup PageButtons
  BY DEF owner_home_keyboard, back_to_owner_home_keyboard, owner_queue_keyboard,
         owner_systemstats_keyboard, cancel_search_keyboard, Home, ClientButtons, OwnerWords,
         Sections
<1>3. /\ owner_clients_summary_keyboard \subseteq ClientButtons({}) \cup OwnerWords \cup PageButtons
      /\ owner_bots_summary_keyboard \subseteq ClientButtons({}) \cup OwnerWords \cup PageButtons
      /\ owner_jobs_summary_keyboard \subseteq ClientButtons({}) \cup OwnerWords \cup PageButtons
      /\ owner_broadcasts_summary_keyboard \subseteq ClientButtons({}) \cup OwnerWords \cup PageButtons
      /\ audience_keyboard \subseteq ClientButtons({}) \cup OwnerWords \cup PageButtons
  BY <1>1 DEF owner_clients_summary_keyboard, owner_bots_summary_keyboard,
         owner_jobs_summary_keyboard, owner_broadcasts_summary_keyboard, audience_keyboard,
         Home, ClientButtons, OwnerWords, PageButtons, Sections, Filters
<1>. QED  BY <1>2, <1>3

\* The lists: the rows of a page are rows, and its neighbours are pages.
LEMMA FiniteRows ==
  ASSUME ScreensTypeOK
  PROVE  /\ IsFiniteSet(DOMAIN clients) /\ IsFiniteSet(DOMAIN bots)
         /\ \A f : JobRowsOf(f) \subseteq DOMAIN jobs /\ IsFiniteSet(JobRowsOf(f))
         /\ \A f : BroadcastRowsOf(f) \subseteq DOMAIN broadcasts /\ IsFiniteSet(BroadcastRowsOf(f))
         /\ ActiveBots \subseteq DOMAIN bots /\ IsFiniteSet(ActiveBots)
<1>1. \A n \in Nat : IsFiniteSet(1 .. n)
  BY FS_Interval
<1>2. /\ IsFiniteSet(DOMAIN clients) /\ IsFiniteSet(DOMAIN bots)
      /\ IsFiniteSet(DOMAIN jobs) /\ IsFiniteSet(DOMAIN broadcasts)
  BY <1>1, Tables
<1>3. /\ \A f : JobRowsOf(f) \subseteq DOMAIN jobs
      /\ \A f : BroadcastRowsOf(f) \subseteq DOMAIN broadcasts
      /\ ActiveBots \subseteq DOMAIN bots
  BY DEF JobRowsOf, BroadcastRowsOf, ActiveBots
<1>. QED  BY <1>2, <1>3, FS_Subset

LEMMA PageRows ==
  ASSUME NEW rows, NEW page
  PROVE  Newest(rows, page) \subseteq rows /\ Oldest(rows, page) \subseteq rows
BY DEF Newest, Oldest

AnyList(C, B, J, R) ==
  ClientButtons({}) \cup OwnerWords \cup PageButtons \cup RowButtonsOf(C, B, J, R)

LEMMA ListKeyboards ==
  ASSUME NEW C, NEW B, NEW J, NEW R, NEW page \in Nat \ {0}, NEW pages \in Nat,
         NEW f \in Filters
  PROVE  LET K == AnyList(C, B, J, R) IN
         /\ \A ids \in SUBSET C : owner_clients_list_keyboard(page, pages, ids) \subseteq K
         /\ \A ids \in SUBSET B, c \in {0} \cup C :
              owner_bots_list_keyboard(page, pages, ids, c) \subseteq K
         /\ \A ids \in SUBSET J : owner_jobs_list_keyboard(page, pages, ids, f) \subseteq K
         /\ \A ids \in SUBSET R : owner_broadcasts_list_keyboard(page, pages, ids, f) \subseteq K
<1>1. /\ \A ids \in SUBSET C : Rows(<<"owner", "client", "view">>, ids) \subseteq AnyList(C, B, J, R)
      /\ \A ids \in SUBSET B : Rows(<<"owner", "bot", "view">>, ids) \subseteq AnyList(C, B, J, R)
      /\ \A ids \in SUBSET J : Rows(<<"owner", "job", "view">>, ids) \subseteq AnyList(C, B, J, R)
      /\ \A ids \in SUBSET R : Rows(<<"owner", "broadcast", "view">>, ids) \subseteq AnyList(C, B, J, R)
  BY RowsAre DEF AnyList, RowButtonsOf, ClientVerbs, JobWords
<1>2. /\ Leaf(<<"owner", "clients", "page">>, page, pages) \subseteq AnyList(C, B, J, R)
      /\ Leaf(<<"owner", "bots", "page">>, page, pages) \subseteq AnyList(C, B, J, R)
      /\ Leaf(<<"owner", "jobs", f>>, page, pages) \subseteq AnyList(C, B, J, R)
      /\ Leaf(<<"owner", "broadcasts", f>>, page, pages) \subseteq AnyList(C, B, J, R)
  BY LeafIs DEF AnyList, PageButtons
<1>3. /\ <<"owner", "clients", "search">> \in AnyList(C, B, J, R)
      /\ <<"owner", "bots", "search">> \in AnyList(C, B, J, R)
      /\ \A s \in Sections : <<"owner", s>> \in AnyList(C, B, J, R)
      /\ Home("owner_home") \in AnyList(C, B, J, R)
  BY DEF AnyList, OwnerWords, Sections, ClientButtons, Home
<1>4. \A c \in C : <<"owner", "client", "view", c>> \in AnyList(C, B, J, R)
  BY DEF AnyList, RowButtonsOf, ClientVerbs
<1>5. {"clients", "bots", "jobs", "broadcasts"} \subseteq Sections
  BY DEF Sections
<1>6. \A ids \in SUBSET C :
        owner_clients_list_keyboard(page, pages, ids) \subseteq AnyList(C, B, J, R)
  BY <1>1, <1>2, <1>3, <1>5 DEF owner_clients_list_keyboard
<1>7. \A ids \in SUBSET B, c \in {0} \cup C :
        owner_bots_list_keyboard(page, pages, ids, c) \subseteq AnyList(C, B, J, R)
  BY <1>1, <1>2, <1>3, <1>4, <1>5 DEF owner_bots_list_keyboard
<1>8. \A ids \in SUBSET J :
        owner_jobs_list_keyboard(page, pages, ids, f) \subseteq AnyList(C, B, J, R)
  BY <1>1, <1>2, <1>3, <1>5 DEF owner_jobs_list_keyboard
<1>9. \A ids \in SUBSET R :
        owner_broadcasts_list_keyboard(page, pages, ids, f) \subseteq AnyList(C, B, J, R)
  BY <1>1, <1>2, <1>3, <1>5 DEF owner_broadcasts_list_keyboard
<1>. QED  BY <1>6, <1>7, <1>8, <1>9

LEMMA RowKeyboards ==
  ASSUME NEW C, NEW B, NEW J, NEW R
  PROVE  LET K == AnyList(C, B, J, R) IN
         /\ \A c \in C : /\ \A z \in BOOLEAN : owner_client_detail_keyboard(c, z) \subseteq K
                         /\ owner_client_suspend_confirm_keyboard(c) \subseteq K
                         /\ owner_client_reactivate_confirm_keyboard(c) \subseteq K
         /\ \A b \in B : bots[b].client \in C => owner_bot_detail_keyboard(b) \subseteq K
         /\ \A j \in J : /\ \A z \in BOOLEAN : owner_job_detail_keyboard(j, z) \subseteq K
                         /\ owner_job_retry_confirm_keyboard(j) \subseteq K
         /\ \A r \in R : owner_broadcast_detail_keyboard(r) \subseteq K
         /\ campaigns_keyboard \subseteq K
<1>0. 1 \in Nat \ {0}
  OBVIOUS
<1>1. \A c \in C :
        /\ \A z \in BOOLEAN : owner_client_detail_keyboard(c, z) \subseteq AnyList(C, B, J, R)
        /\ owner_client_suspend_confirm_keyboard(c) \subseteq AnyList(C, B, J, R)
        /\ owner_client_reactivate_confirm_keyboard(c) \subseteq AnyList(C, B, J, R)
  BY <1>0 DEF owner_client_detail_keyboard, owner_client_suspend_confirm_keyboard,
              owner_client_reactivate_confirm_keyboard, AnyList, RowButtonsOf, ClientVerbs,
              PageButtons, ClientButtons, Home
<1>2. \A b \in B : bots[b].client \in C => owner_bot_detail_keyboard(b) \subseteq AnyList(C, B, J, R)
  BY <1>0 DEF owner_bot_detail_keyboard, AnyList, RowButtonsOf, ClientVerbs, PageButtons,
              ClientButtons, Home
<1>3. \A j \in J :
        /\ \A z \in BOOLEAN : owner_job_detail_keyboard(j, z) \subseteq AnyList(C, B, J, R)
        /\ owner_job_retry_confirm_keyboard(j) \subseteq AnyList(C, B, J, R)
  BY DEF owner_job_detail_keyboard, owner_job_retry_confirm_keyboard, AnyList, RowButtonsOf,
         JobWords, OwnerWords, Sections, ClientButtons, Home
<1>4. \A r \in R : owner_broadcast_detail_keyboard(r) \subseteq AnyList(C, B, J, R)
  BY DEF owner_broadcast_detail_keyboard, AnyList, RowButtonsOf, OwnerWords, Sections,
         ClientButtons, Home
<1>5. campaigns_keyboard \subseteq AnyList(C, B, J, R)
  <2>1. 1 .. MessageCampaigns \subseteq Nat
    BY Bounds
  <2>2. PICK ids \in SUBSET Nat : ids = 1 .. MessageCampaigns
    BY <2>1
  <2>3. \A x \in campaigns_keyboard : \E i \in ids : x = <<"owner", "campaign", "view", i>>
    <3>1. campaigns_keyboard = Rows(<<"owner", "campaign", "view">>, ids)
      BY <2>2 DEF campaigns_keyboard
    <3>2. \A x \in Rows(<<"owner", "campaign", "view">>, ids) :
            \E i \in ids : x = <<"owner", "campaign", "view", i>>
      BY AppendFourth DEF Rows
    <3>. QED  BY <3>1, <3>2
  <2>4. \A i \in Nat : <<"owner", "campaign", "view", i>> \in AnyList(C, B, J, R)
    BY DEF AnyList, RowButtonsOf
  <2>. QED  BY <2>3, <2>4
<1>. QED  BY <1>1, <1>2, <1>3, <1>4, <1>5

----------------------------------------------------------------------------
(* What the owner is shown.                                                 *)

All == AnyList(DOMAIN clients, DOMAIN bots, DOMAIN jobs, DOMAIN broadcasts)

LEMMA Counts ==
  ASSUME ScreensTypeOK
  PROVE  counted.total \in Nat
BY DEF ScreensTypeOK, NoCount

LEMMA ListScreens ==
  ASSUME ScreensTypeOK, NEW n \in Nat \ {0}
  PROVE  /\ list_clients(n) \subseteq All /\ list_bots(n) \subseteq All
         /\ \A f \in Filters : list_jobs(f, n) \subseteq All /\ list_broadcasts(f, n) \subseteq All
         /\ bot_list_keyboard(n) \subseteq All
<1>1. list_clients(n) \subseteq All
  <2>1. total_pages(counted.total) \in Nat
    BY Counts, Pages
  <2>. QED  BY <2>1, PageRows, ListKeyboards DEF list_clients, All, Filters
<1>2. list_bots(n) \subseteq All
  <2>1. total_pages(counted.total) \in Nat
    BY Counts, Pages
  <2>. QED  BY <2>1, PageRows, ListKeyboards DEF list_bots, All, Filters
<1>3. ASSUME NEW f \in Filters PROVE list_jobs(f, n) \subseteq All
  <2>1. total_pages(counted.total) \in Nat
    BY Counts, Pages
  <2>2. Newest(JobRowsOf(f), n) \subseteq DOMAIN jobs
    BY FiniteRows, PageRows
  <2>. QED  BY <2>1, <2>2, ListKeyboards DEF list_jobs, All
<1>4. ASSUME NEW f \in Filters PROVE list_broadcasts(f, n) \subseteq All
  <2>1. total_pages(counted.total) \in Nat
    BY Counts, Pages
  <2>2. Newest(BroadcastRowsOf(f), n) \subseteq DOMAIN broadcasts
    BY FiniteRows, PageRows
  <2>. QED  BY <2>1, <2>2, ListKeyboards DEF list_broadcasts, All
<1>5. bot_list_keyboard(n) \subseteq All
  <2>1. Rows(<<"owner", "campaign", "bot">>, Oldest(ActiveBots, n)) \subseteq All
    <3>1. Oldest(ActiveBots, n) \subseteq DOMAIN bots
      BY FiniteRows, PageRows
    <3>. QED  BY <3>1, RowsAre DEF All, AnyList, RowButtonsOf
  <2>2. \A pages \in Nat : Leaf(<<"owner", "campaign", "botlist">>, n, pages) \subseteq All
    BY LeafIs DEF All, AnyList, PageButtons
  <2>. QED  BY <2>1, <2>2 DEF bot_list_keyboard
<1>. QED  BY <1>1, <1>2, <1>3, <1>4, <1>5

LEMMA Summaries ==
  ASSUME NEW s \in Sections
  PROVE  summary(s) \subseteq All
BY PlainKeyboards DEF summary, Sections, All, AnyList

\* A tap that only shows something draws buttons that are All there.
LEMMA OwnerScreen ==
  ASSUME ScreensTypeOK, NEW data \in OwnerButtons, Name(data) \notin OwnerChanges
  PROVE  owner_screen(data) \subseteq All
<1>1. CASE data \in {<<"owner", s>> : s \in Sections}
  <2>1. PICK s \in Sections : data = <<"owner", s>>
    BY <1>1
  <2>2. data[2] = s /\ Len(data) = 2
    BY <2>1
  <2>3. owner_screen(data) = summary(s)
    BY <2>2 DEF owner_screen, Sections, clients_section, bots_section, jobs_section,
                broadcasts_section
  <2>. QED  BY <2>3, Summaries
<1>2. CASE data \in {<<"owner", s, "search">> : s \in {"clients", "bots"}}
  <2>1. PICK s \in {"clients", "bots"} : data = <<"owner", s, "search">>
    BY <1>2
  <2>2. Name(data) = <<"owner", s, "search">>
    BY <2>1, Unnumbered
  <2>. QED  BY <2>2 DEF OwnerChanges
<1>3. CASE data \in {<<"owner", s, "refresh">> : s \in {"queue", "systemstats"}}
  <2>1. PICK s \in {"queue", "systemstats"} : data = <<"owner", s, "refresh">>
    BY <1>3
  <2>2. data[2] = s
    BY <2>1
  <2>3. owner_screen(data) = summary(s) /\ s \in Sections
    BY <2>2 DEF owner_screen, Sections
  <2>. QED  BY <2>3, Summaries
<1>4. CASE data \in {<<"owner", "campaign", s>> : s \in {"start", "list", "owners", "all"}}
  <2>1. PICK s \in {"start", "list", "owners", "all"} : data = <<"owner", "campaign", s>>
    BY <1>4
  <2>2. data[2] = "campaign" /\ data[3] = s
    BY <2>1
  <2>3. owner_screen(data) = campaign_section(data)
    BY <2>2 DEF owner_screen
  <2>. QED  BY <2>2, <2>3, PlainKeyboards, RowKeyboards DEF campaign_section, All, AnyList
<1>5. CASE data = <<"owner", "search", "cancel">>
  <2>1. Name(data) = <<"owner", "search", "cancel">>
    BY <1>5, Unnumbered
  <2>. QED  BY <2>1 DEF OwnerChanges
<1>6. CASE data \in {<<"owner", s, "page", n>> : s \in {"clients", "bots"}, n \in Nat \ {0}}
  <2>1. PICK s \in {"clients", "bots"}, n \in Nat \ {0} : data = <<"owner", s, "page", n>>
    BY <1>6
  <2>2. data[2] = s /\ data[3] = "page" /\ data[4] = n /\ Len(data) = 4
    BY <2>1 DEF Number
  <2>3. s = "clients" => owner_screen(data) = list_clients(n)
    BY <2>2 DEF owner_screen, clients_section
  <2>4. s = "bots" => owner_screen(data) = list_bots(n)
    BY <2>2 DEF owner_screen, bots_section
  <2>. QED  BY <2>3, <2>4, ListScreens
<1>7. CASE data \in {<<"owner", "campaign", "botlist", n>> : n \in Nat \ {0}}
  <2>1. PICK n \in Nat \ {0} : data = <<"owner", "campaign", "botlist", n>>
    BY <1>7
  <2>2. data[2] = "campaign" /\ data[3] = "botlist" /\ data[4] = n
    BY <2>1 DEF Number
  <2>3. owner_screen(data) = bot_list_keyboard(n)
    BY <2>2 DEF owner_screen, campaign_section
  <2>. QED  BY <2>3, ListScreens
<1>8. CASE data \in {<<"owner", s, f, n>> : s \in {"jobs", "broadcasts"}, f \in Filters,
                                            n \in Nat \ {0}}
  <2>1. PICK s \in {"jobs", "broadcasts"}, f \in Filters, n \in Nat \ {0} :
          data = <<"owner", s, f, n>>
    BY <1>8
  <2>2. data[2] = s /\ data[3] = f /\ data[4] = n /\ Len(data) = 4
    BY <2>1 DEF Number
  <2>3. s = "jobs" => owner_screen(data) = list_jobs(f, n)
    BY <2>2 DEF owner_screen, jobs_section
  <2>4. s = "broadcasts" => owner_screen(data) = list_broadcasts(f, n)
    BY <2>2 DEF owner_screen, broadcasts_section
  <2>. QED  BY <2>3, <2>4, ListScreens
<1>9. CASE data \in {<<"owner", "client", s, c>> : s \in ClientVerbs, c \in DOMAIN clients}
  <2>1. PICK s \in ClientVerbs, c \in DOMAIN clients : data = <<"owner", "client", s, c>>
    BY <1>9
  <2>2. data[2] = "client" /\ data[3] = s /\ Number(data) = c
    BY <2>1 DEF Number
  <2>3. Name(data) = <<"owner", "client", s>>
    BY <2>1, Named
  <2>4. s \in {"view", "suspend", "reactivate"}
    BY <2>3 DEF OwnerChanges, ClientVerbs
  <2>5. owner_screen(data) = client_section(data)
    BY <2>2 DEF owner_screen
  <2>6. (clients[c].status = "SUSPENDED") \in BOOLEAN
    OBVIOUS
  <2>7. \/ owner_screen(data) = owner_client_detail_keyboard(c, clients[c].status = "SUSPENDED")
        \/ owner_screen(data) = owner_client_suspend_confirm_keyboard(c)
        \/ owner_screen(data) = owner_client_reactivate_confirm_keyboard(c)
    BY <2>2, <2>4, <2>5 DEF client_section
  <2>8. /\ owner_client_detail_keyboard(c, clients[c].status = "SUSPENDED") \subseteq All
        /\ owner_client_suspend_confirm_keyboard(c) \subseteq All
        /\ owner_client_reactivate_confirm_keyboard(c) \subseteq All
    BY <2>6, RowKeyboards DEF All
  <2>. QED  BY <2>7, <2>8
<1>10. CASE data \in {<<"owner", "bots", "client", c>> : c \in DOMAIN clients}
  <2>1. PICK c \in DOMAIN clients : data = <<"owner", "bots", "client", c>>
    BY <1>10
  <2>2. data[2] = "bots" /\ data[3] = "client" /\ data[4] = c /\ Len(data) = 4
    BY <2>1 DEF Number
  <2>3. owner_screen(data) = owner_bots_list_keyboard(1, 1, list_by_client(c), c)
    BY <2>2 DEF owner_screen, bots_section
  <2>4. list_by_client(c) \subseteq DOMAIN bots /\ 1 \in Nat \ {0} /\ 1 \in Nat
    BY DEF list_by_client
  <2>5. "all" \in Filters
    BY DEF Filters
  <2>6. owner_bots_list_keyboard(1, 1, list_by_client(c), c) \subseteq All
    BY <2>4, <2>5, ListKeyboards DEF All
  <2>. QED  BY <2>3, <2>6
<1>11. CASE data \in {<<"owner", "bot", "view", b>> : b \in DOMAIN bots}
  <2>1. PICK b \in DOMAIN bots : data = <<"owner", "bot", "view", b>>
    BY <1>11
  <2>2. data[2] = "bot" /\ data[4] = b
    BY <2>1 DEF Number
  <2>3. owner_screen(data) = owner_bot_detail_keyboard(b)
    BY <2>2 DEF owner_screen
  <2>. QED  BY <2>3, Tables, RowKeyboards DEF All
<1>12. CASE data \in {<<"owner", "campaign", "bot", b>> : b \in DOMAIN bots}
  <2>1. data[2] = "campaign" /\ data[3] = "bot"
    BY <1>12
  <2>. QED  BY <2>1 DEF owner_screen, campaign_section
<1>13. CASE data \in {<<"owner", "campaign", "view", m>> : m \in Nat}
  <2>1. data[2] = "campaign" /\ data[3] = "view"
    BY <1>13
  <2>2. owner_screen(data) = {data}
    BY <2>1 DEF owner_screen, campaign_section
  <2>. QED  BY <1>13, <2>2 DEF All, AnyList, RowButtonsOf
<1>14. CASE data \in {<<"owner", "job", s, j>> : s \in JobWords, j \in DOMAIN jobs}
  <2>1. PICK s \in JobWords, j \in DOMAIN jobs : data = <<"owner", "job", s, j>>
    BY <1>14
  <2>2. data[2] = "job" /\ data[3] = s /\ data[4] = j
    BY <2>1 DEF Number
  <2>3. owner_screen(data) = job_section(data)
    BY <2>2 DEF owner_screen
  <2>4. (jobs[j] \in {"FAILED", "RETRYING"}) \in BOOLEAN
    OBVIOUS
  <2>5. \/ owner_screen(data) = owner_job_detail_keyboard(j, jobs[j] \in {"FAILED", "RETRYING"})
        \/ owner_screen(data) = owner_job_retry_confirm_keyboard(j)
    BY <2>2, <2>3 DEF job_section
  <2>6. /\ owner_job_detail_keyboard(j, jobs[j] \in {"FAILED", "RETRYING"}) \subseteq All
        /\ owner_job_retry_confirm_keyboard(j) \subseteq All
    BY <2>4, RowKeyboards DEF All
  <2>. QED  BY <2>5, <2>6
<1>15. CASE data \in {<<"owner", "broadcast", "view", r>> : r \in DOMAIN broadcasts}
  <2>1. PICK r \in DOMAIN broadcasts : data = <<"owner", "broadcast", "view", r>>
    BY <1>15
  <2>2. data[2] = "broadcast" /\ data[4] = r
    BY <2>1 DEF Number
  <2>3. owner_screen(data) = owner_broadcast_detail_keyboard(r)
    BY <2>2 DEF owner_screen
  <2>. QED  BY <2>3, RowKeyboards DEF All
<1>. QED  BY <1>1, <1>2, <1>3, <1>4, <1>5, <1>6, <1>7, <1>8, <1>9, <1>10, <1>11, <1>12, <1>13,
             <1>14, <1>15 DEF OwnerButtons, OwnerWords, PageButtons, RowButtonsOf

----------------------------------------------------------------------------
(* The tables only grow: rows are added and change their status, and a bot  *)
(* stays with its client.                                                   *)

ClientsGrow ==
  /\ who' = who
  /\ clients' \in Seq(ClientRow) /\ OneRow(clients') /\ DOMAIN clients \subseteq DOMAIN clients'
  /\ client_of(clients) # 0 => client_of(clients') = client_of(clients)
BotsGrow ==
  /\ bots' \in Seq(BotRow(DOMAIN clients')) /\ Len(bots') <= MaxBots
  /\ \A b \in DOMAIN bots : b \in DOMAIN bots' /\ bots'[b].client = bots[b].client
WorkGrows ==
  /\ jobs' \in Seq(JobStatuses) /\ DOMAIN jobs \subseteq DOMAIN jobs'
  /\ broadcasts' \in Seq(BroadcastStatuses) /\ DOMAIN broadcasts \subseteq DOMAIN broadcasts'
Grows == ClientsGrow /\ BotsGrow /\ WorkGrows

LEMMA TypedRows ==
  ASSUME ScreensTypeOK
  PROVE  clients \in Seq(ClientRow) /\ bots \in Seq(BotRow(DOMAIN clients))
BY DEF ScreensTypeOK, ClientRow, BotRow

LEMMA OwnNext ==
  ASSUME who' = who
  PROVE  /\ Own' = {0} \cup {b \in DOMAIN bots' : bots'[b].client = client_of(clients')}
         /\ Own' = {0} \cup Mine'
BY DEF Own, Mine, list_by_client, client_of

LEMMA ButtonsMore ==
  ASSUME ScreensTypeOK, OneRow(clients), Grows
  PROVE  /\ Own \subseteq Own' /\ OwnerButtons \subseteq OwnerButtons'
         /\ ClientButtons(Own) \subseteq ClientButtons(Own') /\ Buttons \subseteq Buttons'
<1>1. Own \subseteq Own'
  <2>1. \A b \in Mine : /\ b \in DOMAIN bots
                        /\ bots[b].client = client_of(clients) /\ client_of(clients) # 0
    BY TypedRows, MineIs
  <2>2. \A b \in Mine : b \in DOMAIN bots' /\ bots'[b].client = client_of(clients')
    BY <2>1 DEF Grows, ClientsGrow, BotsGrow
  <2>. QED  BY <2>2, OwnNext DEF Grows, ClientsGrow, Own
<1>2. OwnerButtons \subseteq OwnerButtons'
  <2>1. /\ DOMAIN clients \subseteq DOMAIN clients' /\ DOMAIN bots \subseteq DOMAIN bots'
        /\ DOMAIN jobs \subseteq DOMAIN jobs' /\ DOMAIN broadcasts \subseteq DOMAIN broadcasts'
    BY DEF Grows, ClientsGrow, BotsGrow, WorkGrows
  <2>. QED  BY <2>1 DEF OwnerButtons, RowButtonsOf
<1>3. ClientButtons(Own) \subseteq ClientButtons(Own')
  BY <1>1 DEF ClientButtons
<1>. QED  BY <1>1, <1>2, <1>3 DEF Buttons, Grows, ClientsGrow

LEMMA ClientsSame ==
  ASSUME ScreensTypeOK, OneRow(clients), UNCHANGED <<clients, who>>
  PROVE  ClientsGrow
BY TypedRows DEF ClientsGrow

LEMMA ClientsResolved ==
  ASSUME ScreensTypeOK, OneRow(clients), clients' = resolve_or_create_client, who' = who
  PROVE  ClientsGrow /\ client_of(clients') \in DOMAIN clients'
BY TypedRows, Resolved DEF ClientsGrow, More, ScreensTypeOK

LEMMA BotsTyped ==
  ASSUME ScreensTypeOK, ClientsGrow
  PROVE  bots \in Seq(BotRow(DOMAIN clients'))
<1>1. BotRow(DOMAIN clients) \subseteq BotRow(DOMAIN clients')
  BY DEF ClientsGrow, BotRow
<1>. QED  BY <1>1, TypedRows, SeqMonotonic

LEMMA BotsSame ==
  ASSUME ScreensTypeOK, ClientsGrow, UNCHANGED bots
  PROVE  BotsGrow
BY BotsTyped DEF BotsGrow, ScreensTypeOK

LEMMA SetBotGrows ==
  ASSUME ScreensTypeOK, ClientsGrow, NEW b \in DOMAIN bots, NEW s \in BotStatuses, SetBot(b, s)
  PROVE  BotsGrow /\ DOMAIN bots' = DOMAIN bots
<1>1. /\ bots \in Seq(BotRow(DOMAIN clients')) /\ DOMAIN bots = 1 .. Len(bots)
      /\ Len(bots) <= MaxBots
  BY BotsTyped, Tables DEF ScreensTypeOK
<1>2. bots[b] \in BotRow(DOMAIN clients')
  BY <1>1, ElementOfSeq
<1>3. PICK r \in BotRow(DOMAIN clients') : r = [bots[b] EXCEPT !.status = s]
  BY <1>2 DEF BotRow
<1>4. bots' = [bots EXCEPT ![b] = r]
  BY <1>3 DEF SetBot
<1>5. /\ bots' \in Seq(BotRow(DOMAIN clients')) /\ Len(bots') = Len(bots)
      /\ \A i \in 1 .. Len(bots) : bots'[i] = IF i = b THEN r ELSE bots[i]
  BY <1>1, <1>4, ExceptSeq
<1>6. DOMAIN bots' = 1 .. Len(bots')
  BY <1>5, LenProperties
<1>7. r.client = bots[b].client
  BY <1>2, <1>3 DEF BotRow
<1>. QED  BY <1>1, <1>5, <1>6, <1>7 DEF BotsGrow

LEMMA BotAdded ==
  ASSUME ScreensTypeOK, ClientsGrow, Len(bots) < MaxBots, NEW r \in BotRow(DOMAIN clients'),
         bots' = Append(bots, r)
  PROVE  /\ BotsGrow /\ Len(bots) + 1 \in DOMAIN bots' /\ bots'[Len(bots) + 1] = r
<1>1. bots \in Seq(BotRow(DOMAIN clients')) /\ MaxBots \in Nat
  BY BotsTyped, Bounds
<1>2. /\ bots' \in Seq(BotRow(DOMAIN clients')) /\ Len(bots') = Len(bots) + 1
      /\ DOMAIN bots = 1 .. Len(bots) /\ Len(bots) \in Nat
      /\ DOMAIN bots' = 1 .. Len(bots) + 1
      /\ \A i \in DOMAIN bots : bots'[i] = bots[i]
      /\ bots'[Len(bots) + 1] = r
  BY <1>1, AppendRow
<1>. QED  BY <1>1, <1>2 DEF BotsGrow

LEMMA WorkSame ==
  ASSUME ScreensTypeOK, UNCHANGED <<jobs, broadcasts>>
  PROVE  WorkGrows
BY DEF WorkGrows, ScreensTypeOK

----------------------------------------------------------------------------
(* A client's taps.                                                         *)

Numbered == {<<"client", "connect", s>> : s \in {"confirm", "retry"}}
              \cup {<<"client", "bot", s>> : s \in BotWords}

\* A button that a client's handler takes a bot from carries one of the own.
LEMMA OwnNumber ==
  ASSUME NEW own, NEW data \in ClientButtons(own) \cup OwnerButtons, Name(data) \in Numbered
  PROVE  Number(data) \in own
<1>1. Len(Name(data)) = 3 /\ Name(data)[1] = "client"
  BY DEF Numbered
<1>2. CASE \E s \in {"confirm", "retry"}, b \in own : data = <<"client", "connect", s, b>>
  BY <1>2, Named
<1>3. CASE \E s \in BotWords, b \in own : data = <<"client", "bot", s, b>>
  BY <1>3, Named
<1>4. CASE \/ \E s \in ClientWords : data = <<"client", s>>
           \/ \E s \in {"token_ready", "cancel"} : data = <<"client", "connect", s>>
           \/ \E s \in {"owner_home", "client_home"} : data = <<"nav", s>>
  <2>1. Len(data) # 4
    BY <1>4
  <2>2. Name(data) = data
    BY <2>1, Unnumbered
  <2>. QED  BY <1>4, <2>2 DEF Numbered, BotWords
<1>5. CASE data \in OwnerButtons
  <2>1. data[1] = "owner" /\ (Len(data) = 4 \/ Name(data) = data)
    BY <1>5, Unnumbered DEF OwnerButtons, OwnerWords, PageButtons, RowButtonsOf
  <2>2. Name(data)[1] = "owner"
    <3>1. CASE Name(data) = data
      BY <2>1, <3>1
    <3>2. CASE Len(data) = 4
      <4>1. PICK a, b, c, n : data = <<a, b, c, n>>
        BY <1>5, <3>2 DEF OwnerButtons, OwnerWords, PageButtons, RowButtonsOf
      <4>. QED  BY <2>1, <4>1, Named
    <3>. QED  BY <2>1, <3>1, <3>2
  <2>. QED  BY <1>1, <2>2
<1>. QED  BY <1>2, <1>3, <1>4, <1>5 DEF ClientButtons

\* What is to be shown of a tap or a command: buttons that are there, and own bots.
Draws == screen' \subseteq Buttons'
Waits == waiting' \in {NoBot} \cup Own'

LEMMA DrawsOf ==
  ASSUME screen' \subseteq ClientButtons(Own')
  PROVE  Draws
BY DEF Draws, Buttons

ScreensInv ==
  /\ ScreensTypeOK /\ OneRow(clients)
  /\ screen \subseteq Buttons
  /\ waiting \in {NoBot} \cup Own

LEMMA TapOf ==
  ASSUME ScreensInv, NEW data \in screen
  PROVE  /\ data \in ClientButtons(Own) \cup OwnerButtons
         /\ Name(data) \in Numbered => Number(data) \in Own
<1>1. data \in ClientButtons(Own) \cup OwnerButtons
  BY DEF ScreensInv, Buttons
<1>. QED  BY <1>1, OwnNumber

LEMMA ClientShown ==
  ASSUME ScreensInv, Grows, NEW data \in screen,
         show_client_screen(client_of(clients'), data)
  PROVE  Draws
<1>. DEFINE c == client_of(clients')  mine == list_by_client(c)  K == ClientButtons(Own')
<1>1. UNCHANGED bots /\ screen' = client_screen(c, data) /\ Name(data) \in ClientScreens
  BY DEF show_client_screen, SameRows, Draw
<1>2. Own' = {0} \cup mine /\ mine \subseteq DOMAIN bots
  BY <1>1, OwnNext DEF Grows, ClientsGrow, list_by_client
<1>3. \A b \in mine : bots[b].status \in BotStatuses
  BY <1>2, Tables DEF ScreensInv
<1>4. \A b \in mine : client_bot_detail_keyboard(b, bots[b].status) \subseteq K
  BY <1>2, <1>3, BotKeyboard
<1>5. /\ how_it_works_keyboard \subseteq K /\ client_mybots_keyboard(mine) \subseteq K
      /\ back_to_client_home_keyboard \subseteq K
      /\ \A b \in mine : client_disconnect_confirm_keyboard(b) \subseteq K
      /\ client_home_zero_bots_keyboard \subseteq K /\ client_home_keyboard \subseteq K
  BY <1>2, ClientKeyboards
<1>6. client_screen(c, data) \subseteq K
  <2>. HIDE DEF K, c
  <2>1. CASE Name(data) \in {<<"client", s>> : s \in {"how_it_works", "mybots", "account", "help"}}
    BY <1>5, <2>1 DEF client_screen
  <2>2. CASE Name(data) \in {<<"client", "bot", s>> : s \in {"view", "refresh"}}
    BY <1>4, <1>5, <2>2 DEF client_screen
  <2>3. CASE Name(data) = <<"client", "bot", "disconnect">>
    BY <1>5, <2>3 DEF client_screen
  <2>4. CASE Name(data) = Home("client_home")
    BY <1>5, <2>4 DEF client_screen, Home
  <2>. QED  BY <1>1, <2>1, <2>2, <2>3, <2>4 DEF ClientScreens
<1>. QED  BY <1>1, <1>6, DrawsOf

LEMMA WaitsSame ==
  ASSUME ScreensInv, Grows, UNCHANGED waiting
  PROVE  Waits
BY ButtonsMore DEF ScreensInv, Waits

LEMMA Shows ==
  ASSUME ScreensInv, Grows
  PROVE  /\ screen' = screen => Draws
         /\ screen' = {} => Draws
         /\ screen' = owner_home_keyboard /\ who = Owner => Draws
BY ButtonsMore, PlainKeyboards
   DEF Draws, ScreensInv, Buttons, Grows, ClientsGrow, OwnerButtons, ClientButtons

LEMMA ClientTapKeeps ==
  ASSUME ScreensInv, who' = who, NEW data \in screen, ClientTaps(data)
  PROVE  Grows /\ Draws /\ Waits
<1>. DEFINE c == client_of(clients')  b == Number(data)
<1>1. /\ clients' = resolve_or_create_client /\ client_of(clients') \in DOMAIN clients'
      /\ ClientsGrow
  BY ClientsResolved DEF ClientTaps, ScreensInv
<1>2. ASSUME SameRows PROVE Grows
  BY <1>1, <1>2, BotsSame, WorkSame DEF SameRows, Grows, ScreensInv
<1>3. c \in DOMAIN clients' /\ Own' = {0} \cup {i \in DOMAIN bots' : bots'[i].client = c}
  BY <1>1, OwnNext
<1>4. CASE screen' = {} /\ UNCHANGED waiting /\ SameRows
  BY <1>2, <1>4, Shows, WaitsSame
<1>5. CASE show_client_screen(c, data)
  <2>1. Grows
    BY <1>2, <1>5 DEF show_client_screen
  <2>. QED  BY <1>5, <2>1, ClientShown, WaitsSame DEF show_client_screen
<1>6. CASE show_owner_home(data)
  <2>1. Grows
    BY <1>2, <1>6 DEF show_owner_home
  <2>. QED  BY <1>6, <2>1, Shows, WaitsSame DEF show_owner_home, Draw
<1>7. CASE connectbot(data) \/ token_ready(data) \/ cancel_connection(data)
  <2>1. Grows
    BY <1>2, <1>7 DEF connectbot, token_ready, cancel_connection
  <2>2. 0 \in Own' /\ waiting' \in {NoBot, 0}
    BY <1>3, <1>7 DEF connectbot, token_ready, cancel_connection, Wait
  <2>3. screen' \subseteq ClientButtons(Own')
    BY <1>7, <2>2, ClientKeyboards DEF connectbot, token_ready, cancel_connection, Draw
  <2>. QED  BY <2>1, <2>2, <2>3, DrawsOf DEF Waits
<1>8. CASE reconnect(c, data)
  <2>1. Grows /\ UNCHANGED bots
    BY <1>2, <1>8 DEF reconnect, SameRows
  <2>2. 0 \in Own' /\ list_by_client(c) \subseteq Own'
    BY <1>3, <2>1 DEF list_by_client
  <2>3. screen' \subseteq ClientButtons(Own')
    BY <1>8, <2>2, ClientKeyboards DEF reconnect, Draw
  <2>4. Waits
    BY <1>8, <2>1, <2>2, WaitsSame DEF reconnect, Wait, Waits
  <2>. QED  BY <2>1, <2>3, <2>4, DrawsOf
<1>9. CASE confirm(c, data)
  <2>1. UNCHANGED <<waiting, jobs, broadcasts>>
    BY <1>9 DEF confirm
  <2>2. CASE screen' = client_bot_detail_keyboard(0, "PROVISION_FAILED") /\ UNCHANGED bots
    <3>1. Grows
      BY <1>1, <2>1, <2>2, BotsSame, WorkSame DEF Grows, ScreensInv
    <3>2. screen' \subseteq ClientButtons(Own')
      BY <1>3, <2>2, BotKeyboard DEF BotStatuses
    <3>. QED  BY <2>1, <3>1, <3>2, DrawsOf, WaitsSame
  <2>3. ASSUME NEW s \in {"ACTIVE", "PROVISION_FAILED"}, Len(bots) < MaxBots,
               bots' = Append(bots, [client |-> c, status |-> s]),
               screen' = client_bot_detail_keyboard(Len(bots) + 1, s)
        PROVE  Grows /\ Draws /\ Waits
    <3>0. s \in BotStatuses
      BY <2>3 DEF BotStatuses
    <3>1. PICK r \in BotRow(DOMAIN clients') : r = [client |-> c, status |-> s]
      BY <1>3, <3>0 DEF BotRow
    <3>2. BotsGrow /\ Len(bots) + 1 \in DOMAIN bots' /\ bots'[Len(bots) + 1] = r
      BY <1>1, <2>3, <3>1, BotAdded DEF ScreensInv
    <3>3. Len(bots) + 1 \in Own'
      BY <1>3, <3>1, <3>2
    <3>4. screen' \subseteq ClientButtons(Own')
      BY <2>3, <3>0, <3>3, BotKeyboard
    <3>5. Grows
      BY <1>1, <2>1, <3>2, WorkSame DEF Grows, ScreensInv
    <3>. QED  BY <2>1, <3>4, <3>5, DrawsOf, WaitsSame
  <2>4. ASSUME NEW s \in {"ACTIVE", "PROVISION_FAILED"}, b \in list_by_client(c),
               SetBot(b, s), screen' = client_bot_detail_keyboard(b, s)
        PROVE  Grows /\ Draws /\ Waits
    <3>0. s \in BotStatuses
      BY <2>4 DEF BotStatuses
    <3>1. b \in DOMAIN bots /\ bots[b].client = c
      BY <2>4 DEF list_by_client
    <3>2. BotsGrow
      BY <1>1, <2>4, <3>0, <3>1, SetBotGrows DEF ScreensInv
    <3>3. b \in Own'
      BY <1>3, <3>1, <3>2 DEF BotsGrow
    <3>4. screen' \subseteq ClientButtons(Own')
      BY <2>4, <3>0, <3>3, BotKeyboard
    <3>5. Grows
      BY <1>1, <2>1, <3>2, WorkSame DEF Grows, ScreensInv
    <3>. QED  BY <2>1, <3>4, <3>5, DrawsOf, WaitsSame
  <2>. QED  BY <1>9, <2>2, <2>3, <2>4 DEF confirm, Draw
<1>10. CASE retry(c, data)
  <2>1. UNCHANGED <<waiting, jobs, broadcasts>>
    BY <1>10 DEF retry
  <2>2. ASSUME b \in list_by_client(c), NEW s \in {"ACTIVE", "PROVISION_FAILED", "INVALID_TOKEN"},
               SetBot(b, s),
               screen' = client_bot_detail_keyboard(b, IF s = "ACTIVE" THEN s
                                                       ELSE "PROVISION_FAILED")
        PROVE  Grows /\ Draws /\ Waits
    <3>0. s \in BotStatuses /\ (IF s = "ACTIVE" THEN s ELSE "PROVISION_FAILED") \in BotStatuses
      BY <2>2 DEF BotStatuses
    <3>1. b \in DOMAIN bots /\ bots[b].client = c
      BY <2>2 DEF list_by_client
    <3>2. BotsGrow
      BY <1>1, <2>2, <3>0, <3>1, SetBotGrows DEF ScreensInv
    <3>3. b \in Own'
      BY <1>3, <3>1, <3>2 DEF BotsGrow
    <3>4. screen' \subseteq ClientButtons(Own')
      BY <2>2, <3>0, <3>3, BotKeyboard
    <3>5. Grows
      BY <1>1, <2>1, <3>2, WorkSame DEF Grows, ScreensInv
    <3>. QED  BY <2>1, <3>4, <3>5, DrawsOf, WaitsSame
  <2>3. CASE b \notin list_by_client(c)
    <3>1. UNCHANGED bots /\ screen' = client_bot_detail_keyboard(b, "PROVISION_FAILED")
      BY <1>10, <2>3 DEF retry, Draw
    <3>2. Grows
      BY <1>1, <2>1, <3>1, BotsSame, WorkSame DEF Grows, ScreensInv
    <3>3. b \in Own
      <4>1. Name(data) \in Numbered
        BY <1>10 DEF retry, Numbered
      <4>. QED  BY <4>1, TapOf
    <3>4. b \in Own'
      BY <3>2, <3>3, ButtonsMore DEF ScreensInv
    <3>5. screen' \subseteq ClientButtons(Own')
      BY <3>1, <3>4, BotKeyboard DEF BotStatuses
    <3>. QED  BY <2>1, <3>2, <3>5, DrawsOf, WaitsSame
  <2>4. CASE b \in list_by_client(c)
    <3>1. PICK s \in {"ACTIVE", "PROVISION_FAILED", "INVALID_TOKEN"} :
            /\ SetBot(b, s)
            /\ screen' = client_bot_detail_keyboard(b, IF s = "ACTIVE" THEN s
                                                       ELSE "PROVISION_FAILED")
      BY <1>10, <2>4 DEF retry, Draw
    <3>. QED  BY <2>2, <2>4, <3>1
  <2>. QED  BY <2>3, <2>4
<1>11. CASE disconnect_confirm(c, data)
  <2>1. UNCHANGED <<waiting, jobs, broadcasts>>
    BY <1>11 DEF disconnect_confirm
  <2>2. CASE b \in list_by_client(c)
    <3>0. "DISCONNECTED" \in BotStatuses
      BY DEF BotStatuses
    <3>1. b \in DOMAIN bots /\ bots[b].client = c
      BY <2>2 DEF list_by_client
    <3>2. SetBot(b, "DISCONNECTED") /\ screen' = client_bot_detail_keyboard(b, "DISCONNECTED")
      BY <1>11, <2>2 DEF disconnect_confirm, Draw
    <3>3. BotsGrow
      BY <1>1, <3>0, <3>1, <3>2, SetBotGrows DEF ScreensInv
    <3>4. b \in Own'
      BY <1>3, <3>1, <3>3 DEF BotsGrow
    <3>5. screen' \subseteq ClientButtons(Own')
      BY <3>0, <3>2, <3>4, BotKeyboard
    <3>6. Grows
      BY <1>1, <2>1, <3>3, WorkSame DEF Grows, ScreensInv
    <3>. QED  BY <2>1, <3>5, <3>6, DrawsOf, WaitsSame
  <2>3. CASE b \notin list_by_client(c)
    <3>1. UNCHANGED bots /\ screen' = back_to_client_home_keyboard
      BY <1>11, <2>3 DEF disconnect_confirm, Draw
    <3>2. Grows
      BY <1>1, <2>1, <3>1, BotsSame, WorkSame DEF Grows, ScreensInv
    <3>3. screen' \subseteq ClientButtons(Own')
      BY <1>3, <3>1, ClientKeyboards
    <3>. QED  BY <2>1, <3>2, <3>3, DrawsOf, WaitsSame
  <2>. QED  BY <2>2, <2>3
<1>12. c = client_of(resolve_or_create_client)
  BY <1>1
<1>. HIDE DEF c, b
<1>. QED  BY <1>4, <1>5, <1>6, <1>7, <1>8, <1>9, <1>10, <1>11, <1>12 DEF ClientTaps, Draw

----------------------------------------------------------------------------
(* The owner's taps.                                                        *)

LEMMA Status ==
  ASSUME NEW S, NEW rows \in Seq(S), NEW i \in DOMAIN rows, NEW r \in S,
         NEW rows2, rows2 = [rows EXCEPT ![i] = r]
  PROVE  /\ rows2 \in Seq(S) /\ Len(rows2) = Len(rows) /\ DOMAIN rows2 = DOMAIN rows
         /\ \A j \in DOMAIN rows : rows2[j] = IF j = i THEN r ELSE rows[j]
<1>1. DOMAIN rows = 1 .. Len(rows)
  BY LenProperties
<1>2. /\ rows2 \in Seq(S) /\ Len(rows2) = Len(rows)
      /\ \A j \in 1 .. Len(rows) : rows2[j] = IF j = i THEN r ELSE rows[j]
  BY <1>1, ExceptSeq
<1>3. DOMAIN rows2 = 1 .. Len(rows2)
  BY <1>2, LenProperties
<1>. QED  BY <1>1, <1>2, <1>3

LEMMA ClientStatus ==
  ASSUME ScreensTypeOK, OneRow(clients), who' = who, NEW c \in DOMAIN clients,
         NEW s \in ClientStatuses, clients' = [clients EXCEPT ![c].status = s]
  PROVE  ClientsGrow
<1>1. clients \in Seq(ClientRow) /\ clients[c] \in ClientRow
  BY TypedRows, Tables, ElementOfSeq
<1>2. PICK r \in ClientRow : r = [clients[c] EXCEPT !.status = s]
  BY <1>1 DEF ClientRow
<1>3. clients' = [clients EXCEPT ![c] = r] /\ r.user = clients[c].user
  BY <1>1, <1>2 DEF ClientRow
<1>4. /\ clients' \in Seq(ClientRow) /\ DOMAIN clients' = DOMAIN clients
      /\ \A j \in DOMAIN clients : clients'[j] = IF j = c THEN r ELSE clients[j]
  BY <1>1, <1>3, Status
<1>5. \A j \in DOMAIN clients : clients'[j].user = clients[j].user
  BY <1>3, <1>4
<1>6. OneRow(clients')
  BY <1>4, <1>5 DEF OneRow
<1>7. client_of(clients') = client_of(clients)
  BY <1>4, <1>5 DEF client_of
<1>. QED  BY <1>4, <1>6, <1>7 DEF ClientsGrow

LEMMA AllIsShown ==
  ASSUME ScreensInv, Grows, who = Owner, screen' \subseteq All
  PROVE  Draws
<1>1. All \subseteq ClientButtons(Own) \cup OwnerButtons
  BY DEF All, AnyList, OwnerButtons, ClientButtons
<1>. QED  BY <1>1, ButtonsMore DEF ScreensInv, Draws, Buttons, Grows, ClientsGrow

\* The row named by a button of the owner's is there.
LEMMA OwnerNumber ==
  ASSUME ScreensInv, NEW data \in screen
  PROVE  /\ \A s \in ClientVerbs : Name(data) = <<"owner", "client", s>> =>
                                     Number(data) \in DOMAIN clients
         /\ \A s \in JobWords : Name(data) = <<"owner", "job", s>> => Number(data) \in DOMAIN jobs
<1>1. ASSUME Len(data) # 4, NEW x, NEW y, Name(data) = <<"owner", x, y>>,
             x \in {"client", "job"}
      PROVE  FALSE
  <2>1. data = <<"owner", x, y>>
    BY <1>1, Unnumbered
  <2>. QED  BY <1>1, <2>1, TapOf
            DEF ClientButtons, OwnerButtons, OwnerWords, PageButtons, RowButtonsOf
<1>2. ASSUME Len(data) = 4, NEW x, NEW y, Name(data) = <<"owner", x, y>>, x \in {"client", "job"}
      PROVE  IF x = "client" THEN Number(data) \in DOMAIN clients ELSE Number(data) \in DOMAIN jobs
  <2>1. PICK p, q, r, n : data = <<p, q, r, n>>
    BY <1>2, TapOf DEF ClientButtons, OwnerButtons, OwnerWords, PageButtons, RowButtonsOf
  <2>2. p = "owner" /\ q = x /\ r = y /\ Number(data) = n
    BY <1>2, <2>1, Named
  <2>. QED  BY <1>2, <2>1, <2>2, TapOf
            DEF ClientButtons, OwnerButtons, OwnerWords, PageButtons, RowButtonsOf
<1>. QED  BY <1>1, <1>2

LEMMA RowsSame ==
  ASSUME ScreensInv, who' = who, UNCHANGED tables
  PROVE  Grows
BY ClientsSame, BotsSame, WorkSame DEF ScreensInv, tables, Grows

LEMMA ShowKeeps ==
  ASSUME ScreensInv, who' = who, who = Owner, UNCHANGED waiting,
         NEW data \in screen, show_owner_screen(data)
  PROVE  Grows /\ Draws /\ Waits
<1>1. Grows
  BY RowsSame DEF show_owner_screen
<1>2. data \in OwnerButtons
  <2>1. Name(data) \in OwnerHandlers
    BY DEF show_owner_screen
  <2>2. Name(data)[1] = "owner"
    BY <2>1 DEF OwnerHandlers, Lists
  <2>3. CASE data \in ClientButtons(Own)
    <3>1. data[1] # "owner"
      BY <2>3 DEF ClientButtons
    <3>2. Len(data) = 4 \/ Name(data) = data
      BY Unnumbered
    <3>3. CASE Len(data) = 4
      <4>1. PICK a, b, c, n : data = <<a, b, c, n>>
        BY <2>3, <3>3 DEF ClientButtons
      <4>. QED  BY <2>2, <3>1, <4>1, Named
    <3>. QED  BY <2>2, <3>1, <3>2, <3>3
  <2>. QED  BY <2>3, TapOf
<1>3. screen' \subseteq All
  BY <1>2, OwnerScreen DEF ScreensInv, show_owner_screen, Draw
<1>. QED  BY <1>1, <1>3, AllIsShown, WaitsSame

\* A page is counted and read: nothing is drawn but the page.
LEMMA PageKeeps ==
  ASSUME ScreensInv, who' = who, fetch_page \/ \E data \in screen : count_rows(data)
  PROVE  Grows /\ Draws /\ Waits
<1>1. CASE fetch_page
  <2>1. who = Owner /\ counted.data \in screen /\ UNCHANGED waiting
    BY <1>1 DEF fetch_page, ScreensInv, ScreensTypeOK
  <2>. QED  BY <1>1, <2>1, ShowKeeps DEF fetch_page
<1>2. ASSUME NEW data \in screen, count_rows(data) PROVE Grows /\ Draws /\ Waits
  <2>1. UNCHANGED <<tables, screen, waiting>>
    BY <1>2 DEF count_rows
  <2>. QED  BY <2>1, RowsSame, Shows, WaitsSame
<1>. QED  BY <1>1, <1>2

LEMMA OwnerTapKeeps ==
  ASSUME ScreensInv, who' = who, NEW data \in screen, OwnerTaps(data)
  PROVE  Grows /\ Draws /\ Waits
<1>1. who = Owner /\ UNCHANGED waiting
  BY DEF OwnerTaps
<1>2. ScreensTypeOK /\ OneRow(clients)
  BY DEF ScreensInv
<1>3. ASSUME UNCHANGED tables PROVE Grows
  BY <1>3, RowsSame
<1>4. CASE show_owner_screen(data)
  BY <1>1, <1>4, ShowKeeps
<1>5. CASE ask_for_search(data) \/ cancel_search(data)
  <2>1. Grows
    BY <1>3, <1>5 DEF ask_for_search, cancel_search
  <2>2. screen' \subseteq All
    BY <1>5, PlainKeyboards DEF ask_for_search, cancel_search, Draw, All, AnyList
  <2>. QED  BY <1>1, <2>1, <2>2, AllIsShown, WaitsSame
<1>6. CASE suspend_client(data) \/ reactivate_client(data)
  <2>1. PICK s \in ClientStatuses :
          /\ clients' = [clients EXCEPT ![Number(data)].status = s]
          /\ \/ screen' = owner_client_detail_keyboard(Number(data), TRUE)
             \/ screen' = owner_client_detail_keyboard(Number(data), FALSE)
          /\ UNCHANGED <<bots, jobs, broadcasts>>
    BY <1>6 DEF suspend_client, reactivate_client, Draw, SameRows, ClientStatuses
  <2>2. Number(data) \in DOMAIN clients
    BY <1>6, OwnerNumber DEF suspend_client, reactivate_client, ClientVerbs
  <2>3. ClientsGrow
    BY <1>2, <2>1, <2>2, ClientStatus
  <2>4. Grows
    BY <1>2, <2>1, <2>3, BotsSame, WorkSame DEF Grows
  <2>5. screen' \subseteq All
    BY <2>1, <2>2, RowKeyboards DEF All
  <2>. QED  BY <1>1, <2>4, <2>5, AllIsShown, WaitsSame
<1>7. CASE retry_job(data)
  <2>1. Number(data) \in DOMAIN jobs
    BY <1>7, OwnerNumber DEF retry_job, JobWords
  <2>2. jobs' = [jobs EXCEPT ![Number(data)] = "PENDING"] \/ UNCHANGED jobs
    BY <1>7 DEF retry_job
  <2>3. /\ "PENDING" \in JobStatuses /\ jobs \in Seq(JobStatuses)
        /\ broadcasts \in Seq(BroadcastStatuses)
    BY <1>2 DEF JobStatuses, ScreensTypeOK
  <2>4. jobs' \in Seq(JobStatuses) /\ DOMAIN jobs' = DOMAIN jobs
    BY <2>1, <2>2, <2>3, Status
  <2>5. Grows
    BY <1>2, <1>7, <2>3, <2>4, ClientsSame, BotsSame DEF retry_job, Grows, WorkGrows
  <2>6. screen' \subseteq All
    BY <1>7, PlainKeyboards DEF retry_job, Draw, All, AnyList
  <2>. QED  BY <1>1, <2>5, <2>6, AllIsShown, WaitsSame
<1>. QED  BY <1>4, <1>5, <1>6, <1>7 DEF OwnerTaps

----------------------------------------------------------------------------
(* Commands and texts.                                                      *)

Commands == {"connectbot", "mybots", "botstatus", "disconnectbot", "account", "help", "unknown"}
OwnerCommands == Sections \cup {"sendbroadcast", "campaigns"}

\* A command shows a client's screens to whoever writes it.
LEMMA CommandScreen ==
  ASSUME ScreensInv, NEW c, NEW s \in Commands, NEW own,
         list_by_client(c) \subseteq own, 0 \in own
  PROVE  command_screen(c, s) \subseteq ClientButtons(own)
<1>. DEFINE mine == list_by_client(c)  K == ClientButtons(own)
<1>1. mine \subseteq DOMAIN bots /\ mine \subseteq own
  BY DEF list_by_client
<1>2. /\ botfather_guide_keyboard \subseteq K /\ client_mybots_keyboard(mine) \subseteq K
      /\ client_home_zero_bots_keyboard \subseteq K
      /\ back_to_client_home_keyboard \subseteq K /\ back_to_owner_home_keyboard \subseteq K
  BY <1>1, ClientKeyboards
<1>3. \A b \in mine : /\ client_bot_detail_keyboard(b, "ACTIVE") \subseteq K
                      /\ client_disconnect_confirm_keyboard(b) \subseteq K
  BY <1>1, ClientKeyboards, BotKeyboard DEF BotStatuses
<1>4. IsFiniteSet(mine)
  BY <1>1, FiniteRows, FS_Subset DEF ScreensInv
<1>5. Cardinality(mine) = 1 => Max0(mine) \in mine
  <2>1. SUFFICES ASSUME Cardinality(mine) = 1 PROVE Max0(mine) \in mine
    OBVIOUS
  <2>2. PICK b : mine = {b}
    BY <1>4, <2>1, FS_Singleton
  <2>3. b \in Nat
    BY <1>1, <2>2, Tables DEF ScreensInv
  <2>. QED  BY <2>2, <2>3, MaxOfOne
<1>6. Cardinality(mine) \in Nat /\ (Cardinality(mine) = 0 <=> mine = {})
  BY <1>4, FS_CardinalityType, FS_EmptySet
<1>7. mine = {} \/ Cardinality(mine) = 1 \/ Cardinality(mine) > 1
  BY <1>6
<1>. HIDE DEF K, mine
<1>8. s \in {"connectbot", "mybots", "account", "help", "unknown"} => command_screen(c, s) \subseteq K
  BY <1>2 DEF command_screen, mine
<1>9. ASSUME s = "botstatus" PROVE command_screen(c, s) \subseteq K
  <2>1. mine = {} => command_screen(c, s) = client_home_zero_bots_keyboard
    BY <1>6, <1>9 DEF command_screen, mine
  <2>2. Cardinality(mine) = 1 =>
          command_screen(c, s) = client_bot_detail_keyboard(Max0(mine), "ACTIVE")
    BY <1>6, <1>9 DEF command_screen, mine
  <2>3. Cardinality(mine) > 1 => command_screen(c, s) = client_mybots_keyboard(mine)
    BY <1>6, <1>9 DEF command_screen, mine
  <2>. QED  BY <1>2, <1>3, <1>5, <1>7, <2>1, <2>2, <2>3
<1>10. ASSUME s = "disconnectbot" PROVE command_screen(c, s) \subseteq K
  <2>1. mine = {} => command_screen(c, s) = back_to_client_home_keyboard
    BY <1>6, <1>10 DEF command_screen, mine
  <2>2. Cardinality(mine) = 1 =>
          command_screen(c, s) = client_disconnect_confirm_keyboard(Max0(mine))
    BY <1>6, <1>10 DEF command_screen, mine
  <2>3. Cardinality(mine) > 1 => command_screen(c, s) = client_mybots_keyboard(mine)
    BY <1>6, <1>10 DEF command_screen, mine
  <2>. QED  BY <1>2, <1>3, <1>5, <1>7, <2>1, <2>2, <2>3
<1>. QED  BY <1>8, <1>9, <1>10 DEF K, Commands

LEMMA SameTables ==
  ASSUME ScreensInv, UNCHANGED <<tables, who>>
  PROVE  Grows
BY ClientsSame, BotsSame, WorkSame DEF tables, Grows, ScreensInv

\* Who is resolved has own bots as before, or none yet.
LEMMA ResolvedGrows ==
  ASSUME ScreensInv, clients' = resolve_or_create_client, who' = who, SameRows
  PROVE  LET c == client_of(clients') IN
         /\ Grows /\ c \in DOMAIN clients' /\ list_by_client(c) \subseteq Own' /\ 0 \in Own'
<1>1. ClientsGrow /\ client_of(clients') \in DOMAIN clients'
  BY ClientsResolved DEF ScreensInv
<1>2. Grows
  BY <1>1, BotsSame, WorkSame DEF SameRows, Grows, ScreensInv
<1>3. list_by_client(client_of(clients')) \subseteq Own' /\ 0 \in Own'
  BY OwnNext DEF list_by_client, SameRows
<1>. QED  BY <1>1, <1>2, <1>3

LEMMA StartKeeps ==
  ASSUME ScreensInv, who' = who, start
  PROVE  Grows /\ Draws /\ Waits
<1>. DEFINE c == client_of(clients')
<1>1. CASE who = Owner
  <2>1. Grows
    BY <1>1, SameTables DEF start, SameRows, tables
  <2>2. screen' = owner_home_keyboard /\ UNCHANGED waiting
    BY <1>1 DEF start, Draw
  <2>. QED  BY <1>1, <2>1, <2>2, Shows, WaitsSame
<1>2. CASE who # Owner
  <2>1. clients' = resolve_or_create_client /\ waiting' = NoBot /\ SameRows
    BY <1>2 DEF start, Wait
  <2>2. Grows /\ c \in DOMAIN clients' /\ clients' \in Seq(ClientRow) /\ 0 \in Own'
    BY <2>1, ResolvedGrows DEF Grows, ClientsGrow
  <2>3. clients'[c].status \in ClientStatuses
    <3>1. DOMAIN clients' = 1 .. Len(clients')
      BY <2>2, LenProperties
    <3>2. clients'[c] \in ClientRow
      BY <2>2, <3>1, ElementOfSeq
    <3>. QED  BY <3>2 DEF ClientRow
  <2>4. \/ screen' = {} \/ screen' = new_client_keyboard \/ screen' = client_home_keyboard
    BY <1>2, <2>1, <2>3 DEF start, Draw, ClientStatuses
  <2>5. Draws
    BY <2>2, <2>4, ClientKeyboards, DrawsOf
  <2>. QED  BY <2>1, <2>2, <2>5 DEF Waits
<1>. QED  BY <1>1, <1>2

LEMMA CancelKeeps ==
  ASSUME ScreensInv, who' = who, cancel
  PROVE  Grows /\ Draws /\ Waits
<1>1. Grows
  BY SameTables DEF cancel
<1>2. screen' = back_to_owner_home_keyboard \/ screen' = back_to_client_home_keyboard
  BY DEF cancel, Draw
<1>3. 0 \in Own'
  BY OwnNext
<1>4. Draws
  BY <1>2, <1>3, ClientKeyboards, DrawsOf
<1>5. Waits
  BY <1>1, WaitsSame DEF cancel, Wait, Waits
<1>. QED  BY <1>1, <1>4, <1>5

LEMMA OwnerCommandKeeps ==
  ASSUME ScreensInv, who' = who, NEW s \in OwnerCommands, owner_command(s)
  PROVE  Grows /\ Draws /\ Waits
<1>1. Grows /\ Waits
  BY SameTables, WaitsSame DEF owner_command
<1>2. who = Owner => screen' \subseteq All
  <2>1. who = Owner => \/ screen' = audience_keyboard \/ screen' = campaigns_keyboard
                       \/ s \in Sections /\ screen' = summary(s)
    BY DEF owner_command, Draw, OwnerCommands, Sections
  <2>2. audience_keyboard \subseteq All /\ campaigns_keyboard \subseteq All
    BY PlainKeyboards, RowKeyboards DEF All, AnyList
  <2>. QED  BY <2>1, <2>2, Summaries
<1>3. who # Owner => screen' = {}
  BY DEF owner_command, Draw
<1>. QED  BY <1>1, <1>2, <1>3, AllIsShown, Shows

LEMMA ClientCommandKeeps ==
  ASSUME ScreensInv, who' = who, NEW s \in Commands, client_command(s)
  PROVE  Grows /\ Draws /\ Waits
<1>. DEFINE c == client_of(clients')
<1>1. clients' = resolve_or_create_client /\ SameRows
  BY DEF client_command
<1>2. Grows /\ list_by_client(c) \subseteq Own' /\ 0 \in Own'
  BY <1>1, ResolvedGrows
<1>3. screen' = {} \/ screen' = command_screen(c, s)
  BY <1>1 DEF client_command, Draw
<1>4. Draws
  BY <1>2, <1>3, CommandScreen, DrawsOf, Shows
<1>5. Waits
  BY <1>2, WaitsSame DEF client_command, Wait, Waits
<1>. QED  BY <1>2, <1>4, <1>5

LEMMA SearchKeeps ==
  ASSUME ScreensInv, who' = who, who = Owner, NEW found, search(found)
  PROVE  Grows /\ Draws /\ Waits
<1>1. Grows /\ Waits
  BY SameTables, WaitsSame DEF search
<1>2. /\ found \cap DOMAIN clients \in SUBSET DOMAIN clients
      /\ found \cap DOMAIN bots \in SUBSET DOMAIN bots
  OBVIOUS
<1>3. 1 \in Nat \ {0} /\ 1 \in Nat /\ "all" \in Filters /\ 0 \in {0} \cup DOMAIN clients
  BY DEF Filters
<1>4. /\ owner_clients_list_keyboard(1, 1, found \cap DOMAIN clients) \subseteq All
      /\ owner_bots_list_keyboard(1, 1, found \cap DOMAIN bots, 0) \subseteq All
  BY <1>2, <1>3, ListKeyboards DEF All
<1>. QED  BY <1>1, <1>4, AllIsShown DEF search, Draw

LEMMA OtherTextKeeps ==
  ASSUME ScreensInv, who' = who, other_text
  PROVE  Grows /\ Draws /\ Waits
<1>1. Grows /\ Waits
  BY SameTables, WaitsSame DEF other_text
<1>2. 0 \in Own'
  BY OwnNext
<1>3. Draws
  BY <1>1, <1>2, Shows, ClientKeyboards, DrawsOf DEF other_text, Draw
<1>. QED  BY <1>1, <1>3

LEMMA TokenKeeps ==
  ASSUME ScreensInv, who' = who, NEW b \in 0 .. Len(bots), token(b)
  PROVE  Grows /\ Draws /\ Waits
<1>. DEFINE c == client_of(clients')  mine == list_by_client(c)
<1>1. clients' = resolve_or_create_client /\ SameRows
  BY DEF token
<1>2. Grows /\ mine \subseteq Own' /\ 0 \in Own'
  BY <1>1, ResolvedGrows
<1>3. token_prompt_keyboard \subseteq ClientButtons(Own')
  BY <1>2, ClientKeyboards
<1>4. CASE screen' = token_prompt_keyboard /\ UNCHANGED waiting
  BY <1>2, <1>3, <1>4, DrawsOf, WaitsSame
<1>5. ASSUME (waiting # 0) => b = waiting, waiting' = NoBot, waiting # NoBot,
             screen' = CASE waiting # 0 \/ b = 0 -> client_connect_confirm_keyboard(b)
               [] waiting = 0 /\ b # 0 /\ b \notin mine -> back_to_client_home_keyboard
               [] waiting = 0 /\ b \in mine ->
                    IF bots[b].status = "ACTIVE" THEN client_bot_detail_keyboard(b, "ACTIVE")
                                                 ELSE client_connect_confirm_keyboard(b)
      PROVE  Draws /\ Waits
  <2>1. waiting \in Own'
    BY <1>2, <1>5, ButtonsMore DEF ScreensInv
  <2>0. 0 \notin mine
    BY Tables DEF list_by_client, ScreensInv
  <2>2. CASE waiting # 0 \/ b = 0
    <3>1. b \in Own'
      BY <1>2, <1>5, <2>1, <2>2
    <3>2. screen' = client_connect_confirm_keyboard(b)
      BY <1>5, <2>0, <2>2
    <3>. QED  BY <1>5, <3>1, <3>2, ClientKeyboards, DrawsOf DEF Waits
  <2>3. CASE waiting = 0 /\ b # 0 /\ b \notin mine
    BY <1>2, <1>5, <2>3, ClientKeyboards, DrawsOf DEF Waits
  <2>4. CASE waiting = 0 /\ b # 0 /\ b \in mine
    <3>1. \/ screen' = client_bot_detail_keyboard(b, "ACTIVE")
          \/ screen' = client_connect_confirm_keyboard(b)
      BY <1>5, <2>4
    <3>2. b \in Own'
      BY <1>2, <2>4
    <3>. QED  BY <1>5, <3>1, <3>2, ClientKeyboards, BotKeyboard, DrawsOf DEF Waits, BotStatuses
  <2>. QED  BY <2>2, <2>3, <2>4
<1>. QED  BY <1>1, <1>2, <1>4, <1>5 DEF token, Draw, Wait

LEMMA PersonWritesKeeps ==
  ASSUME ScreensInv, who' = who, PersonWrites
  PROVE  Grows /\ Draws /\ Waits
<1>1. CASE start  BY <1>1, StartKeeps
<1>2. CASE cancel  BY <1>2, CancelKeeps
<1>3. CASE \E s \in OwnerCommands : owner_command(s)  BY <1>3, OwnerCommandKeeps
<1>4. CASE \E s \in Commands : client_command(s)  BY <1>4, ClientCommandKeeps
<1>5. CASE \E found : who = Owner /\ search(found)  BY <1>5, SearchKeeps
<1>6. CASE other_text  BY <1>6, OtherTextKeeps
<1>7. CASE \E b \in 0 .. Len(bots) : token(b)  BY <1>7, TokenKeeps
<1>8. /\ \A s \in {"clients", "bots", "jobs", "queue", "broadcasts", "systemstats",
                  "sendbroadcast", "campaigns"} : s \in OwnerCommands
      /\ Commands = {"connectbot", "mybots", "botstatus", "disconnectbot", "account", "help",
                     "unknown"}
  BY DEF OwnerCommands, Sections, Commands
<1>. QED  BY <1>1, <1>2, <1>3, <1>4, <1>5, <1>6, <1>7, <1>8 DEF PersonWrites

----------------------------------------------------------------------------
(* Meanwhile.                                                               *)

LEMMA JobMoves ==
  ASSUME ScreensTypeOK, NEW j \in DOMAIN jobs, job_moves(j)
  PROVE  WorkGrows
<1>1. jobs \in Seq(JobStatuses) /\ broadcasts \in Seq(BroadcastStatuses) /\ UNCHANGED broadcasts
  BY DEF ScreensTypeOK, job_moves
<1>2. jobs[j] \in JobStatuses
  BY <1>1, Tables, ElementOfSeq
<1>3. PICK s \in JobStatuses : jobs' = [jobs EXCEPT ![j] = s]
  <2>1. CASE jobs[j] \in {"PENDING", "RETRYING"}
    BY <2>1 DEF job_moves, JobStatuses
  <2>2. CASE jobs[j] = "RUNNING"
    BY <2>2 DEF job_moves, JobStatuses
  <2>3. CASE jobs[j] \in {"COMPLETED", "FAILED"}
    BY <2>3 DEF job_moves
  <2>. QED  BY <1>2, <2>1, <2>2, <2>3 DEF JobStatuses
<1>4. jobs' \in Seq(JobStatuses) /\ DOMAIN jobs' = DOMAIN jobs
  BY <1>1, <1>3, Status
<1>. QED  BY <1>1, <1>4 DEF WorkGrows

LEMMA BroadcastMoves ==
  ASSUME ScreensTypeOK, NEW b \in DOMAIN broadcasts, broadcast_moves(b)
  PROVE  WorkGrows
<1>1. /\ jobs \in Seq(JobStatuses) /\ broadcasts \in Seq(BroadcastStatuses) /\ UNCHANGED jobs
  BY DEF ScreensTypeOK, broadcast_moves
<1>2. broadcasts[b] \in BroadcastStatuses
  BY <1>1, Tables, ElementOfSeq
<1>3. PICK s \in BroadcastStatuses : broadcasts' = [broadcasts EXCEPT ![b] = s]
  <2>1. CASE broadcasts[b] = "PENDING"
    BY <2>1 DEF broadcast_moves, BroadcastStatuses
  <2>2. CASE broadcasts[b] = "RUNNING"
    BY <2>2 DEF broadcast_moves, BroadcastStatuses
  <2>3. CASE broadcasts[b] \in {"COMPLETED", "PARTIAL", "FAILED"}
    BY <2>3 DEF broadcast_moves
  <2>. QED  BY <1>2, <2>1, <2>2, <2>3 DEF BroadcastStatuses
<1>4. broadcasts' \in Seq(BroadcastStatuses) /\ DOMAIN broadcasts' = DOMAIN broadcasts
  BY <1>1, <1>3, Status
<1>. QED  BY <1>1, <1>4 DEF WorkGrows

LEMMA RowMade ==
  ASSUME ScreensTypeOK, row_is_made
  PROVE  WorkGrows
<1>1. /\ jobs \in Seq(JobStatuses) /\ "PENDING" \in JobStatuses
      /\ broadcasts \in Seq(BroadcastStatuses) /\ "PENDING" \in BroadcastStatuses
  BY DEF ScreensTypeOK, JobStatuses, BroadcastStatuses
<1>2. CASE jobs' = Append(jobs, "PENDING") /\ UNCHANGED broadcasts
  <2>1. jobs' \in Seq(JobStatuses) /\ DOMAIN jobs \subseteq DOMAIN jobs'
    BY <1>1, <1>2, AppendRow
  <2>. QED  BY <1>1, <1>2, <2>1 DEF WorkGrows
<1>3. CASE broadcasts' = Append(broadcasts, "PENDING") /\ UNCHANGED jobs
  <2>1. broadcasts' \in Seq(BroadcastStatuses) /\ DOMAIN broadcasts \subseteq DOMAIN broadcasts'
    BY <1>1, <1>3, AppendRow
  <2>. QED  BY <1>1, <1>3, <2>1 DEF WorkGrows
<1>. QED  BY <1>2, <1>3 DEF row_is_made

LEMMA OtherRegisters ==
  ASSUME ScreensTypeOK, OneRow(clients), who' = who, NEW u \in People \ {who},
         \A c \in DOMAIN clients : clients[c].user # u,
         clients' = Append(clients, [user |-> u, status |-> "ACTIVE"])
  PROVE  ClientsGrow
<1>1. PICK r \in ClientRow : r = [user |-> u, status |-> "ACTIVE"]
  BY DEF ClientRow, ClientStatuses
<1>2. /\ clients' \in Seq(ClientRow)
      /\ DOMAIN clients = 1 .. Len(clients) /\ Len(clients) \in Nat
      /\ DOMAIN clients' = 1 .. Len(clients) + 1
      /\ \A i \in DOMAIN clients : clients'[i] = clients[i]
      /\ clients'[Len(clients) + 1] = r
  BY <1>1, TypedRows, AppendRow
<1>3. /\ \A c \in DOMAIN clients' : c \in DOMAIN clients \/ c = Len(clients) + 1
      /\ clients'[Len(clients) + 1].user = u
  BY <1>1, <1>2
<1>4. OneRow(clients')
  BY <1>2, <1>3 DEF OneRow
<1>5. client_of(clients) # 0 => client_of(clients') = client_of(clients)
  <2>1. SUFFICES ASSUME client_of(clients) # 0 PROVE client_of(clients') = client_of(clients)
    OBVIOUS
  <2>2. client_of(clients) \in DOMAIN clients' /\ clients'[client_of(clients)].user = who
    BY <1>2, <2>1, TypedRows, ClientOf
  <2>. QED  BY <1>2, <1>4, <2>2, ClientOf
<1>. QED  BY <1>2, <1>4, <1>5 DEF ClientsGrow

LEMMA OthersChange ==
  ASSUME ScreensInv, who' = who, others_change
  PROVE  ClientsGrow /\ BotsGrow
<1>0. ScreensTypeOK /\ OneRow(clients)
  BY DEF ScreensInv
<1>1. ASSUME NEW u \in People \ {who}, \A c \in DOMAIN clients : clients[c].user # u,
             clients' = Append(clients, [user |-> u, status |-> "ACTIVE"]), UNCHANGED bots
      PROVE  ClientsGrow /\ BotsGrow
  BY <1>0, <1>1, OtherRegisters, BotsSame
<1>2. ASSUME NEW c \in DOMAIN clients, NEW s \in ClientStatuses,
             clients' = [clients EXCEPT ![c].status = s], UNCHANGED bots
      PROVE  ClientsGrow /\ BotsGrow
  BY <1>0, <1>2, ClientStatus, BotsSame
<1>3. ASSUME NEW c \in DOMAIN clients, Len(bots) < MaxBots, UNCHANGED clients,
             bots' = Append(bots, [client |-> c, status |-> "PROVISIONING"])
      PROVE  ClientsGrow /\ BotsGrow
  <2>1. PICK r \in BotRow(DOMAIN clients') : r = [client |-> c, status |-> "PROVISIONING"]
    BY <1>3 DEF BotRow, BotStatuses
  <2>. QED  BY <1>0, <1>3, <2>1, ClientsSame, BotAdded
<1>4. ASSUME NEW b \in DOMAIN bots, NEW s \in BotStatuses, SetBot(b, s), UNCHANGED clients
      PROVE  ClientsGrow /\ BotsGrow
  BY <1>0, <1>4, ClientsSame, SetBotGrows
<1>. QED  BY <1>1, <1>2, <1>3, <1>4 DEF others_change

LEMMA MeanwhileKeeps ==
  ASSUME ScreensInv, who' = who, Meanwhile
  PROVE  Grows /\ Draws /\ Waits
<1>1. UNCHANGED <<screen, waiting>>
  BY DEF Meanwhile
<1>2. Grows
  <2>0. ScreensTypeOK /\ OneRow(clients)
    BY DEF ScreensInv
  <2>1. CASE /\ \/ \E j \in DOMAIN jobs : job_moves(j)
                \/ \E b \in DOMAIN broadcasts : broadcast_moves(b)
                \/ row_is_made
             /\ UNCHANGED <<clients, bots>>
    BY <2>0, <2>1, JobMoves, BroadcastMoves, RowMade, ClientsSame, BotsSame DEF Grows
  <2>2. CASE others_change /\ UNCHANGED <<jobs, broadcasts>>
    BY <2>0, <2>2, OthersChange, WorkSame DEF Grows
  <2>. QED  BY <2>1, <2>2 DEF Meanwhile
<1>. QED  BY <1>1, <1>2, Shows, WaitsSame

----------------------------------------------------------------------------
(* The invariant.                                                           *)

WalkType == [list : Lists \cup {<<>>}, page : Nat, shown : SUBSET Nat, first : SUBSET Nat,
             rows : SUBSET Nat, left : BOOLEAN, grew : BOOLEAN, last : BOOLEAN]

LEMMA NoWalkTyped == NoWalk \in WalkType
BY DEF NoWalk, WalkType

LEMMA FourOrFewer ==
  ASSUME NEW own, NEW C, NEW B, NEW J, NEW R,
         NEW data \in ClientButtons(own) \cup OwnerWords \cup PageButtons \cup RowButtonsOf(C, B, J, R)
  PROVE  Len(data) \in 2 .. 4
<1>1. ASSUME data \in ClientButtons(own) PROVE Len(data) \in 2 .. 4
  BY <1>1 DEF ClientButtons
<1>2. ASSUME data \in OwnerWords \cup PageButtons PROVE Len(data) \in 2 .. 4
  BY <1>2 DEF OwnerWords, PageButtons
<1>3. ASSUME data \in RowButtonsOf(C, B, J, R) PROVE Len(data) \in 2 .. 4
  BY <1>3 DEF RowButtonsOf
<1>. QED  BY <1>1, <1>2, <1>3

\* The data of a list's page: the list, and the page's number.
LEMMA ListNumber ==
  ASSUME ScreensInv, NEW data \in screen, Name(data) \in Lists
  PROVE  Len(data) = 4 /\ Number(data) \in Nat \ {0}
<1>1. data \in ClientButtons(Own) \cup OwnerButtons
  BY TapOf
<1>2. Name(data) = data \/ Len(data) = 4
  BY Unnumbered
<1>3. CASE Len(data) # 4
  <2>1. data \in Lists /\ Len(data) # 4
    BY <1>2, <1>3
  <2>. QED  BY <1>1, <2>1
            DEF Lists, ClientButtons, OwnerButtons, OwnerWords, PageButtons, RowButtonsOf
<1>4. CASE Len(data) = 4
  <2>1. PICK p, q, r, n : data = <<p, q, r, n>>
    BY <1>1, <1>4 DEF ClientButtons, OwnerButtons, OwnerWords, PageButtons, RowButtonsOf
  <2>2. <<p, q, r>> \in Lists /\ Number(data) = n
    BY <2>1, Named
  <2>3. p = "owner" /\ <<q, r>> \in ({"clients", "bots"} \X {"page"}) \cup {<<"campaign", "botlist">>}
                                      \cup ({"jobs", "broadcasts"} \X Filters)
    BY <2>2 DEF Lists, Filters
  <2>4. n \in Nat \ {0}
    BY <1>1, <2>1, <2>3
       DEF ClientButtons, OwnerButtons, OwnerWords, PageButtons, RowButtonsOf, Filters, ClientVerbs,
           JobWords
  <2>. QED  BY <1>4, <2>2, <2>4
<1>. QED  BY <1>3, <1>4

LEMMA ListsAre ==
  ASSUME NEW list \in Lists
  PROVE  \/ \E s \in {"clients", "bots"} : list = <<"owner", s, "page">>
         \/ list = <<"owner", "campaign", "botlist">>
         \/ \E s \in {"jobs", "broadcasts"}, f \in Filters : list = <<"owner", s, f>>
BY DEF Lists, Filters

LEMMA RowsOfList ==
  ASSUME ScreensTypeOK, NEW list \in Lists
  PROVE  RowsOf(list) \subseteq Nat /\ IsFiniteSet(RowsOf(list))
<1>1. /\ DOMAIN clients \subseteq Nat /\ DOMAIN bots \subseteq Nat
      /\ DOMAIN jobs \subseteq Nat /\ DOMAIN broadcasts \subseteq Nat
  BY Tables
<1>2. RowsOf(list) \in {DOMAIN clients, DOMAIN bots, ActiveBots}
        \/ RowsOf(list) = JobRowsOf(list[3]) \/ RowsOf(list) = BroadcastRowsOf(list[3])
  BY ListsAre DEF RowsOf
<1>. QED  BY <1>1, <1>2, FiniteRows

LEMMA WalkedTyped ==
  ASSUME ScreensTypeOK, NEW list \in Lists, NEW n \in Nat \ {0}
  PROVE  Walked(list, n) \in WalkType
<1>. DEFINE rows == RowsOf(list)
            grew == list \in CountedLists /\ Cardinality(rows) > counted.total
            ids == {i \in rows : \E data \in owner_screen(Append(list, n)) :
                                   Name(data) \in RowButtons /\ Number(data) = i}
            last == Append(list, n + 1) \notin owner_screen(Append(list, n))
<1>1. rows \in SUBSET Nat /\ ids \in SUBSET Nat /\ last \in BOOLEAN /\ grew \in BOOLEAN
  BY RowsOfList
<1>2. walk \in WalkType
  BY DEF ScreensTypeOK, WalkType
<1>. HIDE DEF rows, ids, last, grew
<1>3. CASE n = 1
  <2>1. Walked(list, n) = [list |-> list, page |-> 1, shown |-> ids, first |-> rows,
                           rows |-> rows, left |-> FALSE, grew |-> grew, last |-> last]
    BY <1>3 DEF Walked, rows, ids, last, grew
  <2>. QED  BY <1>1, <2>1 DEF WalkType
<1>4. CASE n # 1 /\ walk.list = list /\ walk.page = n - 1
  <2>1. Walked(list, n) = [walk EXCEPT !.page = n, !.shown = @ \cup ids, !.rows = rows,
                                       !.left = @ \/ ~(walk.rows \subseteq rows),
                                       !.grew = grew, !.last = last]
    BY <1>4 DEF Walked, rows, ids, last, grew
  <2>2. (walk.left \/ ~(walk.rows \subseteq rows)) \in BOOLEAN
    OBVIOUS
  <2>. QED  BY <1>1, <1>2, <2>1, <2>2 DEF WalkType
<1>5. CASE n # 1 /\ ~(walk.list = list /\ walk.page = n - 1)
  <2>1. Walked(list, n) = NoWalk
    BY <1>5 DEF Walked
  <2>. QED  BY <2>1, NoWalkTyped
<1>. QED  BY <1>3, <1>4, <1>5

LEMMA WalkStep ==
  ASSUME ScreensInv, ScreensNext
  PROVE  /\ walk' \in WalkType
         /\ changes' \in 0 .. MaxChanges
         /\ search_state' \in {"NONE", "WAITING_FOR_CLIENT_SEARCH", "WAITING_FOR_BOT_SEARCH"}
<1>0. /\ walk \in WalkType /\ changes \in 0 .. MaxChanges /\ MaxChanges \in Nat
      /\ search_state \in {"NONE", "WAITING_FOR_CLIENT_SEARCH", "WAITING_FOR_BOT_SEARCH"}
  BY Bounds DEF ScreensInv, ScreensTypeOK, WalkType
<1>1. CASE PersonWrites
  <2>1. walk' = NoWalk /\ UNCHANGED changes
    BY <1>1 DEF PersonWrites
  <2>2. UNCHANGED search_state \/ search_state' = "NONE"
    BY <1>1 DEF PersonWrites, start, cancel, owner_command, client_command, search, other_text,
                token
  <2>. QED  BY <1>0, <2>1, <2>2, NoWalkTyped
<1>2. ASSUME NEW data \in screen, ClientTaps(data)
      PROVE  walk' = NoWalk /\ UNCHANGED <<search_state, changes>>
  BY <1>2 DEF ClientTaps
<1>3. ASSUME NEW data \in screen, OwnerTaps(data)
      PROVE  /\ walk' \in WalkType /\ UNCHANGED changes
             /\ \/ UNCHANGED search_state
                \/ search_state' \in {"NONE", "WAITING_FOR_CLIENT_SEARCH", "WAITING_FOR_BOT_SEARCH"}
  <2>1. walk' \in WalkType
    <3>1. CASE Name(data) \in Lists
      <4>1. walk' = Walked(Name(data), Number(data))
        BY <1>3, <3>1 DEF OwnerTaps
      <4>. QED  BY <3>1, <4>1, ListNumber, WalkedTyped DEF ScreensInv
    <3>2. CASE Name(data) \notin Lists
      BY <1>3, <3>2, NoWalkTyped DEF OwnerTaps
    <3>. QED  BY <3>1, <3>2
  <2>. QED  BY <1>3, <2>1 DEF OwnerTaps, show_owner_screen, ask_for_search, cancel_search,
                              suspend_client, reactivate_client, retry_job
<1>4. CASE Meanwhile
  BY <1>0, <1>4 DEF Meanwhile
<1>5. CASE fetch_page
  <2>1. counted.data \in screen /\ Name(counted.data) \in Lists
    BY <1>5 DEF fetch_page, ScreensInv, ScreensTypeOK, CountedLists
  <2>2. walk' \in WalkType
    BY <1>5, <2>1, ListNumber, WalkedTyped DEF fetch_page, ScreensInv
  <2>. QED  BY <1>0, <1>5, <2>2 DEF fetch_page, show_owner_screen
<1>6. ASSUME NEW data \in screen, count_rows(data)
      PROVE  UNCHANGED <<search_state, walk, changes>>
  BY <1>6 DEF count_rows
<1>. QED  BY <1>0, <1>1, <1>2, <1>3, <1>4, <1>5, <1>6, NoWalkTyped DEF ScreensNext

\* The page that is under way is one of a list that is counted, and its button is there.
CountTyped ==
  \/ counted = NoCount
  \/ /\ who = Owner /\ counted.data \in screen /\ Name(counted.data) \in CountedLists
     /\ counted.total \in Nat

LEMMA CountStep ==
  ASSUME ScreensInv, ScreensNext
  PROVE  CountTyped'
<1>0. CountTyped
  BY DEF ScreensInv, ScreensTypeOK, CountTyped
<1>1. ASSUME NEW data \in screen, count_rows(data) PROVE CountTyped'
  <2>1. /\ who = Owner /\ Name(data) \in CountedLists /\ UNCHANGED screen
        /\ counted' = [data |-> data, total |-> Cardinality(RowsOf(Name(data)))]
    BY <1>1 DEF count_rows
  <2>2. Cardinality(RowsOf(Name(data))) \in Nat
    BY <2>1, RowsOfList, FS_CardinalityType DEF ScreensInv, CountedLists
  <2>3. who' = who
    BY DEF ScreensNext
  <2>. QED  BY <2>1, <2>2, <2>3 DEF CountTyped
<1>2. CASE Meanwhile
  BY <1>0, <1>2 DEF Meanwhile, CountTyped, ScreensNext
<1>3. CASE fetch_page
  BY <1>3 DEF fetch_page, CountTyped
<1>4. CASE PersonWrites \/ \E data \in screen : ClientTaps(data) \/ OwnerTaps(data)
  <2>1. counted' = NoCount
    BY <1>4 DEF PersonWrites, ClientTaps, OwnerTaps
  <2>. QED  BY <2>1 DEF CountTyped
<1>. QED  BY <1>1, <1>2, <1>3, <1>4 DEF ScreensNext

LEMMA InvInit ==
  ASSUME ScreensInit
  PROVE  ScreensInv
<1>1. /\ clients \in Seq(ClientRow) /\ OneRow(clients) /\ bots \in Seq(BotRow(DOMAIN clients))
      /\ jobs \in Seq(JobStatuses) /\ broadcasts \in Seq(BroadcastStatuses)
  BY RowsToBeginWith DEF ScreensInit, ClientRow, BotRow, OneRow
<1>2. /\ who \in People /\ screen = {} /\ waiting = NoBot /\ search_state = "NONE"
      /\ walk \in WalkType /\ changes \in 0 .. MaxChanges /\ Len(bots) <= MaxBots
  BY Bounds, NoWalkTyped DEF ScreensInit
<1>3. ScreensTypeOK
  BY <1>1, <1>2 DEF ScreensInit, ScreensTypeOK, ClientRow, BotRow, WalkType
<1>. QED  BY <1>1, <1>2, <1>3 DEF ScreensInv

LEMMA InvStep ==
  ASSUME ScreensInv, [ScreensNext]_screensVars
  PROVE  ScreensInv'
<1>1. CASE UNCHANGED screensVars
  <2>1. UNCHANGED <<clients, bots, jobs, broadcasts, who, screen, waiting, search_state, counted,
                    walk, changes>>
    BY <1>1 DEF screensVars, tables
  <2>2. UNCHANGED Own /\ UNCHANGED OwnerButtons
    BY <2>1 DEF Own, Mine, list_by_client, client_of, OwnerButtons
  <2>3. ScreensTypeOK' /\ OneRow(clients') /\ UNCHANGED Buttons
    BY <2>1, <2>2 DEF ScreensInv, ScreensTypeOK, Buttons
  <2>. QED  BY <2>1, <2>2, <2>3 DEF ScreensInv
<1>2. CASE ScreensNext
  <2>1. who' = who
    BY <1>2 DEF ScreensNext
  <2>2. Grows /\ Draws /\ Waits
    BY <1>2, <2>1, PersonWritesKeeps, ClientTapKeeps, OwnerTapKeeps, PageKeeps, MeanwhileKeeps
       DEF ScreensNext
  <2>3. /\ clients' \in Seq(ClientRow) /\ OneRow(clients')
        /\ bots' \in Seq(BotRow(DOMAIN clients')) /\ Len(bots') <= MaxBots
        /\ jobs' \in Seq(JobStatuses) /\ broadcasts' \in Seq(BroadcastStatuses)
    BY <2>2 DEF Grows, ClientsGrow, BotsGrow, WorkGrows
  <2>4. \A data \in screen' : Len(data) \in 2 .. 4
    <3>1. screen' \subseteq ClientButtons(Own') \cup OwnerButtons'
      BY <2>2 DEF Draws, Buttons
    <3>2. OwnerButtons' = OwnerWords \cup PageButtons
            \cup RowButtonsOf(DOMAIN clients', DOMAIN bots', DOMAIN jobs', DOMAIN broadcasts')
      BY DEF OwnerButtons
    <3>. QED  BY <3>1, <3>2, FourOrFewer
  <2>5. waiting' \in {NoBot} \cup 0 .. Len(bots')
    <3>1. Own' \subseteq 0 .. Len(bots')
      <4>1. DOMAIN bots' = 1 .. Len(bots') /\ Len(bots') \in Nat
        BY <2>3, LenProperties
      <4>. QED  BY <2>1, <4>1, OwnNext
    <3>. QED  BY <2>2, <3>1 DEF Waits
  <2>6. who' \in People
    BY <2>1 DEF ScreensInv, ScreensTypeOK
  <2>7. ScreensTypeOK'
    BY <1>2, <2>3, <2>4, <2>5, <2>6, WalkStep, CountStep
       DEF ScreensTypeOK, ClientRow, BotRow, WalkType, CountTyped
  <2>. QED  BY <2>2, <2>3, <2>7 DEF ScreensInv, Draws, Waits
<1>. QED  BY <1>1, <1>2

\* The tables and states are what the columns and keys allow, each user has one row in
\* clients, every button under the message is one of Buttons, and a token is waited for
\* a bot of one's own or a new one: resolve_or_create_client, the keyboards and the
\* onboarding states.
THEOREM ScreensInvariant == ScreensSpec => []ScreensInv
<1>. QED  BY InvInit, InvStep, PTL DEF ScreensSpec

\* Types: the statuses are the models' enums, bots belong to clients that are there, and
\* callback data has two to four parts.
THEOREM ScreensTypeCorrect == ScreensSpec => []ScreensTypeOK
<1>1. ScreensInv => ScreensTypeOK
  BY DEF ScreensInv
<1>. QED  BY <1>1, ScreensInvariant, PTL

----------------------------------------------------------------------------
(* What the buttons satisfy.                                                *)

\* An anybody's button has a handler, and its bot is an own one or none.
LEMMA ClientAnswered ==
  ASSUME NEW own, NEW data \in ClientButtons(own)
  PROVE  Name(data) \in ClientHandlers /\ (Len(data) = 4 => Number(data) \in own)
<1>1. CASE \E s \in ClientWords : data = <<"client", s>>
  <2>1. Len(data) = 2 /\ Name(data) = data
    BY <1>1, Unnumbered
  <2>. QED  BY <1>1, <2>1 DEF ClientHandlers, ClientWords
<1>2. CASE \E s \in {"token_ready", "cancel"} : data = <<"client", "connect", s>>
  <2>1. Len(data) = 3 /\ Name(data) = data
    BY <1>2, Unnumbered
  <2>. QED  BY <1>2, <2>1 DEF ClientHandlers
<1>3. CASE \E s \in {"owner_home", "client_home"} : data = <<"nav", s>>
  <2>1. Len(data) = 2 /\ Name(data) = data
    BY <1>3, Unnumbered
  <2>. QED  BY <1>3, <2>1 DEF ClientHandlers, Home
<1>4. CASE \E s \in {"confirm", "retry"}, b \in own : data = <<"client", "connect", s, b>>
  <2>1. PICK s \in {"confirm", "retry"}, b \in own : data = <<"client", "connect", s, b>>
    BY <1>4
  <2>2. Name(data) = <<"client", "connect", s>> /\ Number(data) = b
    BY <2>1, Named
  <2>. QED  BY <2>2 DEF ClientHandlers
<1>5. CASE \E s \in BotWords, b \in own : data = <<"client", "bot", s, b>>
  <2>1. PICK s \in BotWords, b \in own : data = <<"client", "bot", s, b>>
    BY <1>5
  <2>2. Name(data) = <<"client", "bot", s>> /\ Number(data) = b
    BY <2>1, Named
  <2>. QED  BY <2>2 DEF ClientHandlers, BotWords
<1>. QED  BY <1>1, <1>2, <1>3, <1>4, <1>5 DEF ClientButtons

LEMMA PageAnswered ==
  ASSUME NEW data \in PageButtons
  PROVE  Name(data) \in Lists /\ Number(data) > 0
<1>1. CASE \E s \in {"clients", "bots"}, n \in Nat \ {0} : data = <<"owner", s, "page", n>>
  <2>1. PICK s \in {"clients", "bots"}, n \in Nat \ {0} : data = <<"owner", s, "page", n>>
    BY <1>1
  <2>2. Name(data) = <<"owner", s, "page">> /\ Number(data) = n
    BY <2>1, Named
  <2>. QED  BY <2>2 DEF Lists
<1>2. CASE \E n \in Nat \ {0} : data = <<"owner", "campaign", "botlist", n>>
  <2>1. PICK n \in Nat \ {0} : data = <<"owner", "campaign", "botlist", n>>
    BY <1>2
  <2>2. Name(data) = <<"owner", "campaign", "botlist">> /\ Number(data) = n
    BY <2>1, Named
  <2>. QED  BY <2>2 DEF Lists
<1>3. CASE \E s \in {"jobs", "broadcasts"}, f \in Filters, n \in Nat \ {0} :
             data = <<"owner", s, f, n>>
  <2>1. PICK s \in {"jobs", "broadcasts"}, f \in Filters, n \in Nat \ {0} :
          data = <<"owner", s, f, n>>
    BY <1>3
  <2>2. Name(data) = <<"owner", s, f>> /\ Number(data) = n
    BY <2>1, Named
  <2>. QED  BY <2>2 DEF Lists, Filters
<1>. QED  BY <1>1, <1>2, <1>3 DEF PageButtons

LEMMA WordAnswered ==
  ASSUME NEW data \in OwnerWords
  PROVE  Name(data) \in OwnerHandlers /\ Len(data) # 4
<1>1. Len(data) # 4
  BY DEF OwnerWords
<1>2. data \in OwnerHandlers
  BY DEF OwnerWords, OwnerHandlers, Sections
<1>. QED  BY <1>1, <1>2, Unnumbered

\* A row's button is of one of the sections, and names a row of its table.
RowAnswered(data, C, B, J, R) ==
  \/ data[2] = "client" /\ Number(data) \in C
  \/ data[2] = "bots" /\ Number(data) \in C
  \/ data[2] = "bot" /\ Number(data) \in B
  \/ data[2] = "campaign" /\ data[3] = "bot" /\ Number(data) \in B
  \/ data[2] = "campaign" /\ data[3] = "view"
  \/ data[2] = "job" /\ Number(data) \in J
  \/ data[2] = "broadcast" /\ Number(data) \in R

LEMMA RowIsAnswered ==
  ASSUME NEW C, NEW B, NEW J, NEW R, NEW data \in RowButtonsOf(C, B, J, R)
  PROVE  Name(data) \in OwnerHandlers /\ RowAnswered(data, C, B, J, R)
<1>1. PICK q, r, n : /\ data = <<"owner", q, r, n>>
                     /\ \/ q = "client" /\ r \in ClientVerbs /\ n \in C
                        \/ q = "bots" /\ r = "client" /\ n \in C
                        \/ q = "bot" /\ r = "view" /\ n \in B
                        \/ q = "campaign" /\ r = "bot" /\ n \in B
                        \/ q = "campaign" /\ r = "view"
                        \/ q = "job" /\ r \in JobWords /\ n \in J
                        \/ q = "broadcast" /\ r = "view" /\ n \in R
  BY DEF RowButtonsOf
<1>2. Name(data) = <<"owner", q, r>> /\ Number(data) = n /\ data[2] = q /\ data[3] = r
  BY <1>1, Named
<1>3. <<"owner", q, r>> \in OwnerHandlers
  BY <1>1 DEF OwnerHandlers, ClientVerbs, JobWords
<1>. QED  BY <1>1, <1>2, <1>3 DEF RowAnswered

LEMMA Answered ==
  ASSUME ScreensInv, NEW data \in screen
  PROVE  LET named(rows) == Len(data) = 4 => Number(data) \in DOMAIN rows IN
    \/ Name(data) \in Lists /\ who = Owner /\ Number(data) > 0
    \/ /\ Name(data) \in OwnerHandlers /\ who = Owner
       /\ CASE data[2] = "client" -> named(clients)
            [] data[2] = "bots" -> named(clients)
            [] data[2] = "bot" -> named(bots)
            [] data[2] = "job" -> named(jobs)
            [] data[2] = "broadcast" -> named(broadcasts)
            [] data[2] = "campaign" /\ data[3] = "bot" -> named(bots)
            [] OTHER -> TRUE
    \/ /\ Name(data) \in ClientHandlers
       /\ Len(data) = 4 /\ Number(data) # 0 => Number(data) \in DOMAIN bots
<1>1. data \in Buttons
  BY DEF ScreensInv
<1>2. CASE data \in ClientButtons(Own)
  <2>1. Own = {0} \cup Mine /\ Mine \subseteq DOMAIN bots
    BY TypedRows, MineIs DEF ScreensInv, Own
  <2>. QED  BY <1>2, <2>1, ClientAnswered
<1>3. CASE who = Owner /\ data \in PageButtons
  BY <1>3, PageAnswered
<1>4. CASE who = Owner /\ data \in OwnerWords
  BY <1>4, WordAnswered
<1>5. CASE /\ who = Owner
           /\ data \in RowButtonsOf(DOMAIN clients, DOMAIN bots, DOMAIN jobs, DOMAIN broadcasts)
  <2>1. /\ Name(data) \in OwnerHandlers
        /\ RowAnswered(data, DOMAIN clients, DOMAIN bots, DOMAIN jobs, DOMAIN broadcasts)
    BY <1>5, RowIsAnswered
  <2>. QED  BY <1>5, <2>1 DEF RowAnswered
<1>. QED  BY <1>1, <1>2, <1>3, <1>4, <1>5 DEF Buttons, OwnerButtons

\* Every button has a handler and names a row that is there: of the router and the
\* keyboards, for any tables, page size and number of changes meanwhile.
THEOREM EveryButtonIsAnswered == ScreensSpec => []EveryButtonAnswered
<1>1. ScreensInv => EveryButtonAnswered
  BY Answered DEF EveryButtonAnswered
<1>. QED  BY <1>1, ScreensInvariant, PTL

\* A client is shown its own bots only: list_by_client and get_by_id_and_client.
THEOREM OnlyOwnBots == ScreensSpec => []OwnBotsOnly
<1>1. ASSUME ScreensInv, who # Owner, NEW data \in screen, Len(data) = 4
      PROVE  Number(data) = 0 \/ bots[Number(data)].client = client_of(clients)
  <2>1. data \in ClientButtons(Own)
    BY <1>1 DEF ScreensInv, Buttons
  <2>2. Number(data) \in {0} \cup Mine
    BY <1>1, <2>1, ClientAnswered DEF Own
  <2>. QED  BY <1>1, <2>2, TypedRows, MineIs DEF ScreensInv
<1>2. ScreensInv => OwnBotsOnly
  BY <1>1 DEF OwnBotsOnly
<1>. QED  BY <1>2, ScreensInvariant, PTL

----------------------------------------------------------------------------
(* Leafing through a list.                                                  *)

\* A set of numbers up to n that is not empty has a least element and a greatest.
LEMMA Extremes ==
  ASSUME NEW n \in Nat, NEW S \in SUBSET (0 .. n), S # {}
  PROVE  /\ \E x \in S : \A y \in S : x <= y
         /\ \E x \in S : \A y \in S : y <= x
<1>. DEFINE Below(x) == {y \in S : y < x}
            Above(x) == {y \in S : x < y}
            R == StrictSubsetOrdering(0 .. n)
            B == {Below(x) : x \in S}
            A == {Above(x) : x \in S}
<1>1. IsWellFoundedOn(R, SUBSET (0 .. n))
  <2>1. IsFiniteSet(0 .. n)
    BY FS_Interval
  <2>. QED  BY <2>1, FS_StrictSubsetOrderingWellFounded, FS_FiniteSubsetsOfFinite
<1>2. /\ B \subseteq SUBSET (0 .. n) /\ B # {}
      /\ A \subseteq SUBSET (0 .. n) /\ A # {}
  OBVIOUS
<1>3. \E x \in B : \A y \in B : <<y, x>> \notin R
  <2>. HIDE DEF R, A, B
  <2>. QED  BY <1>1, <1>2, WFMin
<1>4. \E x \in A : \A y \in A : <<y, x>> \notin R
  <2>. HIDE DEF R, A, B
  <2>. QED  BY <1>1, <1>2, WFMin
<1>5. \E x \in S : \A y \in S : x <= y
  <2>1. PICK x \in S : \A y \in S : <<Below(y), Below(x)>> \notin R
    BY <1>3
  <2>2. ASSUME NEW y \in S, y < x PROVE FALSE
    <3>1. y \in Below(x) /\ y \notin Below(y)
      BY <2>2
    <3>2. Below(y) \subseteq Below(x)
      <4>1. ASSUME NEW z \in S, z < y PROVE z < x
        <5>1. z \in Int /\ y \in Int /\ x \in Int
          OBVIOUS
        <5>. QED  BY <2>2, <4>1, <5>1
      <4>. QED  BY <4>1
    <3>3. <<Below(y), Below(x)>> \in R
      BY <3>1, <3>2 DEF StrictSubsetOrdering
    <3>. QED  BY <2>1, <3>3
  <2>3. ASSUME NEW y \in S PROVE x <= y
    <3>1. x \in Int /\ y \in Int /\ ~(y < x)
      BY <2>2
    <3>. QED  BY <3>1
  <2>. QED  BY <2>3
<1>6. \E x \in S : \A y \in S : y <= x
  <2>1. PICK x \in S : \A y \in S : <<Above(y), Above(x)>> \notin R
    BY <1>4
  <2>2. ASSUME NEW y \in S, x < y PROVE FALSE
    <3>1. y \in Above(x) /\ y \notin Above(y)
      BY <2>2
    <3>2. Above(y) \subseteq Above(x)
      <4>1. ASSUME NEW z \in S, y < z PROVE x < z
        <5>1. z \in Int /\ y \in Int /\ x \in Int
          OBVIOUS
        <5>. QED  BY <2>2, <4>1, <5>1
      <4>. QED  BY <4>1
    <3>3. <<Above(y), Above(x)>> \in R
      BY <3>1, <3>2 DEF StrictSubsetOrdering
    <3>. QED  BY <2>1, <3>3
  <2>3. ASSUME NEW y \in S PROVE y <= x
    <3>1. x \in Int /\ y \in Int /\ ~(x < y)
      BY <2>2
    <3>. QED  BY <3>1
  <2>. QED  BY <2>3
<1>. QED  BY <1>5, <1>6

\* The rows that come before row i in a list.
Before(list, rows, i) ==
  IF list[2] = "campaign" THEN {j \in rows : j < i} ELSE {j \in rows : j > i}

LEMMA FewerBefore ==
  ASSUME NEW list, NEW rows \in SUBSET Nat, IsFiniteSet(rows), NEW i \in rows
  PROVE  /\ Cardinality(Before(list, rows, i)) \in Nat
         /\ Cardinality(Before(list, rows, i)) < Cardinality(rows)
<1>1. Before(list, rows, i) \subseteq rows \ {i}
  BY DEF Before
<1>2. /\ IsFiniteSet(rows \ {i}) /\ Cardinality(rows \ {i}) = Cardinality(rows) - 1
      /\ Cardinality(rows) \in Nat
  BY FS_RemoveElement, FS_CardinalityType
<1>3. /\ IsFiniteSet(Before(list, rows, i))
      /\ Cardinality(Before(list, rows, i)) <= Cardinality(rows \ {i})
  BY <1>1, <1>2, FS_Subset
<1>4. Cardinality(Before(list, rows, i)) \in Nat
  BY <1>3, FS_CardinalityType
<1>. QED  BY <1>2, <1>3, <1>4

LEMMA MoreBefore ==
  ASSUME NEW list, NEW rows2 \in SUBSET Nat, IsFiniteSet(rows2), NEW rows \in SUBSET rows2, NEW i
  PROVE  Cardinality(Before(list, rows, i)) <= Cardinality(Before(list, rows2, i))
<1>1. Before(list, rows, i) \subseteq Before(list, rows2, i) /\ Before(list, rows2, i) \subseteq rows2
  BY DEF Before
<1>. QED  BY <1>1, FS_Subset

Less(rows, i) == {j \in rows : j < i}

\* If k rows or more come before a row, then just k come before one.
LEMMA RowWithBefore ==
  ASSUME NEW n \in Nat, NEW rows \in SUBSET (0 .. n), NEW i \in rows, NEW k \in Nat,
         Cardinality(Less(rows, i)) >= k
  PROVE  \E m \in rows : Cardinality(Less(rows, m)) = k
<1>. DEFINE Below(m) == Less(rows, m)
            S == {m \in rows : Cardinality(Below(m)) >= k}
<1>. USE DEF Less
<1>0. IsFiniteSet(rows)
  <2>1. IsFiniteSet(0 .. n)
    BY FS_Interval
  <2>. QED  BY <2>1, FS_Subset
<1>1. \A m : IsFiniteSet(Below(m)) /\ Cardinality(Below(m)) \in Nat
  BY <1>0, FS_Subset, FS_CardinalityType
<1>2. PICK m \in S : \A y \in S : m <= y
  <2>1. S \in SUBSET (0 .. n) /\ S # {}
    OBVIOUS
  <2>. HIDE DEF S
  <2>. QED  BY <2>1, Extremes
<1>3. Cardinality(Below(m)) >= k
  BY <1>2
<1>4. ASSUME Cardinality(Below(m)) > k PROVE FALSE
  <2>1. Below(m) \in SUBSET (0 .. n) /\ Below(m) # {}
    <3>1. Below(m) \subseteq 0 .. n
      OBVIOUS
    <3>2. Cardinality(Below(m)) # 0
      BY <1>1, <1>4
    <3>. QED  BY <3>1, <3>2, FS_EmptySet
  <2>2. PICK p \in Below(m) : \A y \in Below(m) : y <= p
    <3>. HIDE DEF Below
    <3>. QED  BY <2>1, Extremes
  <2>3. p \in rows /\ p < m /\ p \in Nat /\ m \in Nat
    BY <1>2
  <2>4. Below(p) = Below(m) \ {p}
    <3>1. ASSUME NEW y \in Below(p) PROVE y \in Below(m) \ {p}
      BY <2>3
    <3>2. ASSUME NEW y \in Below(m) \ {p} PROVE y \in Below(p)
      <4>1. y \in Nat /\ y <= p /\ y # p
        BY <2>2
      <4>. QED  BY <2>3, <4>1
    <3>. QED  BY <3>1, <3>2
  <2>5. Cardinality(Below(p)) = Cardinality(Below(m)) - 1
    <3>1. IsFiniteSet(Below(m)) /\ p \in Below(m)
      BY <1>1, <2>2
    <3>2. Cardinality(Below(m) \ {p}) = Cardinality(Below(m)) - 1
      <4>. HIDE DEF Below
      <4>. QED  BY <3>1, FS_RemoveElement
    <3>. QED  BY <2>4, <3>2
  <2>6. p \in S
    BY <1>1, <1>4, <2>3, <2>5
  <2>. QED  BY <1>2, <2>3, <2>6
<1>5. Cardinality(Below(m)) = k
  BY <1>1, <1>3, <1>4
<1>. QED  BY <1>2, <1>5

\* A page: its rows, and the pages it has buttons for.
PageOf(list, n) ==
  {i \in RowsOf(list) : Cardinality(Before(list, RowsOf(list), i))
                          \in (n - 1) * PageSize .. n * PageSize - 1}
PagesOf(list, n) ==
  IF list[2] = "campaign" THEN IF Oldest(ActiveBots, n + 1) = {} THEN n ELSE n + 1
                          ELSE total_pages(counted.total)

\* The screen of a page has a button for each of its rows, and one for the next
\* page if there is one.
LEMMA ScreenOfPage ==
  ASSUME NEW list \in Lists, NEW n
  PROVE  /\ \E prefix \in RowButtons :
              Rows(prefix, PageOf(list, n)) \subseteq owner_screen(Append(list, n))
         /\ Leaf(list, n, PagesOf(list, n)) \subseteq owner_screen(Append(list, n))
<1>1. CASE \E s \in {"clients", "bots"} : list = <<"owner", s, "page">>
  <2>1. PICK s \in {"clients", "bots"} : list = <<"owner", s, "page">>
    BY <1>1
  <2>2. PICK data : data = <<"owner", s, "page", n>>
    OBVIOUS
  <2>3. Append(list, n) = data
    BY <2>1, <2>2, AppendFourth
  <2>4. data[2] = s /\ data[3] = "page" /\ data[4] = n /\ Len(data) = 4 /\ list[2] = s
    BY <2>1, <2>2
  <2>5. PageOf(list, n) = Newest(RowsOf(list), n) /\ PagesOf(list, n) = total_pages(counted.total)
    BY <2>4 DEF PageOf, PagesOf, Before, Newest
  <2>6. CASE s = "clients"
    <3>1. owner_screen(data) = list_clients(n) /\ RowsOf(list) = DOMAIN clients
      BY <2>4, <2>6 DEF owner_screen, clients_section, RowsOf
    <3>2. <<"owner", "client", "view">> \in RowButtons
      BY DEF RowButtons
    <3>. QED  BY <2>1, <2>3, <2>5, <2>6, <3>1, <3>2 DEF list_clients, owner_clients_list_keyboard
  <2>7. CASE s = "bots"
    <3>1. owner_screen(data) = list_bots(n) /\ RowsOf(list) = DOMAIN bots
      BY <2>4, <2>7 DEF owner_screen, bots_section, RowsOf
    <3>2. <<"owner", "bot", "view">> \in RowButtons
      BY DEF RowButtons
    <3>. QED  BY <2>1, <2>3, <2>5, <2>7, <3>1, <3>2 DEF list_bots, owner_bots_list_keyboard
  <2>. QED  BY <2>6, <2>7
<1>2. CASE \E s \in {"jobs", "broadcasts"}, f \in Filters : list = <<"owner", s, f>>
  <2>1. PICK s \in {"jobs", "broadcasts"}, f \in Filters : list = <<"owner", s, f>>
    BY <1>2
  <2>2. PICK data : data = <<"owner", s, f, n>>
    OBVIOUS
  <2>3. Append(list, n) = data
    BY <2>1, <2>2, AppendFourth
  <2>4. /\ data[2] = s /\ data[3] = f /\ data[4] = n /\ Len(data) = 4
        /\ list[2] = s /\ list[3] = f
    BY <2>1, <2>2
  <2>5. PageOf(list, n) = Newest(RowsOf(list), n) /\ PagesOf(list, n) = total_pages(counted.total)
    BY <2>4 DEF PageOf, PagesOf, Before, Newest
  <2>6. CASE s = "jobs"
    <3>1. owner_screen(data) = list_jobs(f, n) /\ RowsOf(list) = JobRowsOf(f)
      BY <2>4, <2>6 DEF owner_screen, jobs_section, RowsOf
    <3>2. <<"owner", "job", "view">> \in RowButtons
      BY DEF RowButtons
    <3>. QED  BY <2>1, <2>3, <2>5, <2>6, <3>1, <3>2 DEF list_jobs, owner_jobs_list_keyboard
  <2>7. CASE s = "broadcasts"
    <3>1. owner_screen(data) = list_broadcasts(f, n) /\ RowsOf(list) = BroadcastRowsOf(f)
      BY <2>4, <2>7 DEF owner_screen, broadcasts_section, RowsOf
    <3>2. <<"owner", "broadcast", "view">> \in RowButtons
      BY DEF RowButtons
    <3>. QED  BY <2>1, <2>3, <2>5, <2>7, <3>1, <3>2
              DEF list_broadcasts, owner_broadcasts_list_keyboard
  <2>. QED  BY <2>6, <2>7
<1>3. CASE list = <<"owner", "campaign", "botlist">>
  <2>2. PICK data : data = <<"owner", "campaign", "botlist", n>>
    OBVIOUS
  <2>3. Append(list, n) = data
    BY <1>3, <2>2, AppendFourth
  <2>4. data[2] = "campaign" /\ data[3] = "botlist" /\ data[4] = n /\ list[2] = "campaign"
    BY <1>3, <2>2
  <2>5. /\ PageOf(list, n) = Oldest(RowsOf(list), n) /\ RowsOf(list) = ActiveBots
        /\ PagesOf(list, n) = IF Oldest(ActiveBots, n + 1) = {} THEN n ELSE n + 1
    BY <2>4 DEF PageOf, PagesOf, Before, Oldest, RowsOf
  <2>6. owner_screen(data) = bot_list_keyboard(n)
    BY <2>4 DEF owner_screen, campaign_section
  <2>7. <<"owner", "campaign", "bot">> \in RowButtons
    BY DEF RowButtons
  <2>. QED  BY <1>3, <2>3, <2>5, <2>6, <2>7 DEF bot_list_keyboard
<1>. QED  BY <1>1, <1>2, <1>3, ListsAre

LEMMA OnPage ==
  ASSUME NEW list \in Lists, NEW n, NEW i \in PageOf(list, n)
  PROVE  \E data \in owner_screen(Append(list, n)) : Name(data) \in RowButtons /\ Number(data) = i
<1>1. PICK prefix \in RowButtons :
        Rows(prefix, PageOf(list, n)) \subseteq owner_screen(Append(list, n))
  BY ScreenOfPage
<1>2. Append(prefix, i) \in owner_screen(Append(list, n))
  BY <1>1 DEF Rows
<1>3. PICK p, q, r : prefix = <<p, q, r>>
  BY <1>1 DEF RowButtons
<1>4. Append(prefix, i) = <<p, q, r, i>>
  BY <1>3, AppendFourth
<1>5. PICK data : data = <<p, q, r, i>>
  OBVIOUS
<1>6. Name(data) = <<p, q, r>> /\ Number(data) = i
  BY <1>5, Named
<1>. QED  BY <1>1, <1>2, <1>3, <1>4, <1>5, <1>6

\* Where there is no next page and the rows are no more than were counted, every row has
\* been on this page or one before.
LEMMA LastPage ==
  ASSUME ScreensTypeOK, NEW list \in Lists, NEW n \in Nat \ {0},
         Append(list, n + 1) \notin owner_screen(Append(list, n)), NEW i \in RowsOf(list),
         list \in CountedLists => Cardinality(RowsOf(list)) <= counted.total
  PROVE  Cardinality(Before(list, RowsOf(list), i)) < n * PageSize
<1>. DEFINE rows == RowsOf(list)  before == Cardinality(Before(list, rows, i))
<1>0. /\ rows \in SUBSET Nat /\ IsFiniteSet(rows) /\ before \in Nat
      /\ before < Cardinality(rows) /\ Cardinality(rows) \in Nat
  BY RowsOfList, FewerBefore, FS_CardinalityType
<1>1. Append(list, n + 1) \notin Leaf(list, n, PagesOf(list, n))
  BY ScreenOfPage
<1>2. PagesOf(list, n) \in Nat \ {0}
  BY Counts, Pages DEF PagesOf
<1>3. PagesOf(list, n) <= n
  <2>1. n + 1 \notin {n - 1, n + 1} \cap (1..PagesOf(list, n) \cup 1..(n - 1))
    BY <1>1 DEF Leaf
  <2>. QED  BY <1>2, <2>1
<1>4. PageSize \in Nat /\ PageSize >= 1
  BY Bounds
<1>5. CASE list[2] # "campaign"
  <2>0. Cardinality(rows) <= counted.total /\ counted.total \in Nat
    BY <1>5, Counts DEF CountedLists
  <2>1. total_pages(counted.total) <= n /\ total_pages(counted.total) \in Nat
    BY <1>2, <1>3, <1>5 DEF PagesOf
  <2>2. counted.total <= total_pages(counted.total) * PageSize
    BY <2>0, Pages
  <2>3. \A m \in Nat : m <= n => m * PageSize <= n * PageSize /\ m * PageSize \in Nat
    BY <1>4
  <2>4. PICK k \in Nat : k = n * PageSize
    BY <1>4
  <2>5. PICK m \in Nat : m = total_pages(counted.total) * PageSize /\ m <= k
    BY <2>1, <2>3, <2>4
  <2>6. Cardinality(rows) <= k
    <3>. HIDE DEF rows
    <3>. QED  BY <1>0, <2>0, <2>2, <2>5
  <2>7. before < k
    <3>. HIDE DEF rows, before
    <3>. QED  BY <1>0, <2>4, <2>6
  <2>. QED  BY <2>4, <2>7
<1>6. CASE list[2] = "campaign"
  <2>1. rows = ActiveBots /\ ActiveBots \in SUBSET (0 .. Len(bots)) /\ Len(bots) \in Nat
    BY <1>6, Tables DEF RowsOf, ActiveBots
  <2>2. Oldest(ActiveBots, n + 1) = {}
    BY <1>3, <1>6 DEF PagesOf
  <2>3. n * PageSize \in Nat /\ (n + 1 - 1) * PageSize = n * PageSize
        /\ n * PageSize \in n * PageSize .. (n + 1) * PageSize - 1
    <3>1. (n + 1) * PageSize = n * PageSize + PageSize
      BY <1>4
    <3>2. n * PageSize \in Nat /\ n + 1 - 1 = n
      BY <1>4
    <3>. QED  BY <1>4, <3>1, <3>2
  <2>4. PICK k \in Nat : k = n * PageSize
    BY <2>3
  <2>5. ASSUME before >= k PROVE FALSE
    <3>1. before = Cardinality(Less(ActiveBots, i))
      BY <1>6, <2>1 DEF Before, Less
    <3>2. PICK m \in ActiveBots : Cardinality(Less(ActiveBots, m)) = k
      <4>1. i \in ActiveBots /\ Cardinality(Less(ActiveBots, i)) >= k
        BY <2>1, <2>5, <3>1
      <4>. HIDE DEF before, rows
      <4>. QED  BY <2>1, <4>1, RowWithBefore
    <3>3. m \in Oldest(ActiveBots, n + 1)
      BY <2>3, <2>4, <3>2 DEF Oldest, Less
    <3>. QED  BY <2>2, <3>3
  <2>6. before < k
    <3>. HIDE DEF before
    <3>. QED  BY <1>0, <2>5
  <2>. QED  BY <2>4, <2>6
<1>. QED  BY <1>5, <1>6

\* What is known of a walk: until a row has left the list, a row it had at first
\* that has not been shown has all the pages so far before it.
WalkInv ==
  /\ walk.page # 0 /\ ~walk.left =>
       /\ walk.first \subseteq walk.rows
       /\ \A i \in walk.first \ walk.shown :
            Cardinality(Before(walk.list, walk.rows, i)) >= walk.page * PageSize
  /\ walk.page # 0 => walk.list \in Lists /\ IsFiniteSet(walk.rows)
  /\ EveryRowListed

LEMMA NoWalkListed ==
  ASSUME walk' = NoWalk
  PROVE  WalkInv'
BY DEF NoWalk, WalkInv, EveryRowListed

LEMMA WalkedListed ==
  ASSUME ScreensTypeOK, WalkInv, NEW list \in Lists, NEW n \in Nat \ {0}, walk' = Walked(list, n)
  PROVE  WalkInv'
<1>. DEFINE rows == RowsOf(list)
            ids == {i \in rows : \E data \in owner_screen(Append(list, n)) :
                                   Name(data) \in RowButtons /\ Number(data) = i}
            last == Append(list, n + 1) \notin owner_screen(Append(list, n))
            grew == list \in CountedLists /\ Cardinality(rows) > counted.total
            before(i) == Cardinality(Before(list, rows, i))
<1>0. /\ rows \in SUBSET Nat /\ IsFiniteSet(rows) /\ PageSize \in Nat \ {0} /\ walk \in WalkType
      /\ \A i \in rows : before(i) \in Nat
  BY RowsOfList, FewerBefore, Bounds DEF ScreensTypeOK, WalkType
<1>1. ASSUME NEW i \in rows \ ids, before(i) >= (n - 1) * PageSize
      PROVE  before(i) >= n * PageSize
  <2>1. i \notin PageOf(list, n)
    BY OnPage
  <2>2. before(i) \notin (n - 1) * PageSize .. n * PageSize - 1
    BY <2>1 DEF PageOf
  <2>3. before(i) \in Nat /\ (n - 1) * PageSize \in Nat /\ n * PageSize \in Nat
    BY <1>0
  <2>. HIDE DEF before, rows
  <2>. QED  BY <1>1, <2>2, <2>3
<1>2. last /\ ~grew => \A i \in rows : before(i) < n * PageSize
  <2>1. Cardinality(rows) \in Nat /\ counted.total \in Nat
    BY <1>0, FS_CardinalityType, Counts
  <2>2. ~grew => (list \in CountedLists => Cardinality(rows) <= counted.total)
    <3>. HIDE DEF rows
    <3>. QED  BY <2>1
  <2>. QED  BY <2>2, LastPage
<1>3. CASE n = 1
  <2>1. walk' = [list |-> list, page |-> 1, shown |-> ids, first |-> rows,
                 rows |-> rows, left |-> FALSE, grew |-> grew, last |-> last]
    BY <1>3 DEF Walked
  <2>2. \A i \in rows \ ids : before(i) >= n * PageSize
    <3>1. (n - 1) * PageSize = 0
      BY <1>0, <1>3
    <3>. QED  BY <1>0, <1>1, <3>1
  <2>3. last /\ ~grew => rows \subseteq ids
    <3>1. ASSUME last, ~grew, NEW i \in rows, i \notin ids PROVE FALSE
      <4>1. before(i) < n * PageSize /\ before(i) >= n * PageSize
        BY <1>2, <2>2, <3>1
      <4>2. before(i) \in Nat /\ n * PageSize \in Nat
        BY <1>0
      <4>. HIDE DEF before
      <4>. QED  BY <4>1, <4>2
    <3>. QED  BY <3>1
  <2>. HIDE DEF rows, ids, last, grew
  <2>. QED  BY <1>0, <1>3, <2>1, <2>2, <2>3 DEF WalkInv, EveryRowListed
<1>4. CASE n # 1 /\ walk.list = list /\ walk.page = n - 1
  <2>0. walk.page # 0 /\ n - 1 \in Nat
    BY <1>4
  <2>1. walk' = [walk EXCEPT !.page = n, !.shown = @ \cup ids, !.rows = rows,
                             !.left = @ \/ ~(walk.rows \subseteq rows), !.grew = grew,
                             !.last = last]
    BY <1>4 DEF Walked
  <2>. DEFINE l == walk.left \/ ~(walk.rows \subseteq rows)
  <2>2. l \in BOOLEAN
    OBVIOUS
  <2>3. /\ walk'.list = list /\ walk'.page = n /\ walk'.shown = walk.shown \cup ids
        /\ walk'.first = walk.first /\ walk'.rows = rows /\ walk'.left = l /\ walk'.grew = grew
        /\ walk'.last = last
    <3>. HIDE DEF rows, ids, last, grew
    <3>. QED  BY <1>0, <1>4, <2>1 DEF WalkType
  <2>4. ASSUME ~l PROVE walk.first \subseteq rows
    BY <2>0, <2>4 DEF WalkInv
  <2>5. ASSUME ~l, NEW i \in walk.first \ (walk.shown \cup ids) PROVE before(i) >= n * PageSize
    <3>1. i \in rows \ ids
      BY <2>4, <2>5
    <3>2. Cardinality(Before(list, walk.rows, i)) >= (n - 1) * PageSize
      BY <1>4, <2>0, <2>5 DEF WalkInv
    <3>3. Cardinality(Before(list, walk.rows, i)) <= before(i)
      BY <1>0, <2>5, MoreBefore
    <3>4. Cardinality(Before(list, walk.rows, i)) \in Nat
      <4>1. IsFiniteSet(walk.rows) /\ walk.rows \in SUBSET Nat /\ i \in walk.rows
        BY <1>0, <2>0, <2>5 DEF WalkInv, WalkType
      <4>. QED  BY <4>1, FewerBefore
    <3>5. before(i) \in Nat /\ (n - 1) * PageSize \in Nat
      BY <1>0, <2>0, <3>1
    <3>6. before(i) >= (n - 1) * PageSize
      <4>. HIDE DEF before
      <4>. QED  BY <3>2, <3>3, <3>4, <3>5
    <3>. QED  BY <1>1, <3>1, <3>6
  <2>6. ASSUME ~l, last, ~grew PROVE walk.first \subseteq walk.shown \cup ids
    <3>1. ASSUME NEW i \in walk.first, i \notin walk.shown \cup ids PROVE FALSE
      <4>0. i \in rows
        BY <2>4, <2>6
      <4>1. before(i) < n * PageSize /\ before(i) >= n * PageSize
        BY <1>2, <2>5, <2>6, <3>1, <4>0
      <4>2. before(i) \in Nat /\ n * PageSize \in Nat
        BY <1>0, <4>0
      <4>. HIDE DEF before
      <4>. QED  BY <4>1, <4>2
    <3>. QED  BY <3>1
  <2>. HIDE DEF rows, ids, last, grew, l
  <2>. QED  BY <1>0, <2>3, <2>4, <2>5, <2>6 DEF WalkInv, EveryRowListed
<1>5. CASE n # 1 /\ ~(walk.list = list /\ walk.page = n - 1)
  <2>1. walk' = NoWalk
    BY <1>5 DEF Walked
  <2>. QED  BY <2>1, NoWalkListed
<1>. QED  BY <1>3, <1>4, <1>5

LEMMA WalkInvStep ==
  ASSUME ScreensInv, WalkInv, [ScreensNext]_screensVars
  PROVE  WalkInv'
<1>1. CASE UNCHANGED screensVars
  BY <1>1 DEF screensVars, WalkInv, EveryRowListed
<1>2. CASE PersonWrites
  BY <1>2, NoWalkListed DEF PersonWrites
<1>3. CASE \E data \in screen : ClientTaps(data)
  BY <1>3, NoWalkListed DEF ClientTaps
<1>4. ASSUME NEW data \in screen, OwnerTaps(data) PROVE WalkInv'
  <2>1. CASE Name(data) \in Lists
    <3>1. walk' = Walked(Name(data), Number(data))
      BY <1>4, <2>1 DEF OwnerTaps
    <3>. QED  BY <2>1, <3>1, ListNumber, WalkedListed DEF ScreensInv
  <2>2. CASE Name(data) \notin Lists
    BY <1>4, <2>2, NoWalkListed DEF OwnerTaps
  <2>. QED  BY <2>1, <2>2
<1>5. CASE Meanwhile
  BY <1>5 DEF Meanwhile, WalkInv, EveryRowListed
<1>6. CASE fetch_page
  <2>1. counted.data \in screen /\ Name(counted.data) \in Lists
    BY <1>6 DEF fetch_page, ScreensInv, ScreensTypeOK, CountedLists
  <2>. QED  BY <1>6, <2>1, ListNumber, WalkedListed DEF fetch_page, ScreensInv
<1>7. CASE \E data \in screen : count_rows(data)
  BY <1>7 DEF count_rows, WalkInv, EveryRowListed
<1>. QED  BY <1>1, <1>2, <1>3, <1>4, <1>5, <1>6, <1>7 DEF ScreensNext

\* Who leafs through a list has been shown its rows at the end, unless one left it or came
\* in between the count and the page of the last screen; for any page size, tables and
\* number of changes meanwhile: list_paginated's offsets and total_pages.
THEOREM NoRowIsMissed == ScreensSpec => []EveryRowListed
<1>1. ScreensInit => WalkInv
  BY DEF ScreensInit, NoWalk, WalkInv, EveryRowListed
<1>2. WalkInv => EveryRowListed
  BY DEF WalkInv
<1>. QED  BY <1>1, <1>2, WalkInvStep, ScreensInvariant, PTL DEF ScreensSpec

----------------------------------------------------------------------------
(* Both together.                                                           *)

\* A behaviour of the composition is one of the conversations and one of the
\* screens, so what is proved of each holds of it.
LEMMA EachOnItsOwn == ChatsSpec => Spec /\ ScreensSpec
<1>1. ChatsInit => Init /\ ScreensInit
  BY DEF ChatsInit
<1>2. [ChatsNext]_ChatsVars => [Next]_vars /\ [ScreensNext]_screensVars
  BY DEF ChatsNext, ChatsVars
<1>. QED  BY <1>1, <1>2, PTL DEF ChatsSpec, Spec, ScreensSpec

\* Every variable of both has its type, in the composition that TLC runs.
THEOREM ChatsTypeCorrect == ChatsSpec => []ChatsTypeOK
<1>1. TypeOK /\ ScreensTypeOK => ChatsTypeOK
  BY DEF ChatsTypeOK
<1>. QED  BY <1>1, EachOnItsOwn, TypeCorrect, ScreensTypeCorrect, PTL

\* So do the properties of the screens and those of the conversations.
THEOREM ChatsCorrect ==
  ChatsSpec => /\ []OncePerMessage /\ SentAsComposed /\ StoredOnlyIfAsked
               /\ []EveryButtonAnswered /\ []OwnBotsOnly /\ []EveryRowListed
BY EachOnItsOwn, OneCampaignPerMessage, CampaignAsComposed, TextsAskedFor,
   EveryButtonIsAnswered, OnlyOwnBots, NoRowIsMissed, PTL
=============================================================================
