-------------------------- MODULE ControlHubProofs --------------------------
(***************************************************************************)
(* For any clients, bots, API processes, requests and faults: the webhook   *)
(* of an ACTIVE bot has the secret of its row, no bot stays PROVISIONING,   *)
(* and a message is taken for a token only from a client who was asked for  *)
(* one.                                                                     *)
(***************************************************************************)
EXTENDS ControlHub, TLAPS

----------------------------------------------------------------------------
(* What a handler has in hand.                                              *)

Buttons == {"confirm", "retry", "disconnect"}

\* What a handler of each kind carries.
WellFormed(q) ==
  /\ q.pc = "idle" <=> q = Idle
  /\ q.pc # "idle" => q.client \in Clients /\ q.kind # "none"
  /\ q.pc = "work" => q.kind \in Buttons /\ q.bot \in Bots
  /\ q.kind \in Buttons => q.proc = None /\ q.seen = "ACTIVE"
  /\ q.kind = "confirm" => q.ticket \in Tickets
  /\ q.kind \in {"retry", "disconnect"} => q.bot \in Bots
  /\ q.kind = "text" => q.proc \in Processes

Form == {q \in Request : WellFormed(q)}

Typed ==
  /\ TypeOK
  /\ req \in [Requests -> Form]
  /\ \A d \in Tickets : ticket[d].client # None => ticket[d].bot \in Bots

LEMMA IdleForm ==
  /\ Idle \in Form /\ Idle \in Request
  /\ Idle.pc = "idle" /\ Idle.kind = "none" /\ Idle.proc = None
  /\ NoRow \in Row /\ NoRow.owner = None /\ NoRow.status = "NONE"
  /\ Quiet \in Talks /\ ~IsWaiting(Quiet)
  /\ NoTicket \in Ticket /\ NoTicket.client = None
<1>1. NoRow \in Row /\ NoRow.owner = None /\ NoRow.status = "NONE"
  BY BoundsType DEF NoRow, Row, BotStatuses, Secrets
<1>2. Quiet \in Talks /\ ~IsWaiting(Quiet)
  BY DEF Quiet, Talk, Talks, Steps, IsWaiting
<1>3. NoTicket \in Ticket /\ NoTicket.client = None
  BY DEF NoTicket, Ticket
<1>4. Idle \in Request /\ Idle.pc = "idle" /\ Idle.kind = "none" /\ Idle.proc = None
  BY <1>1, <1>2 DEF Idle, Request, Kinds, ClientStatuses
<1>5. WellFormed(Idle)
  BY <1>4 DEF WellFormed, Buttons
<1>. QED  BY <1>1, <1>2, <1>3, <1>4, <1>5 DEF Form

\* A text or a button that comes in.
LEMMA ArriveForm ==
  /\ \A c \in Clients, p \in Processes, talk \in Talks :
       [Idle EXCEPT !.pc = "read", !.kind = "text", !.client = c, !.proc = p,
                    !.talk = talk] \in Form
  /\ \A c \in Clients, kind \in Buttons, d \in Tickets \cup {None}, b \in Bots \cup {None} :
       (kind = "confirm" => d \in Tickets) /\ (kind # "confirm" => b \in Bots) =>
         [Idle EXCEPT !.pc = "read", !.kind = kind, !.client = c, !.seen = "ACTIVE",
                      !.ticket = d, !.bot = b] \in Form
<1>. USE IdleForm DEF Form, WellFormed, Request, Buttons, Kinds, ClientStatuses
<1>1. ASSUME NEW c \in Clients, NEW p \in Processes, NEW talk \in Talks
      PROVE  [Idle EXCEPT !.pc = "read", !.kind = "text", !.client = c, !.proc = p,
                          !.talk = talk] \in Form
  OBVIOUS
<1>2. ASSUME NEW c \in Clients, NEW kind \in Buttons, NEW d \in Tickets \cup {None},
             NEW b \in Bots \cup {None},
             kind = "confirm" => d \in Tickets, kind # "confirm" => b \in Bots
      PROVE  [Idle EXCEPT !.pc = "read", !.kind = kind, !.client = c, !.seen = "ACTIVE",
                          !.ticket = d, !.bot = b] \in Form
  BY <1>2
<1>. HIDE DEF Form, WellFormed, Request
<1>. QED  BY <1>1, <1>2

\* A handler that gets its lock.
LEMMA WorkForm ==
  ASSUME NEW q \in Form, q.pc = "read", q.kind \in Buttons, NEW b \in Bots, NEW row \in Row
  PROVE  [q EXCEPT !.pc = "work", !.bot = b, !.row = row] \in Form
BY IdleForm DEF Form, WellFormed, Request, Buttons

\* Telegram's and the row's secret leave one to choose.
LEMMA NewSecretType ==
  ASSUME TypeOK, NEW b \in Bots
  PROVE  NewSecret(b) \in Secrets
<1>1. 1 \in Secrets \ {0} /\ 2 \in Secrets \ {0} /\ 3 \in Secrets \ {0}
  BY BoundsType DEF Secrets
<1>2. \E s \in Secrets \ {0} : s # hook[b] /\ s # bot[b].secret
  BY <1>1
<1>. QED  BY <1>2 DEF NewSecret

LEMMA ProvisionType ==
  ASSUME TypeOK, NEW r \in Requests, NEW b \in Bots, NEW row \in Row,
         NEW out \in provision_bot(r, b, row)
  PROVE  out[1] \in Row /\ out[2] \in Secrets /\ out[1].owner = row.owner
<1>1. NewSecret(b) \in Secrets /\ hook[b] \in Secrets
  BY NewSecretType DEF TypeOK
<1>2. \A s \in BotStatuses, n \in Secrets :
        /\ [row EXCEPT !.status = s] \in Row /\ [row EXCEPT !.status = s].owner = row.owner
        /\ [row EXCEPT !.status = s, !.secret = n] \in Row
        /\ [row EXCEPT !.status = s, !.secret = n].owner = row.owner
  BY DEF Row
<1>3. \A n \in Secrets :
        /\ [[row EXCEPT !.status = "PROVISION_FAILED"] EXCEPT !.secret = n] \in Row
        /\ [[row EXCEPT !.status = "PROVISION_FAILED"] EXCEPT !.secret = n].owner = row.owner
  BY DEF Row, BotStatuses
<1>4. \E x, h :
        /\ out = <<x, h>> /\ h \in {hook[b], NewSecret(b)}
        /\ x \in {row, [row EXCEPT !.status = "INVALID_TOKEN"],
                  [row EXCEPT !.status = "PROVISION_FAILED"],
                  [[row EXCEPT !.status = "PROVISION_FAILED"] EXCEPT !.secret = NewSecret(b)],
                  [row EXCEPT !.status = "ACTIVE", !.secret = NewSecret(b)]}
  BY DEF provision_bot
<1>5. PICK x, h :
        /\ out = <<x, h>> /\ h \in {hook[b], NewSecret(b)}
        /\ x \in {row, [row EXCEPT !.status = "INVALID_TOKEN"],
                  [row EXCEPT !.status = "PROVISION_FAILED"],
                  [[row EXCEPT !.status = "PROVISION_FAILED"] EXCEPT !.secret = NewSecret(b)],
                  [row EXCEPT !.status = "ACTIVE", !.secret = NewSecret(b)]}
  BY <1>4
<1>6. x \in Row /\ x.owner = row.owner
  BY <1>1, <1>2, <1>3, <1>5 DEF BotStatuses
<1>. QED  BY <1>1, <1>5, <1>6

----------------------------------------------------------------------------
(* What the handlers do.                                                    *)

\* A handler gets the lock of its client and works on a bot that is the
\* client's, or that nobody has and nobody else is about to have.
Takes(r, b) ==
  /\ req[r].pc = "read" /\ req[r].kind \in Buttons /\ ~Locked(req[r].client)
  /\ \/ bot[b] = NoRow /\ ~InsertWaits(b)
     \/ bot[b].owner = req[r].client

LEMMA ProvisionIs ==
  ASSUME Typed, NEW r \in Requests, Provision(r)
  PROVE  \E b \in Bots, row \in Row :
           /\ Takes(r, b) /\ row.owner = req[r].client
           /\ \E out \in provision_bot(r, b, row) : Work(r, b, out[1], out[2])
<1>. DEFINE q == req[r]
            t == ticket[q.ticket]
<1>0. q \in Form /\ q.client # None
  BY NoneIsNone DEF Typed, Provision, Form, WellFormed
<1>1. CASE q.kind = "confirm"
  <2>1. /\ q.ticket \in Tickets /\ t \in Ticket /\ t.client = q.client /\ t.bot \in Bots
    BY <1>0, <1>1 DEF Typed, TypeOK, Form, WellFormed, Provision
  <2>2. bot[t.bot] \in Row
    BY <2>1 DEF Typed, TypeOK
  <2>3. PICK row \in confirm_connection(r) :
          \E out \in provision_bot(r, t.bot, row) : Work(r, t.bot, out[1], out[2])
    BY <1>1 DEF Provision
  <2>4. CASE t.reconnect
    <3>1. row = [bot[t.bot] EXCEPT !.token = TRUE, !.status = "PROVISIONING"]
          /\ bot[t.bot].owner = q.client
      BY <2>3, <2>4 DEF confirm_connection
    <3>2. row \in Row /\ row.owner = q.client
      BY <2>2, <3>1 DEF Row, BotStatuses
    <3>3. Takes(r, t.bot)
      BY <1>1, <3>1 DEF Takes, Provision, Buttons
    <3>. QED  BY <2>1, <2>3, <3>2, <3>3
  <2>5. CASE ~t.reconnect
    <3>1. row = [NoRow EXCEPT !.owner = q.client, !.token = TRUE, !.status = "PROVISIONING"]
          /\ bot[t.bot] = NoRow
      BY <2>3, <2>5 DEF confirm_connection
    <3>2. row \in Row /\ row.owner = q.client
      BY <1>0, <3>1, IdleForm DEF Row, BotStatuses, Form, Request
    <3>3. Takes(r, t.bot)
      BY <1>1, <2>5, <3>1 DEF Takes, Provision, Buttons
    <3>. QED  BY <2>1, <2>3, <3>2, <3>3
  <2>. QED  BY <2>4, <2>5
<1>2. CASE q.kind = "retry"
  <2>1. q.bot \in Bots /\ bot[q.bot] \in Row
    BY <1>0, <1>2 DEF Typed, TypeOK, Form, WellFormed
  <2>2. PICK row \in retry_provisioning(r) :
          \E out \in provision_bot(r, q.bot, row) : Work(r, q.bot, out[1], out[2])
    BY <1>2 DEF Provision
  <2>3. row = [bot[q.bot] EXCEPT !.status = "PROVISIONING"] /\ bot[q.bot].owner = q.client
    BY <2>2 DEF retry_provisioning
  <2>4. row \in Row /\ row.owner = q.client
    BY <2>1, <2>3 DEF Row, BotStatuses
  <2>5. Takes(r, q.bot)
    BY <1>2, <2>3 DEF Takes, Provision, Buttons
  <2>. QED  BY <2>1, <2>2, <2>4, <2>5
<1>. QED  BY <1>1, <1>2 DEF Provision

LEMMA DisconnectIs ==
  ASSUME Typed, NEW r \in Requests, disconnect_bot(r)
  PROVE  \E b \in Bots : \E h \in {hook[b], 0} :
           /\ Takes(r, b)
           /\ Work(r, b, [bot[b] EXCEPT !.status = "DISCONNECTED", !.token = FALSE,
                                        !.secret = 0], h)
           /\ [bot[b] EXCEPT !.status = "DISCONNECTED", !.token = FALSE, !.secret = 0] \in Row
           /\ bot[b].owner = req[r].client
<1>. DEFINE b == req[r].bot
<1>1. b \in Bots /\ bot[b] \in Row
  BY DEF Typed, TypeOK, Form, WellFormed, disconnect_bot
<1>2. [bot[b] EXCEPT !.status = "DISCONNECTED", !.token = FALSE, !.secret = 0] \in Row
  <2>1. 0 \in Secrets
    BY BoundsType DEF Secrets
  <2>. HIDE DEF b
  <2>. QED  BY <1>1, <2>1 DEF Row, BotStatuses
<1>3. Takes(r, b)
  BY DEF disconnect_bot, Takes, Buttons
<1>. QED  BY <1>1, <1>2, <1>3 DEF disconnect_bot

\* Work is the step of one handler and one webhook.
LEMMA WorkIs ==
  ASSUME Typed, NEW r \in Requests, NEW b \in Bots, NEW row \in Row, NEW h \in Secrets,
         Takes(r, b), Work(r, b, row, h)
  PROVE  /\ Typed'
         /\ req' = [req EXCEPT ![r] = [req[r] EXCEPT !.pc = "work", !.bot = b, !.row = row]]
         /\ req'[r].pc = "work" /\ req'[r].bot = b /\ req'[r].row = row
         /\ req'[r].client = req[r].client
         /\ hook' = [hook EXCEPT ![b] = h]
<1>. DEFINE q == [req[r] EXCEPT !.pc = "work", !.bot = b, !.row = row]
<1>1. req[r] \in Form /\ req[r] \in Request /\ req[r].pc = "read" /\ req[r].kind \in Buttons
  BY DEF Typed, Form, Takes
<1>2. req' = [req EXCEPT ![r] = q]
  BY DEF Work, Typed
<1>3. q.pc = "work" /\ q.bot = b /\ q.row = row /\ q.client = req[r].client
  BY <1>1 DEF Request
<1>4. q \in Form
  BY <1>1, WorkForm
<1>5. hook' = [hook EXCEPT ![b] = h]
  BY DEF Work
<1>. HIDE DEF q
<1>6. req' \in [Requests -> Form] /\ req' \in [Requests -> Request] /\ req'[r] = q
  BY <1>2, <1>4 DEF Typed, TypeOK, Form
<1>7. hook' \in [Bots -> Secrets]
  BY <1>5 DEF Typed, TypeOK
<1>8. Typed'
  BY <1>6, <1>7 DEF Work, Typed, TypeOK
<1>. QED  BY <1>2, <1>3, <1>5, <1>6, <1>8 DEF q

----------------------------------------------------------------------------
(* Types.                                                                   *)

LEMMA FaultsType ==
  ASSUME Typed, RedisFails \/ UNCHANGED faults
  PROVE  faults' \in 0 .. MaxFaults
BY BoundsType DEF RedisFails, Typed, TypeOK

LEMMA TalkType ==
  ASSUME Typed, NEW c \in Clients, NEW p \in Processes, NEW talk \in Talks,
         set_onboarding_state(c, p, talk)
  PROVE  /\ redis' \in [Clients -> Talks]
         /\ memory' \in [Processes -> [Clients -> Talks]]
         /\ unheard' \subseteq Clients /\ faults' \in 0 .. MaxFaults
         /\ \/ redis' = [redis EXCEPT ![c] = talk] /\ unheard' = unheard \ {c}
            \/ redis' = redis /\ unheard' = unheard \cup {c}
         /\ memory' = [memory EXCEPT ![p] = [memory[p] EXCEPT ![c] = talk]]
<1>. DEFINE mine == [memory[p] EXCEPT ![c] = talk]
<1>1. /\ \/ redis' = [redis EXCEPT ![c] = talk] /\ unheard' = unheard \ {c}
         \/ redis' = redis /\ unheard' = unheard \cup {c}
      /\ memory' = [memory EXCEPT ![p] = mine]
  BY DEF set_onboarding_state
<1>2. mine \in [Clients -> Talks]
  BY DEF Typed, TypeOK
<1>. HIDE DEF mine
<1>3. redis' \in [Clients -> Talks] /\ memory' \in [Processes -> [Clients -> Talks]]
  BY <1>1, <1>2 DEF Typed, TypeOK
<1>4. unheard' \subseteq Clients
  BY <1>1 DEF Typed, TypeOK
<1>5. faults' \in 0 .. MaxFaults
  BY FaultsType DEF set_onboarding_state
<1>. QED  BY <1>1, <1>3, <1>4, <1>5 DEF mine

LEMMA HistoryType ==
  ASSUME Typed, NEW c \in Clients, NEW p \in Processes, Ask(c) \/ LetOff(c, p)
  PROVE  asked' \in [Clients -> BOOLEAN] /\ endedBy' \in [Clients -> Processes \cup {None}]
<1>1. \E b \in BOOLEAN : asked' = [asked EXCEPT ![c] = b]
  BY DEF Ask, LetOff
<1>. QED  BY <1>1 DEF Ask, LetOff, Typed, TypeOK

LEMMA ConversationTyped ==
  ASSUME Typed, NEW c \in Clients, NEW p \in Processes, Conversation(c, p)
  PROVE  Typed'
<1>1. \E talk \in Talks : set_onboarding_state(c, p, talk)
  BY IdleForm DEF Conversation, connectbot_start, token_ready, cancel_button, cancel, reconnect,
                  clear_onboarding_state, Talks, Talk, Steps
<1>2. Ask(c) \/ LetOff(c, p)
  BY DEF Conversation, connectbot_start, token_ready, cancel_button, cancel, reconnect
<1>3. UNCHANGED <<client, bot, hook, ticket, req, torn>>
  BY DEF Conversation, connectbot_start, token_ready, cancel_button, cancel, reconnect
<1>. QED  BY <1>1, <1>2, <1>3, TalkType, HistoryType DEF Typed, TypeOK

LEMMA ArrivesTyped ==
  ASSUME Typed, NEW r \in Requests, NEW c \in Clients, NEW p \in Processes, Arrives(r, c, p)
  PROVE  Typed'
<1>1. PICK q \in Form : req' = [req EXCEPT ![r] = q]
  <2>1. CASE TextReads(r, c, p)
    <3>1. get_onboarding_state(c, p) \in Talks /\ memory[p][c] \in Talks
      BY DEF get_onboarding_state, Typed, TypeOK
    <3>2. PICK talk \in Talks :
            req' = [req EXCEPT ![r] = [Idle EXCEPT !.pc = "read", !.kind = "text", !.client = c,
                                         !.proc = p, !.talk = talk]]
      BY <2>1, <3>1 DEF TextReads
    <3>. QED  BY <3>2, ArriveForm
  <2>2. ASSUME NEW kind \in Buttons, NEW d \in Tickets \cup {None}, NEW b \in Bots \cup {None},
               CallbackReads(r, c, kind, d, b)
        PROVE  \E q \in Form : req' = [req EXCEPT ![r] = q]
    <3>1. /\ client[c] = "ACTIVE"
          /\ req' = [req EXCEPT ![r] = [Idle EXCEPT !.pc = "read", !.kind = kind, !.client = c,
                                          !.seen = client[c], !.ticket = d, !.bot = b]]
          /\ (kind = "confirm" => d \in Tickets) /\ (kind # "confirm" => b \in Bots)
      BY <2>2 DEF CallbackReads
    <3>. QED  BY <3>1, ArriveForm
  <2>. QED  BY <2>1, <2>2 DEF Arrives, Buttons
<1>2. req' \in [Requests -> Form] /\ req' \in [Requests -> Request]
  BY <1>1 DEF Typed, TypeOK, Form
<1>3. faults' \in 0 .. MaxFaults
  <2>1. RedisFails \/ UNCHANGED faults
    BY DEF Arrives, TextReads, CallbackReads
  <2>. QED  BY <2>1, FaultsType
<1>4. UNCHANGED <<client, bot, hook, redis, memory, ticket, asked, endedBy, unheard, torn>>
  BY DEF Arrives, TextReads, CallbackReads
<1>. QED  BY <1>2, <1>3, <1>4 DEF Typed, TypeOK

\* A handler that is through.
LEMMA EndsTyped ==
  ASSUME Typed, NEW r \in Requests, req' = [req EXCEPT ![r] = Idle]
  PROVE  req' \in [Requests -> Form] /\ req' \in [Requests -> Request]
BY IdleForm DEF Typed, TypeOK

LEMMA HandledTyped ==
  ASSUME Typed, NEW r \in Requests, Handled(r)
  PROVE  Typed'
<1>. DEFINE q == req[r]
<1>0. q \in Form /\ q \in Request
  BY DEF Typed, TypeOK
<1>1. CASE TextRefused(r) \/ Refused(r)
  <2>1. req' \in [Requests -> Form] /\ req' \in [Requests -> Request]
    BY <1>1, EndsTyped DEF TextRefused, Refused
  <2>2. faults' \in 0 .. MaxFaults
    <3>1. RedisFails \/ UNCHANGED faults
      BY <1>1 DEF TextRefused, Refused
    <3>. QED  BY <3>1, FaultsType
  <2>. QED  BY <1>1, <2>1, <2>2 DEF TextRefused, Refused, Typed, TypeOK
<1>2. ASSUME NEW b \in Bots, TextTaken(r, b) PROVE Typed'
  <2>1. q.client \in Clients /\ q.proc \in Processes
    BY <1>0, <1>2, IdleForm DEF TextTaken, Form, WellFormed
  <2>2. /\ clear_onboarding_state(q.client, q.proc) /\ LetOff(q.client, q.proc)
        /\ req' = [req EXCEPT ![r] = Idle] /\ UNCHANGED <<client, bot, hook, torn>>
    BY <1>2 DEF TextTaken
  <2>3. \/ UNCHANGED ticket
        \/ \E d \in Tickets, again \in BOOLEAN :
             ticket' =
               [ticket EXCEPT ![d] = [client |-> q.client, bot |-> b, reconnect |-> again]]
    <3>. DEFINE again == \/ q.talk.step = "WAITING_FOR_RECONNECT_TOKEN"
                          \/ check_bot_ownership(b, q.client) = "RECONNECT"
    <3>1. again \in BOOLEAN
      OBVIOUS
    <3>2. UNCHANGED ticket \/ prepare_pending_connection(q.client, b, again)
      BY <1>2 DEF TextTaken
    <3>. HIDE DEF again
    <3>. QED  BY <3>1, <3>2 DEF prepare_pending_connection
  <2>4. /\ ticket' \in [Tickets -> Ticket]
        /\ \A d \in Tickets : ticket'[d].client # None => ticket'[d].bot \in Bots
    <3>1. CASE UNCHANGED ticket
      BY <3>1 DEF Typed, TypeOK
    <3>2. ASSUME NEW d \in Tickets, NEW again \in BOOLEAN,
                 ticket' =
                   [ticket EXCEPT ![d] = [client |-> q.client, bot |-> b, reconnect |-> again]]
          PROVE  /\ ticket' \in [Tickets -> Ticket]
                 /\ \A e \in Tickets : ticket'[e].client # None => ticket'[e].bot \in Bots
      <4>1. [client |-> q.client, bot |-> b, reconnect |-> again] \in Ticket
        BY <2>1 DEF Ticket
      <4>2. ticket' \in [Tickets -> Ticket]
        BY <3>2, <4>1 DEF Typed, TypeOK
      <4>3. ASSUME NEW e \in Tickets, ticket'[e].client # None PROVE ticket'[e].bot \in Bots
        BY <3>2, <4>3 DEF Typed, TypeOK
      <4>. QED  BY <4>2, <4>3
    <3>. QED  BY <2>3, <3>1, <3>2
  <2>5. req' \in [Requests -> Form] /\ req' \in [Requests -> Request]
    BY <2>2, EndsTyped
  <2>6. /\ redis' \in [Clients -> Talks] /\ memory' \in [Processes -> [Clients -> Talks]]
        /\ unheard' \subseteq Clients /\ faults' \in 0 .. MaxFaults
    BY <2>1, <2>2, IdleForm, TalkType DEF clear_onboarding_state
  <2>7. asked' \in [Clients -> BOOLEAN] /\ endedBy' \in [Clients -> Processes \cup {None}]
    BY <2>1, <2>2, HistoryType
  <2>. QED  BY <2>2, <2>4, <2>5, <2>6, <2>7 DEF Typed, TypeOK
<1>3. CASE Provision(r)
  <2>1. PICK b \in Bots, row \in Row :
          /\ Takes(r, b) /\ row.owner = req[r].client
          /\ \E out \in provision_bot(r, b, row) : Work(r, b, out[1], out[2])
    BY <1>3, ProvisionIs
  <2>2. PICK out \in provision_bot(r, b, row) : Work(r, b, out[1], out[2])
    BY <2>1
  <2>3. out[1] \in Row /\ out[2] \in Secrets
    BY ProvisionType DEF Typed
  <2>. QED  BY <2>1, <2>2, <2>3, WorkIs
<1>4. CASE disconnect_bot(r)
  <2>1. \A b \in Bots : hook[b] \in Secrets /\ 0 \in Secrets
    BY BoundsType DEF Typed, TypeOK, Secrets
  <2>. QED  BY <1>4, <2>1, DisconnectIs, WorkIs
<1>5. CASE Commit(r) \/ Rollback(r)
  <2>1. q.bot \in Bots /\ q.row \in Row
    BY <1>0, <1>5 DEF Commit, Rollback, Form, WellFormed, Request
  <2>2. req' \in [Requests -> Form] /\ req' \in [Requests -> Request]
    BY <1>5, EndsTyped DEF Commit, Rollback
  <2>3. ticket' = ticket \/ ticket' = [ticket EXCEPT ![q.ticket] = NoTicket]
    BY <1>5 DEF Commit, Rollback
  <2>4. /\ ticket' \in [Tickets -> Ticket]
        /\ \A d \in Tickets : ticket'[d].client # None => ticket'[d].bot \in Bots
    BY <2>3, IdleForm DEF Typed, TypeOK
  <2>5. bot' \in [Bots -> Row] /\ torn' \subseteq Bots
    BY <1>5, <2>1 DEF Commit, Rollback, Typed, TypeOK
  <2>6. faults' \in 0 .. MaxFaults
    <3>1. CASE Commit(r)
      <4>1. RedisFails \/ UNCHANGED faults
        BY <3>1 DEF Commit
      <4>. QED  BY <4>1, FaultsType
    <3>2. CASE Rollback(r)
      BY <3>2, BoundsType DEF Rollback, Typed, TypeOK
    <3>. QED  BY <1>5, <3>1, <3>2
  <2>. QED  BY <1>5, <2>2, <2>4, <2>5, <2>6 DEF Commit, Rollback, Typed, TypeOK
<1>. QED  BY <1>1, <1>2, <1>3, <1>4, <1>5 DEF Handled

LEMMA RestTyped ==
  ASSUME Typed
  PROVE  /\ \A p \in Processes : Restart(p) => Typed'
         /\ \A d \in Tickets : TicketExpires(d) => Typed'
         /\ \A c \in Clients :
              StateExpires(c) \/ suspend_client(c) \/ reactivate_client(c) => Typed'
<1>. USE IdleForm DEF Typed, TypeOK
<1>1. ASSUME NEW p \in Processes, Restart(p) PROVE Typed'
  <2>1. req' \in [Requests -> Form] /\ req' \in [Requests -> Request]
    BY <1>1 DEF Restart
  <2>2. memory' \in [Processes -> [Clients -> Talks]]
    <3>1. [c \in Clients |-> Quiet] \in [Clients -> Talks]
      OBVIOUS
    <3>. QED  BY <1>1, <3>1 DEF Restart
  <2>3. faults' \in 0 .. MaxFaults
    BY <1>1, BoundsType DEF Restart
  <2>. QED  BY <1>1, <2>1, <2>2, <2>3 DEF Restart
<1>2. ASSUME NEW d \in Tickets, TicketExpires(d) PROVE Typed'
  BY <1>2 DEF TicketExpires
<1>3. ASSUME NEW c \in Clients, StateExpires(c) \/ suspend_client(c) \/ reactivate_client(c)
      PROVE  Typed'
  <2>1. CASE StateExpires(c)
    BY <2>1 DEF StateExpires
  <2>2. CASE suspend_client(c) \/ reactivate_client(c)
    BY <2>2 DEF suspend_client, reactivate_client, ClientStatuses
  <2>. QED  BY <1>3, <2>1, <2>2
<1>. QED  BY <1>1, <1>2, <1>3

LEMMA InitTyped == Init => Typed
<1>. SUFFICES ASSUME Init PROVE Typed
  OBVIOUS
<1>1. req \in [Requests -> Form] /\ req \in [Requests -> Request]
  BY IdleForm DEF Init
<1>2. \A d \in Tickets : ticket[d].client = None
  BY IdleForm DEF Init
<1>3. memory \in [Processes -> [Clients -> Talks]] /\ hook \in [Bots -> Secrets]
  BY IdleForm, BoundsType DEF Init, Secrets
<1>. QED  BY <1>1, <1>2, <1>3, IdleForm, BoundsType DEF Init, Typed, TypeOK, ClientStatuses

LEMMA StepTyped == Typed /\ [Next]_vars => Typed'
<1>. SUFFICES ASSUME Typed, [Next]_vars PROVE Typed'
  OBVIOUS
<1>1. CASE UNCHANGED vars
  BY <1>1 DEF vars, Typed, TypeOK
<1>. QED  BY <1>1, ConversationTyped, ArrivesTyped, HandledTyped, RestTyped DEF Next

\* Every variable of the conversation and the connections always has its type.
THEOREM TypeCorrect == Spec => []TypeOK
<1>1. Typed => TypeOK
  BY DEF Typed
<1>. QED  BY <1>1, InitTyped, StepTyped, PTL DEF Spec

----------------------------------------------------------------------------
(* The webhook's secret and the row's.                                      *)

AtWork(r) == req[r].pc = "work"

\* One handler works for a client, one on a bot: the first by the lock of the
\* client's row, the second since only its owner's handlers work on a bot, and
\* the insert of a new one waits.
OneAtWork ==
  \A r, s \in Requests :
    AtWork(r) /\ AtWork(s) /\ (req[r].client = req[s].client \/ req[r].bot = req[s].bot) => r = s

\* What a handler at work knows of the bot: it is its client's or nobody's; the
\* row to commit is the client's, is not PROVISIONING, and has the webhook's
\* secret if it is ACTIVE; and the webhook has the secret of the row as it was or
\* as it will be.
Knows(q) ==
  /\ bot[q.bot] = NoRow \/ bot[q.bot].owner = q.client
  /\ q.row.owner = q.client
  /\ q.row.status # "PROVISIONING"
  /\ q.row.status = "ACTIVE" => hook[q.bot] = q.row.secret
  /\ bot[q.bot].status = "ACTIVE" /\ q.bot \notin torn =>
       hook[q.bot] = bot[q.bot].secret \/ hook[q.bot] = q.row.secret

AllKnow == \A r \in Requests : AtWork(r) => Knows(req[r])

HookInv == Typed /\ OneAtWork /\ AllKnow /\ WebhookMatches /\ NeverLeftProvisioning

\* Nothing of it changes.
LEMMA HookKept ==
  ASSUME HookInv, Typed', UNCHANGED <<bot, hook, torn>>,
         \A r \in Requests : AtWork(r)' \/ AtWork(r) => req'[r] = req[r]
  PROVE  HookInv'
<1>1. \A r \in Requests : AtWork(r)' <=> AtWork(r)
  BY DEF AtWork
<1>2. OneAtWork' /\ AllKnow'
  BY <1>1 DEF HookInv, OneAtWork, AllKnow, Knows, AtWork
<1>3. WebhookMatches' /\ NeverLeftProvisioning'
  BY <1>1 DEF HookInv, WebhookMatches, NeverLeftProvisioning, AtWork
<1>. QED  BY <1>2, <1>3 DEF HookInv

\* A handler starts its work.
LEMMA WorkHook ==
  ASSUME HookInv, NEW r \in Requests, NEW b \in Bots, NEW row \in Row, NEW h \in Secrets,
         Takes(r, b), Work(r, b, row, h), row.owner = req[r].client,
         row.status # "PROVISIONING", row.status = "ACTIVE" => h = row.secret,
         h = hook[b] \/ h = row.secret
  PROVE  HookInv'
<1>0. Typed /\ req[r].client # None
  BY NoneIsNone DEF HookInv, Typed, Takes, Form, WellFormed
<1>1. /\ Typed' /\ AtWork(r)' /\ req'[r].bot = b /\ req'[r].row = row
      /\ req'[r].client = req[r].client
      /\ \A s \in Requests \ {r} : req'[s] = req[s]
      /\ hook'[b] = h /\ \A a \in Bots \ {b} : hook'[a] = hook[a]
      /\ UNCHANGED <<bot, torn>>
  <2>1. /\ Typed'
        /\ req' = [req EXCEPT ![r] = [req[r] EXCEPT !.pc = "work", !.bot = b, !.row = row]]
        /\ req'[r].pc = "work" /\ req'[r].bot = b /\ req'[r].row = row
        /\ req'[r].client = req[r].client
        /\ hook' = [hook EXCEPT ![b] = h]
    BY <1>0, WorkIs
  <2>2. hook'[b] = h /\ \A a \in Bots \ {b} : hook'[a] = hook[a]
    BY <1>0, <2>1 DEF Typed, TypeOK
  <2>3. \A s \in Requests \ {r} : req'[s] = req[s]
    BY <1>0, <2>1 DEF Typed, TypeOK
  <2>. QED  BY <2>1, <2>2, <2>3 DEF AtWork, Work
<1>2. \A s \in Requests : AtWork(s) => s # r /\ req[s].client # req[r].client /\ req[s].bot # b
  <2>1. ASSUME NEW s \in Requests, AtWork(s) PROVE s # r /\ req[s].client # req[r].client
    BY <2>1 DEF AtWork, Takes, Locked
  <2>2. ASSUME NEW s \in Requests, AtWork(s), req[s].bot = b PROVE FALSE
    <3>1. bot[b] = NoRow \/ bot[b].owner = req[s].client
      BY <2>2 DEF HookInv, AllKnow, Knows
    <3>2. CASE bot[b] = NoRow
      BY <1>0, <2>2, <3>2, IdleForm DEF Takes, InsertWaits, AtWork
    <3>3. CASE bot[b] # NoRow
      BY <2>1, <2>2, <3>1, <3>3 DEF Takes
    <3>. QED  BY <3>2, <3>3
  <2>. QED  BY <2>1, <2>2
<1>3. \A s \in Requests \ {r} : AtWork(s)' <=> AtWork(s)
  BY <1>1 DEF AtWork
<1>4. OneAtWork'
  BY <1>1, <1>2, <1>3 DEF HookInv, OneAtWork, AtWork
<1>5. ASSUME NEW s \in Requests, AtWork(s)' PROVE Knows(req[s])'
  <2>1. CASE s # r
    <3>1. AtWork(s) /\ req'[s] = req[s] /\ req[s].bot # b /\ req[s].bot \in Bots
      BY <1>0, <1>1, <1>2, <1>3, <1>5, <2>1 DEF AtWork, Typed, Form, WellFormed
    <3>. QED  BY <1>1, <3>1 DEF HookInv, AllKnow, Knows
  <2>2. CASE s = r
    <3>1. bot[b].status = "ACTIVE" /\ b \notin torn => hook[b] = bot[b].secret
      BY <1>2 DEF HookInv, WebhookMatches, AtWork
    <3>2. bot[b] = NoRow \/ bot[b].owner = req[r].client
      BY DEF Takes
    <3>. QED  BY <1>1, <2>2, <3>1, <3>2 DEF Knows
  <2>. QED  BY <2>1, <2>2
<1>6. AllKnow'
  BY <1>5 DEF AllKnow
<1>7. WebhookMatches'
  <2>1. \A a \in Bots \ {b} : (\A s \in Requests : ~(req'[s].pc = "work" /\ req'[s].bot = a)) =>
          \A s \in Requests : ~(req[s].pc = "work" /\ req[s].bot = a)
    BY <1>1, <1>2 DEF AtWork
  <2>. QED  BY <1>1, <2>1 DEF HookInv, WebhookMatches, AtWork
<1>8. NeverLeftProvisioning'
  BY <1>1 DEF HookInv, NeverLeftProvisioning
<1>. QED  BY <1>1, <1>4, <1>6, <1>7, <1>8 DEF HookInv

\* A handler is through: nobody works on its bot any more.
LEMMA EndHook ==
  ASSUME HookInv, Typed', NEW r \in Requests, AtWork(r), req' = [req EXCEPT ![r] = Idle],
         hook' = hook,
         \A a \in Bots \ {req[r].bot} : bot'[a] = bot[a] /\ (a \in torn' <=> a \in torn),
         /\ bot'[req[r].bot].status = "ACTIVE" /\ req[r].bot \notin torn' =>
              hook[req[r].bot] = bot'[req[r].bot].secret
         /\ bot'[req[r].bot].status # "PROVISIONING"
  PROVE  HookInv'
<1>. DEFINE b == req[r].bot
<1>0. ~AtWork(r)' /\ \A s \in Requests \ {r} : req'[s] = req[s]
  BY IdleForm DEF AtWork, HookInv, Typed
<1>1. \A s \in Requests : AtWork(s)' =>
        s # r /\ req'[s] = req[s] /\ AtWork(s) /\ req[s].bot # b /\ req[s].bot \in Bots
  BY <1>0 DEF AtWork, HookInv, OneAtWork, Typed, Form, WellFormed
<1>2. OneAtWork'
  BY <1>1 DEF HookInv, OneAtWork
<1>3. AllKnow'
  BY <1>1 DEF HookInv, AllKnow, Knows
<1>4. NeverLeftProvisioning'
  BY DEF HookInv, NeverLeftProvisioning
<1>5. ASSUME NEW a \in Bots \ {b}, \A s \in Requests : ~(req'[s].pc = "work" /\ req'[s].bot = a)
      PROVE  \A s \in Requests : ~(req[s].pc = "work" /\ req[s].bot = a)
  BY <1>0, <1>5
<1>6. WebhookMatches'
  BY <1>5 DEF HookInv, WebhookMatches
<1>. QED  BY <1>2, <1>3, <1>4, <1>6 DEF HookInv

\* What provisioning makes of a row, for a client who was ACTIVE.
LEMMA ProvisionHook ==
  ASSUME TypeOK, NEW r \in Requests, req[r].seen = "ACTIVE", NEW b \in Bots, NEW row \in Row,
         NEW out \in provision_bot(r, b, row)
  PROVE  /\ out[1].status # "PROVISIONING"
         /\ out[1].status = "ACTIVE" => out[2] = out[1].secret
         /\ out[2] = hook[b] \/ out[2] = out[1].secret
<1>. DEFINE n == NewSecret(b)
<1>1. /\ [row EXCEPT !.status = "INVALID_TOKEN"].status = "INVALID_TOKEN"
      /\ [row EXCEPT !.status = "PROVISION_FAILED"].status = "PROVISION_FAILED"
      /\ [[row EXCEPT !.status = "PROVISION_FAILED"] EXCEPT !.secret = n].status =
           "PROVISION_FAILED"
      /\ [[row EXCEPT !.status = "PROVISION_FAILED"] EXCEPT !.secret = n].secret = n
      /\ [row EXCEPT !.status = "ACTIVE", !.secret = n].status = "ACTIVE"
      /\ [row EXCEPT !.status = "ACTIVE", !.secret = n].secret = n
  BY DEF Row
<1>2. \/ out = <<[row EXCEPT !.status = "INVALID_TOKEN"], hook[b]>>
      \/ out = <<[row EXCEPT !.status = "PROVISION_FAILED"], hook[b]>>
      \/ \E h \in {hook[b], n} :
           out = <<[[row EXCEPT !.status = "PROVISION_FAILED"] EXCEPT !.secret = n], h>>
      \/ out = <<[row EXCEPT !.status = "ACTIVE", !.secret = n], n>>
  BY DEF provision_bot, ClientActive
<1>. HIDE DEF n
<1>3. CASE out = <<[row EXCEPT !.status = "INVALID_TOKEN"], hook[b]>>
  BY <1>1, <1>3
<1>4. CASE out = <<[row EXCEPT !.status = "PROVISION_FAILED"], hook[b]>>
  BY <1>1, <1>4
<1>5. ASSUME NEW h \in {hook[b], n},
             out = <<[[row EXCEPT !.status = "PROVISION_FAILED"] EXCEPT !.secret = n], h>>
      PROVE  /\ out[1].status = "PROVISION_FAILED"
             /\ out[2] = hook[b] \/ out[2] = out[1].secret
  BY <1>1, <1>5
<1>6. CASE out = <<[row EXCEPT !.status = "ACTIVE", !.secret = n], n>>
  BY <1>1, <1>6
<1>. QED  BY <1>2, <1>3, <1>4, <1>5, <1>6

LEMMA HandledHook ==
  ASSUME HookInv, Typed', NEW r \in Requests, Handled(r)
  PROVE  HookInv'
<1>. DEFINE q == req[r]
<1>0. Typed /\ TypeOK /\ q \in Form
  BY DEF HookInv, Typed
<1>1. CASE TextRefused(r) \/ Refused(r) \/ \E b \in Bots : TextTaken(r, b)
  <2>1. q.pc # "work" /\ req' = [req EXCEPT ![r] = Idle] /\ UNCHANGED <<bot, hook, torn>>
    BY <1>0, <1>1 DEF TextRefused, Refused, TextTaken, Form, WellFormed, Buttons
  <2>. QED  BY <1>0, <2>1, IdleForm, HookKept DEF AtWork, Typed
<1>2. CASE Provision(r)
  <2>1. PICK b \in Bots, row \in Row :
          /\ Takes(r, b) /\ row.owner = req[r].client
          /\ \E out \in provision_bot(r, b, row) : Work(r, b, out[1], out[2])
    BY <1>0, <1>2, ProvisionIs
  <2>2. PICK out \in provision_bot(r, b, row) : Work(r, b, out[1], out[2])
    BY <2>1
  <2>3. q.seen = "ACTIVE"
    BY <1>0, <2>1 DEF Takes, Form, WellFormed
  <2>4. out[1] \in Row /\ out[2] \in Secrets /\ out[1].owner = q.client
    BY <1>0, <2>1, ProvisionType
  <2>5. /\ out[1].status # "PROVISIONING"
        /\ out[1].status = "ACTIVE" => out[2] = out[1].secret
        /\ out[2] = hook[b] \/ out[2] = out[1].secret
    BY <1>0, <2>3, ProvisionHook
  <2>. QED  BY <2>1, <2>2, <2>4, <2>5, WorkHook
<1>3. CASE disconnect_bot(r)
  <2>. DEFINE gone(b) == [bot[b] EXCEPT !.status = "DISCONNECTED", !.token = FALSE, !.secret = 0]
  <2>0. PICK b \in Bots : \E h \in {hook[b], 0} :
           /\ Takes(r, b) /\ Work(r, b, gone(b), h)
           /\ gone(b) \in Row /\ bot[b].owner = req[r].client
    BY <1>0, <1>3, DisconnectIs
  <2>1. PICK h \in {hook[b], 0} :
           /\ Takes(r, b) /\ Work(r, b, gone(b), h)
           /\ gone(b) \in Row /\ bot[b].owner = req[r].client
    BY <2>0
  <2>. DEFINE row == [bot[b] EXCEPT !.status = "DISCONNECTED", !.token = FALSE, !.secret = 0]
  <2>2. row.status = "DISCONNECTED" /\ row.secret = 0 /\ row.owner = req[r].client
    BY <1>0, <2>1 DEF TypeOK, Row
  <2>3. h \in Secrets
    BY <1>0, BoundsType DEF TypeOK, Secrets
  <2>4. Work(r, b, row, h) /\ row \in Row /\ Takes(r, b) /\ (h = hook[b] \/ h = 0)
    BY <2>1
  <2>. HIDE DEF row
  <2>. QED  BY <2>2, <2>3, <2>4, WorkHook
<1>4. CASE Commit(r)
  <2>1. /\ AtWork(r) /\ q.bot \in Bots /\ q.row \in Row
        /\ bot' = [bot EXCEPT ![q.bot] = q.row]
        /\ torn' = IF q.row.status = "ACTIVE" THEN torn \ {q.bot} ELSE torn
        /\ req' = [req EXCEPT ![r] = Idle] /\ hook' = hook
    BY <1>0, <1>4 DEF Commit, AtWork, Form, WellFormed, Request
  <2>2. bot'[q.bot] = q.row /\ \A a \in Bots \ {q.bot} : bot'[a] = bot[a]
    BY <1>0, <2>1 DEF TypeOK
  <2>3. Knows(q)
    BY <2>1 DEF HookInv, AllKnow
  <2>. QED  BY <2>1, <2>2, <2>3, EndHook DEF Knows
<1>5. CASE Rollback(r)
  <2>1. /\ AtWork(r) /\ q.bot \in Bots /\ bot' = bot /\ hook' = hook
        /\ torn' = torn \cup {b \in {q.bot} : Changed(r)}
        /\ req' = [req EXCEPT ![r] = Idle]
    BY <1>0, <1>5 DEF Rollback, AtWork, Form, WellFormed
  <2>2. Knows(q)
    BY <2>1 DEF HookInv, AllKnow
  <2>3. bot[q.bot].status = "ACTIVE" /\ q.bot \notin torn' => hook[q.bot] = bot[q.bot].secret
    BY <2>1, <2>2 DEF Knows, Changed
  <2>4. bot[q.bot].status # "PROVISIONING"
    BY <2>1 DEF HookInv, NeverLeftProvisioning
  <2>. QED  BY <2>1, <2>3, <2>4, EndHook
<1>. QED  BY <1>1, <1>2, <1>3, <1>4, <1>5 DEF Handled

LEMMA StepHook == HookInv /\ [Next]_vars => HookInv'
<1>. SUFFICES ASSUME HookInv, [Next]_vars PROVE HookInv'
  OBVIOUS
<1>0. Typed /\ Typed'
  BY StepTyped DEF HookInv
<1>1. CASE UNCHANGED vars
  BY <1>0, <1>1, HookKept DEF vars
<1>2. ASSUME NEW c \in Clients, NEW p \in Processes, Conversation(c, p) PROVE HookInv'
  BY <1>0, <1>2, HookKept DEF Conversation, connectbot_start, token_ready, cancel_button, cancel,
                              reconnect
<1>3. ASSUME NEW r \in Requests, NEW c \in Clients, NEW p \in Processes, Arrives(r, c, p)
      PROVE  HookInv'
  <2>1. /\ UNCHANGED <<bot, hook, torn>> /\ req[r].pc = "idle"
        /\ \E q : req' = [req EXCEPT ![r] = q] /\ q.pc = "read"
    <3>1. CASE TextReads(r, c, p)
      <4>1. PICK talk :
              req' = [req EXCEPT ![r] = [Idle EXCEPT !.pc = "read", !.kind = "text", !.client = c,
                                           !.proc = p, !.talk = talk]]
        BY <3>1 DEF TextReads
      <4>2. [Idle EXCEPT !.pc = "read", !.kind = "text", !.client = c, !.proc = p,
                         !.talk = talk].pc = "read"
        BY DEF Idle
      <4>. QED  BY <3>1, <4>1, <4>2 DEF TextReads
    <3>2. ASSUME NEW kind, NEW d, NEW b, CallbackReads(r, c, kind, d, b)
          PROVE  /\ UNCHANGED <<bot, hook, torn>> /\ req[r].pc = "idle"
                 /\ \E q : req' = [req EXCEPT ![r] = q] /\ q.pc = "read"
      <4>. DEFINE q == [Idle EXCEPT !.pc = "read", !.kind = kind, !.client = c,
                                    !.seen = client[c], !.ticket = d, !.bot = b]
      <4>1. q.pc = "read"
        BY DEF Idle
      <4>. QED  BY <3>2, <4>1 DEF CallbackReads
    <3>. QED  BY <1>3, <3>1, <3>2 DEF Arrives
  <2>. QED  BY <1>0, <2>1, HookKept DEF AtWork, Typed
<1>4. ASSUME NEW p \in Processes, Restart(p) PROVE HookInv'
  <2>1. \A r \in Requests : AtWork(r) => req[r].proc = None
    BY <1>0 DEF AtWork, Typed, Form, WellFormed
  <2>2. \A r \in Requests : AtWork(r)' \/ AtWork(r) => req'[r] = req[r]
    BY <1>4, <2>1, IdleForm, NoneIsNone DEF Restart, AtWork
  <2>. QED  BY <1>0, <1>4, <2>2, HookKept DEF Restart
<1>5. CASE \/ \E d \in Tickets : TicketExpires(d)
           \/ \E c \in Clients : StateExpires(c) \/ suspend_client(c) \/ reactivate_client(c)
  BY <1>0, <1>5, HookKept DEF TicketExpires, StateExpires, suspend_client, reactivate_client
<1>. QED  BY <1>0, <1>1, <1>2, <1>3, <1>4, <1>5, HandledHook DEF Next

LEMMA InitHook == Init => HookInv
<1>. SUFFICES ASSUME Init PROVE HookInv
  OBVIOUS
<1>1. \A r \in Requests : ~AtWork(r)
  BY IdleForm DEF Init, AtWork
<1>2. \A b \in Bots : bot[b].status = "NONE"
  BY IdleForm DEF Init
<1>. QED  BY <1>1, <1>2, InitTyped
          DEF HookInv, OneAtWork, AllKnow, WebhookMatches, NeverLeftProvisioning

\* The webhook of an ACTIVE bot has the secret of its row whenever no handler is
\* at work on it, unless the handler that changed it last was rolled back.
THEOREM WebhookHasSecret == Spec => []WebhookMatches
<1>1. HookInv => WebhookMatches
  BY DEF HookInv
<1>. QED  BY <1>1, InitHook, StepHook, PTL DEF Spec

\* No bot is left PROVISIONING.
THEOREM ProvisioningEnds == Spec => []NeverLeftProvisioning
<1>1. HookInv => NeverLeftProvisioning
  BY DEF HookInv
<1>. QED  BY <1>1, InitHook, StepHook, PTL DEF Spec

----------------------------------------------------------------------------
(* A token is taken only from a client who was asked for one.               *)

\* Redis waits for a token only while the client is asked for one, or because it
\* missed that the client was let off; what a process remembers may outlast that only
\* if another one let the client off.
RedisAsked == \A c \in Clients : IsWaiting(redis[c]) => asked[c] \/ c \in unheard
MemoryAsked ==
  \A c \in Clients, p \in Processes : IsWaiting(memory[p][c]) => asked[c] \/ endedBy[c] # p

TalkInv == Typed /\ RedisAsked /\ MemoryAsked

\* The client is told one thing, and this process remembers it, and Redis if it hears it.
LEMMA SaidTalk ==
  ASSUME TalkInv, Typed', NEW c \in Clients, NEW p \in Processes, NEW talk \in Talks,
         set_onboarding_state(c, p, talk),
         Ask(c) \/ (LetOff(c, p) /\ ~IsWaiting(talk))
  PROVE  TalkInv'
<1>1. /\ \/ redis' = [redis EXCEPT ![c] = talk] /\ unheard' = unheard \ {c}
         \/ redis' = redis /\ unheard' = unheard \cup {c}
      /\ memory' = [memory EXCEPT ![p] = [memory[p] EXCEPT ![c] = talk]]
  BY TalkType DEF TalkInv
<1>2. /\ redis'[c] = talk \/ c \in unheard'
      /\ \A x \in Clients \ {c} : redis'[x] = redis[x] /\ (x \in unheard' <=> x \in unheard)
  BY <1>1 DEF TalkInv, Typed, TypeOK
<1>3. /\ memory'[p][c] = talk
      /\ \A x \in Clients \ {c} : memory'[p][x] = memory[p][x]
      /\ \A y \in Processes \ {p} : memory'[y] = memory[y]
  BY <1>1 DEF TalkInv, Typed, TypeOK
<1>4. \A x \in Clients \ {c} : asked'[x] = asked[x] /\ endedBy'[x] = endedBy[x]
  BY DEF Ask, LetOff, TalkInv, Typed, TypeOK
<1>5. asked'[c] \/ (~IsWaiting(talk) /\ endedBy'[c] = p)
  BY DEF Ask, LetOff, TalkInv, Typed, TypeOK
<1>6. \A x \in Clients : IsWaiting(redis'[x]) => asked'[x] \/ x \in unheard'
  BY <1>2, <1>4, <1>5 DEF TalkInv, RedisAsked
<1>7. ASSUME NEW x \in Clients, NEW y \in Processes, IsWaiting(memory'[y][x])
      PROVE  asked'[x] \/ endedBy'[x] # y
  <2>1. CASE x # c
    BY <1>3, <1>4, <1>7, <2>1 DEF TalkInv, MemoryAsked
  <2>2. CASE x = c
    BY <1>3, <1>5, <1>7, <2>2
  <2>. QED  BY <2>1, <2>2
<1>. QED  BY <1>6, <1>7 DEF TalkInv, RedisAsked, MemoryAsked, IsWaiting

\* Nothing of it changes.
LEMMA TalkKept ==
  ASSUME TalkInv, Typed', UNCHANGED <<redis, memory, asked, endedBy, unheard>>
  PROVE  TalkInv'
BY DEF TalkInv, RedisAsked, MemoryAsked, IsWaiting

LEMMA ConversationTalk ==
  ASSUME TalkInv, NEW c \in Clients, NEW p \in Processes, Conversation(c, p)
  PROVE  TalkInv'
<1>0. Typed'
  BY ConversationTyped DEF TalkInv
<1>1. /\ Talk("PREPARING_TO_CONNECT_BOT", None) \in Talks
      /\ ~IsWaiting(Talk("PREPARING_TO_CONNECT_BOT", None))
      /\ Talk("WAITING_FOR_BOT_TOKEN", None) \in Talks
      /\ \A b \in Bots : Talk("WAITING_FOR_RECONNECT_TOKEN", b) \in Talks
  BY DEF Talk, Talks, Steps, IsWaiting
<1>2. CASE connectbot_start(c, p)
  BY <1>0, <1>1, <1>2, SaidTalk DEF connectbot_start
<1>3. CASE token_ready(c, p)
  BY <1>0, <1>1, <1>3, SaidTalk DEF token_ready
<1>4. CASE cancel_button(c, p) \/ cancel(c, p)
  BY <1>0, <1>4, IdleForm, SaidTalk DEF cancel_button, cancel, clear_onboarding_state
<1>5. ASSUME NEW b \in Bots, reconnect(c, p, b) PROVE TalkInv'
  BY <1>0, <1>1, <1>5, SaidTalk DEF reconnect
<1>. QED  BY <1>2, <1>3, <1>4, <1>5 DEF Conversation

LEMMA StepTalk == TalkInv /\ [Next]_vars => TalkInv'
<1>. SUFFICES ASSUME TalkInv, [Next]_vars PROVE TalkInv'
  OBVIOUS
<1>0. Typed /\ Typed'
  BY StepTyped DEF TalkInv
<1>1. CASE UNCHANGED vars
  BY <1>0, <1>1, TalkKept DEF vars
<1>2. ASSUME NEW r \in Requests, NEW c \in Clients, NEW p \in Processes, Arrives(r, c, p)
      PROVE  TalkInv'
  BY <1>0, <1>2, TalkKept DEF Arrives, TextReads, CallbackReads
<1>3. ASSUME NEW r \in Requests, NEW b \in Bots, TextTaken(r, b) PROVE TalkInv'
  <2>1. req[r].client \in Clients /\ req[r].proc \in Processes
    BY <1>0, <1>3, IdleForm DEF TextTaken, Typed, Form, WellFormed
  <2>. QED  BY <1>0, <1>3, <2>1, IdleForm, SaidTalk DEF TextTaken, clear_onboarding_state
<1>4. ASSUME NEW r \in Requests,
             TextRefused(r) \/ Provision(r) \/ disconnect_bot(r) \/ Refused(r) \/ Commit(r)
               \/ Rollback(r)
      PROVE  TalkInv'
  <2>1. UNCHANGED <<redis, memory, asked, endedBy, unheard>>
    BY <1>4 DEF TextRefused, Provision, disconnect_bot, Work, Refused, Commit, Rollback
  <2>. QED  BY <1>0, <2>1, TalkKept
<1>5. ASSUME NEW p \in Processes, Restart(p) PROVE TalkInv'
  <2>1. /\ \A c \in Clients : memory'[p][c] = Quiet
        /\ \A y \in Processes \ {p} : memory'[y] = memory[y]
        /\ UNCHANGED <<redis, asked, endedBy, unheard>>
    BY <1>0, <1>5 DEF Restart, Typed, TypeOK
  <2>2. RedisAsked'
    BY <2>1 DEF TalkInv, RedisAsked
  <2>3. ASSUME NEW x \in Clients, NEW y \in Processes, IsWaiting(memory'[y][x])
        PROVE  asked'[x] \/ endedBy'[x] # y
    <3>1. y # p
      BY <2>1, <2>3, IdleForm
    <3>. QED  BY <2>1, <2>3, <3>1 DEF TalkInv, MemoryAsked
  <2>4. MemoryAsked'
    BY <2>3 DEF MemoryAsked, IsWaiting
  <2>. QED  BY <1>0, <2>2, <2>4 DEF TalkInv
<1>6. ASSUME NEW c \in Clients, StateExpires(c) PROVE TalkInv'
  <2>1. /\ redis'[c] = Quiet /\ endedBy'[c] = None /\ memory' = memory
        /\ \A x \in Clients \ {c} :
             /\ redis'[x] = redis[x] /\ asked'[x] = asked[x] /\ endedBy'[x] = endedBy[x]
             /\ x \in unheard' <=> x \in unheard
    BY <1>0, <1>6 DEF StateExpires, Typed, TypeOK
  <2>2. \A x \in Clients : IsWaiting(redis'[x]) => asked'[x] \/ x \in unheard'
    BY <2>1, IdleForm DEF TalkInv, RedisAsked
  <2>3. \A x \in Clients, y \in Processes :
          IsWaiting(memory'[y][x]) => asked'[x] \/ endedBy'[x] # y
    BY <2>1, NoneIsNone DEF TalkInv, MemoryAsked
  <2>. QED  BY <1>0, <2>2, <2>3 DEF TalkInv, RedisAsked, MemoryAsked, IsWaiting
<1>7. CASE \/ \E d \in Tickets : TicketExpires(d)
           \/ \E c \in Clients : suspend_client(c) \/ reactivate_client(c)
  BY <1>0, <1>7, TalkKept DEF TicketExpires, suspend_client, reactivate_client
<1>. QED
  BY <1>1, <1>2, <1>3, <1>4, <1>5, <1>6, <1>7, ConversationTalk DEF Next, Handled

LEMMA InitTalk == Init => TalkInv
<1>. SUFFICES ASSUME Init PROVE TalkInv
  OBVIOUS
<1>1. \A c \in Clients : redis[c] = Quiet /\ \A p \in Processes : memory[p][c] = Quiet
  BY DEF Init
<1>. QED  BY <1>1, IdleForm, InitTyped DEF TalkInv, RedisAsked, MemoryAsked

\* The handler that starts on a message taken for a token has read that it is.
LEMMA TakenAsked ==
  ASSUME TalkInv, [Next]_vars, NEW r \in Requests, req[r].pc = "idle", req'[r].kind = "text"
  PROVE  LET c == req'[r].client IN
           asked[c] \/ endedBy[c] # req'[r].proc \/ c \in unheard
<1>. DEFINE Fair == LET c == req'[r].client IN
                      asked[c] \/ endedBy[c] # req'[r].proc \/ c \in unheard
<1>0. Typed /\ req[r] = Idle /\ req[r].kind = "none"
  BY IdleForm DEF TalkInv, Typed, Form, WellFormed
<1>1. ASSUME NEW s \in Requests, req' = [req EXCEPT ![s] = Idle] PROVE FALSE
  BY <1>0, <1>1, IdleForm DEF Typed
<1>2. ASSUME NEW s \in Requests, NEW c \in Clients, NEW p \in Processes, TextReads(s, c, p)
      PROVE  Fair
  <2>0. PICK talk \in {get_onboarding_state(c, p), memory[p][c]} :
          /\ IsWaiting(talk)
          /\ req' = [req EXCEPT ![s] = [Idle EXCEPT !.pc = "read", !.kind = "text",
                                          !.client = c, !.proc = p, !.talk = talk]]
    BY <1>2 DEF TextReads
  <2>. DEFINE q == [Idle EXCEPT !.pc = "read", !.kind = "text", !.client = c, !.proc = p,
                                !.talk = talk]
  <2>1. q.client = c /\ q.proc = p
    BY DEF Idle
  <2>2. req' = [req EXCEPT ![s] = q]
    BY <2>0
  <2>. HIDE DEF q
  <2>3. req'[r] = q
    BY <1>0, <2>2 DEF Typed
  <2>4. IsWaiting(redis[c]) \/ IsWaiting(memory[p][c])
    BY <2>0 DEF get_onboarding_state
  <2>. QED  BY <2>1, <2>3, <2>4 DEF TalkInv, RedisAsked, MemoryAsked
<1>3. ASSUME NEW s \in Requests, NEW c \in Clients, NEW kind \in Buttons, NEW d, NEW b,
             CallbackReads(s, c, kind, d, b)
      PROVE  FALSE
  <2>. DEFINE q == [Idle EXCEPT !.pc = "read", !.kind = kind, !.client = c,
                                !.seen = client[c], !.ticket = d, !.bot = b]
  <2>1. q.kind = kind
    BY DEF Idle
  <2>2. req' = [req EXCEPT ![s] = q]
    BY <1>3 DEF CallbackReads
  <2>. HIDE DEF q
  <2>. QED  BY <1>0, <2>1, <2>2 DEF Typed, Buttons
<1>4. ASSUME NEW s \in Requests, NEW b, NEW row, NEW h, Work(s, b, row, h) PROVE s = r
  BY <1>0, <1>4 DEF Work, Typed
<1>5. ASSUME NEW s \in Requests, Provision(s) \/ disconnect_bot(s) PROVE FALSE
  <2>1. req[s].pc = "read"
    BY <1>5 DEF Provision, disconnect_bot
  <2>2. \E b, row, h : Work(s, b, row, h)
    BY <1>5 DEF Provision, disconnect_bot
  <2>. QED  BY <1>4, <2>1, <2>2
<1>6. ASSUME NEW p \in Processes, Restart(p) PROVE FALSE
  BY <1>0, <1>6, IdleForm DEF Restart
<1>7. ~UNCHANGED req
  BY <1>0
<1>8. ASSUME NEW s \in Requests, Handled(s) PROVE FALSE
  BY <1>1, <1>5, <1>8 DEF Handled, TextRefused, TextTaken, Refused, Commit, Rollback
<1>9. ASSUME NEW s \in Requests, NEW c \in Clients, NEW p \in Processes, Arrives(s, c, p)
      PROVE  Fair
  BY <1>2, <1>3, <1>9 DEF Arrives, Buttons
<1>10. UNCHANGED req
         \/ (\E s \in Requests : Handled(s)) \/ (\E p \in Processes : Restart(p))
         \/ (\E s \in Requests, c \in Clients, p \in Processes : Arrives(s, c, p))
  BY DEF Next, vars, Conversation, connectbot_start, token_ready, cancel_button, cancel, reconnect,
         TicketExpires, StateExpires, suspend_client, reactivate_client
<1>. QED  BY <1>6, <1>7, <1>8, <1>9, <1>10

\* A message is taken for a token only from a client who has been asked for one
\* and not been let off since, or was let off by another process: what this
\* process remembers it has told the client itself; or Redis has missed what the
\* client was told last.
THEOREM TokensAskedFor == Spec => TakenOnlyIfAsked
<1>1. TalkInv /\ [Next]_vars =>
        [\A r \in Requests :
           LET c == req'[r].client IN
           req[r].pc = "idle" /\ req'[r].kind = "text"
             => asked[c] \/ endedBy[c] # req'[r].proc \/ c \in unheard]_vars
  BY TakenAsked
<1>. QED  BY <1>1, InitTalk, StepTalk, PTL DEF Spec, TakenOnlyIfAsked
=============================================================================
