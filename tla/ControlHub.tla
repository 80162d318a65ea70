----------------------------- MODULE ControlHub -----------------------------
(***************************************************************************)
(* A client talks to the Control Hub bot and connects a bot of its own      *)
(* (telegram/control_hub/router.py, client_onboarding_service.py,           *)
(* client_bot_connection_service.py, client_bot_provisioning_service.py).   *)
(*                                                                         *)
(* Updates are served by several API processes.  Where a client is in the   *)
(* conversation is kept in Redis and, beside it, in the memory of the       *)
(* process that set it.  Every handler but /cancel and the first lines of   *)
(* /start and of a plain text begins with an UPDATE of the client's row,    *)
(* whose lock it keeps until it commits: "read" is a handler on its way to  *)
(* that lock, "work" one that has it and has done everything but commit.    *)
(* What it did at Telegram is done even if it is rolled back.               *)
(***************************************************************************)
EXTENDS Naturals, FiniteSets

CONSTANTS
  Clients, Bots,  \* Telegram bots, by their telegram_bot_id
  Processes, Requests, Tickets,
  MaxSecret,      \* bound: secrets that can be told apart
  MaxFaults,      \* bound: handlers that are rolled back, processes that restart,
                  \* calls to Redis that fail
  None

ASSUME NoneIsNone == None \notin Clients \cup Bots \cup Processes \cup Tickets
ASSUME BoundsType == MaxSecret \in Nat /\ MaxSecret >= 3 /\ MaxFaults \in Nat

VARIABLES
  client,  \* clients.status
  bot,     \* the rows of client_bots
  hook,    \* the webhook secret Telegram has for a bot, 0 for none
  redis,   \* controlhub:onboarding:<client>
  memory,  \* _in_memory_onboarding_store of each process
  ticket,  \* controlhub:pending_conn:<temp id>
  req,     \* the handlers at work
  faults,
  asked,   \* history: the client has been asked for a token and not let off since
  endedBy, \* history: the process that let it off, None if it has not been let off
           \* or its time ran out
  unheard, \* history: clients whose last change of the conversation Redis missed
  torn     \* history: bots whose webhook a handler changed that was rolled back

vars == <<client, bot, hook, redis, memory, ticket, req, faults, asked, endedBy, unheard,
          torn>>

----------------------------------------------------------------------------
ClientStatuses == {"ACTIVE", "SUSPENDED"}
BotStatuses == {"NONE", "PROVISIONING", "ACTIVE", "PROVISION_FAILED", "INVALID_TOKEN",
                "DISCONNECTED"}
Secrets == 0..MaxSecret

Row == [owner : Clients \cup {None}, status : BotStatuses, token : BOOLEAN,
        secret : Secrets]
NoRow == [owner |-> None, status |-> "NONE", token |-> FALSE, secret |-> 0]

\* Where a client is in the conversation, and the bot it is to reconnect.
Steps == {"NONE", "PREPARING_TO_CONNECT_BOT", "WAITING_FOR_BOT_TOKEN",
          "WAITING_FOR_RECONNECT_TOKEN"}
Talk(step, b) == [step |-> step, bot |-> b]
Talks == [step : Steps, bot : Bots \cup {None}]
Quiet == Talk("NONE", None)

Ticket == [client : Clients \cup {None}, bot : Bots \cup {None}, reconnect : BOOLEAN]
NoTicket == [client |-> None, bot |-> None, reconnect |-> FALSE]

Kinds == {"none", "text", "confirm", "retry", "disconnect"}
Request == [pc : {"idle", "read", "work"}, kind : Kinds, client : Clients \cup {None},
            proc : Processes \cup {None}, \* of a text
            seen : ClientStatuses, talk : Talks,
            ticket : Tickets \cup {None}, bot : Bots \cup {None}, row : Row]
Idle == [pc |-> "idle", kind |-> "none", client |-> None, proc |-> None,
         seen |-> "ACTIVE", talk |-> Quiet, ticket |-> None, bot |-> None, row |-> NoRow]

TypeOK ==
  /\ client \in [Clients -> ClientStatuses]
  /\ bot \in [Bots -> Row]
  /\ hook \in [Bots -> Secrets]
  /\ redis \in [Clients -> Talks]
  /\ memory \in [Processes -> [Clients -> Talks]]
  /\ ticket \in [Tickets -> Ticket]
  /\ req \in [Requests -> Request]
  /\ faults \in 0..MaxFaults
  /\ asked \in [Clients -> BOOLEAN]
  /\ endedBy \in [Clients -> Processes \cup {None}]
  /\ unheard \subseteq Clients
  /\ torn \subseteq Bots

Init ==
  /\ client = [c \in Clients |-> "ACTIVE"]
  /\ bot = [b \in Bots |-> NoRow]
  /\ hook = [b \in Bots |-> 0]
  /\ redis = [c \in Clients |-> Quiet]
  /\ memory = [p \in Processes |-> [c \in Clients |-> Quiet]]
  /\ ticket = [d \in Tickets |-> NoTicket]
  /\ req = [r \in Requests |-> Idle]
  /\ faults = 0
  /\ asked = [c \in Clients |-> FALSE]
  /\ endedBy = [c \in Clients |-> None]
  /\ unheard = {}
  /\ torn = {}

----------------------------------------------------------------------------
(* The conversation.                                                        *)

\* A call to Redis raises, and the code goes on without it.
RedisFails == faults < MaxFaults /\ faults' = faults + 1

\* Redis, or what this process remembers if Redis has nothing.
get_onboarding_state(c, p) ==
  IF redis[c] # Quiet THEN redis[c] ELSE memory[p][c]

\* A call that fails leaves the change to the memory of this process alone.
set_onboarding_state(c, p, talk) ==
  /\ memory' = [memory EXCEPT ![p][c] = talk]
  /\ \/ /\ redis' = [redis EXCEPT ![c] = talk]
        /\ unheard' = unheard \ {c}
        /\ UNCHANGED faults
     \/ /\ RedisFails
        /\ unheard' = unheard \cup {c}
        /\ UNCHANGED redis

\* Mutant: the key is set to nothing instead of deleted.
EmptyRedis(c, p) ==
  /\ redis' = [redis EXCEPT ![c] = None]
  /\ memory' = [memory EXCEPT ![p][c] = Quiet]
  /\ UNCHANGED <<faults, unheard>>

\* Mutant: the process forgets to forget.
ClearRedis(c, p) ==
  /\ redis' = [redis EXCEPT ![c] = Quiet]
  /\ UNCHANGED <<memory, faults, unheard>>

clear_onboarding_state(c, p) == set_onboarding_state(c, p, Quiet)

\* asked and endedBy follow what the client is told.
Ask(c) ==
  /\ asked' = [asked EXCEPT ![c] = TRUE]
  /\ endedBy' = [endedBy EXCEPT ![c] = None]
LetOff(c, p) ==
  /\ asked' = [asked EXCEPT ![c] = FALSE]
  /\ endedBy' = [endedBy EXCEPT ![c] = p]

\* The client's row is locked by the handler that works for it.
Locked(c) == \E r \in Requests : req[r].pc = "work" /\ req[r].client = c

\* A button of the conversation.  The status it checks is read before the lock;
\* a suspension in between leaves the same conversation as one just after.
Served(c) == client[c] = "ACTIVE" /\ ~Locked(c)

connectbot_start(c, p) ==
  /\ Served(c)
  /\ set_onboarding_state(c, p, Talk("PREPARING_TO_CONNECT_BOT", None))
  /\ LetOff(c, p)
  /\ UNCHANGED <<client, bot, hook, ticket, req, torn>>

token_ready(c, p) ==
  /\ Served(c)
  /\ set_onboarding_state(c, p, Talk("WAITING_FOR_BOT_TOKEN", None))
  /\ Ask(c)
  /\ UNCHANGED <<client, bot, hook, ticket, req, torn>>

reconnect(c, p, b) ==
  /\ Served(c)
  /\ bot[b].owner = c
  /\ set_onboarding_state(c, p, Talk("WAITING_FOR_RECONNECT_TOKEN", b))
  /\ Ask(c)
  /\ UNCHANGED <<client, bot, hook, ticket, req, torn>>

cancel_button(c, p) ==
  /\ Served(c)
  /\ clear_onboarding_state(c, p)
  /\ LetOff(c, p)
  /\ UNCHANGED <<client, bot, hook, ticket, req, torn>>

\* /cancel and /start clear the state before they touch the database.
cancel(c, p) ==
  /\ clear_onboarding_state(c, p)
  /\ LetOff(c, p)
  /\ UNCHANGED <<client, bot, hook, ticket, req, torn>>

\* ONBOARDING_STATE_TTL: Redis forgets, the processes do not.
StateExpires(c) ==
  /\ redis[c] # Quiet
  /\ redis' = [redis EXCEPT ![c] = Quiet]
  /\ asked' = [asked EXCEPT ![c] = FALSE]
  /\ endedBy' = [endedBy EXCEPT ![c] = None]
  /\ unheard' = unheard \ {c}
  /\ UNCHANGED <<client, bot, hook, memory, ticket, req, faults, torn>>

----------------------------------------------------------------------------
(* A message that is taken for a token.                                     *)

IsWaiting(talk) ==
  talk.step \in {"WAITING_FOR_BOT_TOKEN", "WAITING_FOR_RECONNECT_TOKEN"}

\* The state is read before the client's row is locked, from the memory of the
\* process if Redis fails.
TextReads(r, c, p) ==
  \E talk \in {get_onboarding_state(c, p), memory[p][c]} :
    /\ req[r].pc = "idle"
    /\ IsWaiting(talk)
    /\ IF talk = get_onboarding_state(c, p) THEN UNCHANGED faults ELSE RedisFails
    /\ req' = [req EXCEPT ![r] = [Idle EXCEPT !.pc = "read", !.kind = "text", !.client = c,
                                    !.proc = p, !.talk = talk]]
    /\ UNCHANGED <<client, bot, hook, redis, memory, ticket, asked, endedBy, unheard, torn>>

\* Not a token, or Telegram cannot be reached, or a token of another bot than
\* the one to reconnect: the client is asked again.
TextRefused(r) ==
  /\ req[r].kind = "text" /\ ~Locked(req[r].client)
  /\ req' = [req EXCEPT ![r] = Idle]
  /\ UNCHANGED <<client, bot, hook, redis, memory, ticket, faults, asked, endedBy, unheard,
                 torn>>

\* ACTIVE and PAUSED bots are connected already; nothing pauses a bot here.
check_bot_ownership(b, c) ==
  CASE bot[b] = NoRow -> "NEW"
    [] bot[b] # NoRow /\ bot[b].owner # c -> "OTHER_OWNER"
    [] bot[b].owner = c /\ bot[b].status = "ACTIVE" -> "ALREADY_CONNECTED"
    [] bot[b].owner = c /\ bot[b].status # "ACTIVE" -> "RECONNECT"

prepare_pending_connection(c, b, again) ==
  \E d \in Tickets :
    /\ ticket[d] = NoTicket
    /\ ticket' = [ticket EXCEPT ![d] = [client |-> c, bot |-> b, reconnect |-> again]]

\* A valid token of bot b.  The client is offered to connect it, or told why not.
TextTaken(r, b) ==
  LET c == req[r].client
      again == req[r].talk.step = "WAITING_FOR_RECONNECT_TOKEN"
      known == check_bot_ownership(b, c) IN
  /\ req[r].kind = "text" /\ ~Locked(c)
  /\ again => req[r].talk.bot = b
  /\ IF again \/ known \in {"NEW", "RECONNECT"}
       THEN prepare_pending_connection(c, b, again \/ known = "RECONNECT")
       ELSE UNCHANGED ticket
  /\ clear_onboarding_state(c, req[r].proc)
  /\ LetOff(c, req[r].proc)
  /\ req' = [req EXCEPT ![r] = Idle]
  /\ UNCHANGED <<client, bot, hook, torn>>

\* PENDING_CONN_TTL.
TicketExpires(d) ==
  /\ ticket[d] # NoTicket
  /\ ticket' = [ticket EXCEPT ![d] = NoTicket]
  /\ UNCHANGED <<client, bot, hook, redis, memory, req, faults, asked, endedBy, unheard,
                 torn>>

----------------------------------------------------------------------------
(* Connecting, provisioning again, disconnecting.                           *)

\* The client is loaded, and with it the status every later check looks at; who
\* is seen suspended is told so.
CallbackReads(r, c, kind, d, b) ==
  /\ req[r].pc = "idle" /\ client[c] = "ACTIVE"
  /\ kind \in {"confirm", "retry", "disconnect"}
  /\ (kind = "confirm") = (d # None) /\ (kind = "confirm") = (b = None)
  /\ req' = [req EXCEPT ![r] = [Idle EXCEPT !.pc = "read", !.kind = kind, !.client = c,
                                  !.seen = client[c], !.ticket = d, !.bot = b]]
  /\ UNCHANGED <<client, bot, hook, redis, memory, ticket, faults, asked, endedBy, unheard,
                 torn>>

\* telegram_bot_id is unique: an insert waits for one that is not committed.
InsertWaits(b) ==
  \E r \in Requests : req[r].pc = "work" /\ req[r].bot = b /\ bot[b] = NoRow

\* The rows of the ticket's or the button's bot as the handler changes them
\* before it provisions: none if it does not come to that.
confirm_connection(r) ==
  LET t == ticket[req[r].ticket] IN
  {row \in {IF t.reconnect THEN [bot[t.bot] EXCEPT !.token = TRUE, !.status = "PROVISIONING"]
                           ELSE [NoRow EXCEPT !.owner = req[r].client, !.token = TRUE,
                                              !.status = "PROVISIONING"]} :
     IF t.reconnect THEN bot[t.bot].owner = req[r].client ELSE bot[t.bot] = NoRow}

retry_provisioning(r) ==
  {[row EXCEPT !.status = "PROVISIONING"] :
     row \in {bot[b] : b \in {x \in {req[r].bot} : bot[x].owner = req[r].client}}}

\* A secret nobody has: which one does not matter.
NewSecret(b) ==
  CHOOSE s \in Secrets \ {0} : s # hook[b] /\ s # bot[b].secret

\* Mutant: the status is loaded anew.
ClientStillActive(r) == client[req[r].client] = "ACTIVE"

\* The client's status, in the copy the handler has loaded.
ClientActive(r) == req[r].seen = "ACTIVE"

\* Mutant: a failure to set the webhook is ignored, as one to delete it is.
ActivatesAnyway(r, b, row) ==
  {<<[row EXCEPT !.status = "ACTIVE", !.secret = NewSecret(b)], h>> :
     h \in {hook[b], NewSecret(b)}}

\* What provisioning makes of the row and the webhook: each call to Telegram
\* may fail, and one that seems to have failed may have been carried out.
provision_bot(r, b, row) ==
  LET secret == NewSecret(b)
      failed == [row EXCEPT !.status = "PROVISION_FAILED"] IN
  CASE ~ClientActive(r) -> {<<row, hook[b]>>}
    [] ClientActive(r) /\ ~row.token -> {<<[row EXCEPT !.status = "INVALID_TOKEN"], hook[b]>>}
    [] ClientActive(r) /\ row.token ->
         {<<failed, hook[b]>>}
           \cup {<<[failed EXCEPT !.secret = secret], h>> : h \in {hook[b], secret}}
           \cup {<<[row EXCEPT !.status = "ACTIVE", !.secret = secret], secret>>}

\* The handler has done all but commit.
Work(r, b, row, h) ==
  /\ req' = [req EXCEPT ![r].pc = "work", ![r].bot = b, ![r].row = row]
  /\ hook' = [hook EXCEPT ![b] = h]
  /\ UNCHANGED <<client, bot, redis, memory, ticket, faults, asked, endedBy, unheard,
                 torn>>

Provision(r) ==
  LET isConfirm == req[r].kind = "confirm"
      b == IF isConfirm THEN ticket[req[r].ticket].bot ELSE req[r].bot IN
  /\ req[r].pc = "read" /\ req[r].kind \in {"confirm", "retry"}
  /\ ~Locked(req[r].client)
  /\ isConfirm => ticket[req[r].ticket].client = req[r].client
  /\ isConfirm /\ ~ticket[req[r].ticket].reconnect => ~InsertWaits(b)
  /\ \E row \in IF isConfirm THEN confirm_connection(r) ELSE retry_provisioning(r) :
       \E out \in provision_bot(r, b, row) : Work(r, b, out[1], out[2])

\* The webhook is deleted if there is a token to do it with; a failure is ignored.
disconnect_bot(r) ==
  LET b == req[r].bot IN
  /\ req[r].pc = "read" /\ req[r].kind = "disconnect"
  /\ ~Locked(req[r].client)
  /\ bot[b].owner = req[r].client
  /\ \E h \in {hook[b]} \cup {s \in {0} : bot[b].token} :
       Work(r, b, [bot[b] EXCEPT !.status = "DISCONNECTED", !.token = FALSE, !.secret = 0], h)

\* A handler that has nothing to do: the ticket is gone, another client's or not
\* found because Redis fails, the bot is not the client's, or the insert of a bot
\* that has a row by now violates its unique key.
Refused(r) ==
  LET c == req[r].client
      t == ticket[req[r].ticket] IN
  /\ req[r].pc = "read" /\ req[r].kind # "text" /\ ~Locked(c)
  /\ \/ req[r].kind = "confirm" /\ t.client # c /\ UNCHANGED faults
     \/ req[r].kind = "confirm" /\ t.client = c /\ confirm_connection(r) = {} /\ UNCHANGED faults
     \/ req[r].kind = "confirm" /\ RedisFails
     \/ req[r].kind # "confirm" /\ bot[req[r].bot].owner # c /\ UNCHANGED faults
  /\ req' = [req EXCEPT ![r] = Idle]
  /\ UNCHANGED <<client, bot, hook, redis, memory, ticket, asked, endedBy, unheard, torn>>

\* The client is told, and the session commits.  A ticket Redis fails to delete
\* can be used again.
Commit(r) ==
  LET b == req[r].bot IN
  /\ req[r].pc = "work"
  /\ bot' = [bot EXCEPT ![b] = req[r].row]
  /\ IF req[r].kind = "confirm"
       THEN \/ ticket' = [ticket EXCEPT ![req[r].ticket] = NoTicket] /\ UNCHANGED faults
            \/ RedisFails /\ UNCHANGED ticket
       ELSE UNCHANGED <<ticket, faults>>
  /\ torn' = IF req[r].row.status = "ACTIVE" THEN torn \ {b} ELSE torn
  /\ req' = [req EXCEPT ![r] = Idle]
  /\ UNCHANGED <<client, hook, redis, memory, asked, endedBy, unheard>>

\* The webhook has what a handler put there for the row it has not committed.
Changed(r) ==
  LET b == req[r].bot IN
  req[r].row.secret # bot[b].secret /\ hook[b] = req[r].row.secret

\* Telling the client raises: the session is rolled back, the webhook stays as
\* it is and the ticket may be used up.
Rollback(r) ==
  /\ req[r].pc = "work" /\ faults < MaxFaults
  /\ faults' = faults + 1
  /\ torn' = torn \cup {b \in {req[r].bot} : Changed(r)}
  /\ \/ UNCHANGED ticket
     \/ /\ req[r].kind = "confirm"
        /\ ticket' = [ticket EXCEPT ![req[r].ticket] = NoTicket]
  /\ req' = [req EXCEPT ![r] = Idle]
  /\ UNCHANGED <<client, bot, hook, redis, memory, asked, endedBy, unheard>>

\* A process restarts and remembers nothing.  The texts it was reading are lost;
\* for a handler that had the lock that is its rollback.
Restart(p) ==
  /\ faults < MaxFaults
  /\ faults' = faults + 1
  /\ memory' = [memory EXCEPT ![p] = [c \in Clients |-> Quiet]]
  /\ req' = [r \in Requests |-> IF req[r].proc = p THEN Idle ELSE req[r]]
  /\ UNCHANGED <<client, bot, hook, redis, ticket, asked, endedBy, unheard, torn>>

\* The owner's button writes the status, once the client's row is free.
suspend_client(c) ==
  /\ client[c] = "ACTIVE" /\ ~Locked(c)
  /\ client' = [client EXCEPT ![c] = "SUSPENDED"]
  /\ UNCHANGED <<bot, hook, redis, memory, ticket, req, faults, asked, endedBy, unheard,
                 torn>>

reactivate_client(c) ==
  /\ client[c] = "SUSPENDED" /\ ~Locked(c)
  /\ client' = [client EXCEPT ![c] = "ACTIVE"]
  /\ UNCHANGED <<bot, hook, redis, memory, ticket, req, faults, asked, endedBy, unheard,
                 torn>>

----------------------------------------------------------------------------
Conversation(c, p) ==
  \/ connectbot_start(c, p) \/ token_ready(c, p) \/ cancel_button(c, p) \/ cancel(c, p)
  \/ \E b \in Bots : reconnect(c, p, b)

Arrives(r, c, p) ==
  \/ TextReads(r, c, p)
  \/ \E d \in Tickets : CallbackReads(r, c, "confirm", d, None)
  \/ \E b \in Bots, k \in {"retry", "disconnect"} : CallbackReads(r, c, k, None, b)

Handled(r) ==
  \/ TextRefused(r) \/ (\E b \in Bots : TextTaken(r, b))
  \/ Provision(r) \/ disconnect_bot(r) \/ Refused(r) \/ Commit(r) \/ Rollback(r)

Next ==
  \/ \E c \in Clients, p \in Processes :
       Conversation(c, p) \/ \E r \in Requests : Arrives(r, c, p)
  \/ \E r \in Requests : Handled(r)
  \/ \E p \in Processes : Restart(p)
  \/ \E d \in Tickets : TicketExpires(d)
  \/ \E c \in Clients : StateExpires(c) \/ suspend_client(c) \/ reactivate_client(c)

Spec == Init /\ [][Next]_vars

----------------------------------------------------------------------------
(* Properties.                                                              *)

\* What client_bot_webhook.py compares is what Telegram sends: the webhook of an
\* ACTIVE bot has the secret of its row whenever no handler is at work on it,
\* unless the handler that changed it last was rolled back.
WebhookMatches ==
  \A b \in Bots :
    bot[b].status = "ACTIVE" /\ b \notin torn
      /\ (\A r \in Requests : ~(req[r].pc = "work" /\ req[r].bot = b))
    => hook[b] = bot[b].secret

\* No bot is left PROVISIONING, which no button leads out of: whatever happens
\* to the client while the handler waits for its row, the handler goes by the
\* status it has read first.
NeverLeftProvisioning == \A b \in Bots : bot[b].status # "PROVISIONING"

\* A message is taken for a token only from a client who has been asked for one
\* and not been let off since, or was let off by another process (or by Redis
\* alone): what this process remembers it has told the client itself.  What Redis
\* keeps of a client whose last change it missed may be out of date.
TakenOnlyIfAsked ==
  [][\A r \in Requests :
       LET c == req'[r].client IN
       req[r].pc = "idle" /\ req'[r].kind = "text"
         => asked[c] \/ endedBy[c] # req'[r].proc \/ c \in unheard]_vars
=============================================================================
