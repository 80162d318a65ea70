----------------------------- MODULE HubScreens -----------------------------
(***************************************************************************)
(* The screens of the Control Hub bot: what the platform owner and a client *)
(* are shown, which buttons are under it, and what a tap on one does        *)
(* (telegram/control_hub/router.py, keyboards.py).                          *)
(*                                                                         *)
(* A button carries callback data, "owner:clients:page:2" say; here it is   *)
(* the sequence of its parts.  A screen is the set of buttons under it.     *)
(* One person writes to the bot and has one message: a command sends it     *)
(* anew, a tap edits it.  Meanwhile others register, connect and disconnect *)
(* bots or are suspended, and the workers get on with their jobs: when a    *)
(* button is tapped the database may have changed since it was drawn.  A    *)
(* handler is one step, what may happen inside being the subject of         *)
(* ControlHub and BroadcastQueue; but a page of a list is two: the rows are *)
(* counted, then the page is read, and each statement sees what has been    *)
(* committed by then.                                                       *)
(***************************************************************************)
EXTENDS Naturals, Sequences, FiniteSets

CONSTANTS
  Owner,          \* PLATFORM_OWNER_TELEGRAM_ID
  Users,          \* the others who may write to the bot
  PageSize,       \* rows on a page of a list, 10
  Clients0, Bots0, Jobs0, Broadcasts0,  \* the rows to begin with
  MessageCampaigns, \* how many message campaigns the owner has made
  MaxBots,        \* bound: rows of client_bots
  MaxChanges,     \* bound: changes made by the workers and by other people
  NoBot

VARIABLES
  clients,       \* clients: who, and the status
  bots,          \* client_bots: the client's id, and the status
  jobs,          \* background_jobs: the status
  broadcasts,    \* broadcasts: the status
  who,           \* the one who writes
  screen,        \* the buttons under the message
  waiting,       \* controlhub:onboarding:<who>: the bot whose token is waited for, 0
                 \* for a new one, NoBot if none is
  search_state,  \* controlhub:search:<owner>
  counted,       \* the page of a list that is under way, and the rows counted for it
  walk,          \* history: the owner leafs through a list from its first page on
  changes

tables == <<clients, bots, jobs, broadcasts>>
screensVars == <<tables, who, screen, waiting, search_state, counted, walk, changes>>

----------------------------------------------------------------------------
People == Users \cup {Owner}
ClientStatuses == {"ACTIVE", "SUSPENDED"}
BotStatuses == {"PROVISIONING", "ACTIVE", "PROVISION_FAILED", "INVALID_TOKEN", "DISCONNECTED"}
JobStatuses == {"PENDING", "RUNNING", "RETRYING", "COMPLETED", "FAILED"}
BroadcastStatuses == {"PENDING", "RUNNING", "COMPLETED", "PARTIAL", "FAILED"}

\* Callback data: the name of a handler, and an id or a page after it.
Name(data) == IF Len(data) = 4 THEN SubSeq(data, 1, 3) ELSE data
Number(data) == data[4]

\* The lists that are leafed through: the callback data of a page, without its number.
Lists == {<<"owner", "clients", "page">>, <<"owner", "bots", "page">>,
          <<"owner", "campaign", "botlist">>}
           \cup {<<"owner", s, f>> : s \in {"jobs", "broadcasts"}, f \in {"running", "failed", "all"}}

\* Those whose pages list_paginated counts and reads; the campaign's list of bots is
\* one query.
CountedLists == Lists \ {<<"owner", "campaign", "botlist">>}
NoCount == [data |-> <<>>, total |-> 0]

\* A list that is leafed through, the page reached, the rows shown so far, the
\* rows it had at first and when this page was read, whether one had left it between
\* two pages, whether it had got longer than it was counted for this page, and
\* whether the page reached has no next one.
NoWalk == [list |-> <<>>, page |-> 0, shown |-> {}, first |-> {}, rows |-> {},
           left |-> FALSE, grew |-> FALSE, last |-> FALSE]

ScreensTypeOK ==
  /\ clients \in Seq([user : People, status : ClientStatuses])
  /\ bots \in Seq([client : DOMAIN clients, status : BotStatuses])
  /\ Len(bots) <= MaxBots
  /\ jobs \in Seq(JobStatuses)
  /\ broadcasts \in Seq(BroadcastStatuses)
  /\ who \in People
  /\ \A data \in screen : Len(data) \in 2..4
  /\ waiting \in {NoBot} \cup 0..Len(bots)
  /\ search_state \in {"NONE", "WAITING_FOR_CLIENT_SEARCH", "WAITING_FOR_BOT_SEARCH"}
  /\ \/ counted = NoCount
     \/ /\ who = Owner /\ counted.data \in screen /\ Name(counted.data) \in CountedLists
        /\ counted.total \in Nat
  /\ walk \in [list : Lists \cup {<<>>}, page : Nat, shown : SUBSET Nat, first : SUBSET Nat,
               rows : SUBSET Nat, left : BOOLEAN, grew : BOOLEAN, last : BOOLEAN]
  /\ changes \in 0..MaxChanges

\* The rows to begin with are rows the tables can have: telegram_user_id is unique.
ASSUME RowsToBeginWith ==
  /\ Clients0 \in Seq([user : People, status : ClientStatuses])
  /\ \A c, d \in DOMAIN Clients0 : Clients0[c].user = Clients0[d].user => c = d
  /\ Bots0 \in Seq([client : DOMAIN Clients0, status : BotStatuses])
  /\ Jobs0 \in Seq(JobStatuses) /\ Broadcasts0 \in Seq(BroadcastStatuses)
ASSUME Bounds ==
  /\ PageSize \in Nat \ {0} /\ MessageCampaigns \in Nat /\ MaxChanges \in Nat
  /\ MaxBots \in Nat /\ Len(Bots0) <= MaxBots
ASSUME NoBotIsNone == NoBot \notin Nat

ScreensInit ==
  /\ clients = Clients0 /\ bots = Bots0 /\ jobs = Jobs0 /\ broadcasts = Broadcasts0
  /\ who \in People
  /\ screen = {}
  /\ waiting = NoBot
  /\ search_state = "NONE"
  /\ counted = NoCount
  /\ walk = NoWalk
  /\ changes = 0

----------------------------------------------------------------------------
(* Rows and pages.                                                          *)

Max0(S) == IF S = {} THEN 0 ELSE CHOOSE i \in S : \A j \in S : j <= i

\* The id of the row of who writes in clients, 0 if there is none.
client_of(cs) == Max0({c \in DOMAIN cs : cs[c].user = who})

resolve_or_create_client ==
  IF client_of(clients) = 0
    THEN Append(clients, [user |-> who, status |-> "ACTIVE"])
    ELSE clients

\* Mutant: the bots of all clients.
list_all(c) == DOMAIN bots
list_by_client(c) == {b \in DOMAIN bots : bots[b].client = c}
JobRowsOf(filter) ==
  {j \in DOMAIN jobs : filter = "running" => jobs[j] = "RUNNING"}
    \cap {j \in DOMAIN jobs : filter = "failed" => jobs[j] = "FAILED"}
BroadcastRowsOf(filter) ==
  {b \in DOMAIN broadcasts : filter = "running" => broadcasts[b] = "RUNNING"}
    \cap {b \in DOMAIN broadcasts : filter = "failed" => broadcasts[b] = "FAILED"}
ActiveBots == {b \in DOMAIN bots : bots[b].status = "ACTIVE"}

\* The rows of a page: the newest first.
Newest(rows, page) ==
  {i \in rows : LET before == Cardinality({j \in rows : j > i}) IN
                before \in (page - 1) * PageSize .. page * PageSize - 1}
\* Mutant: the last page is left out unless it is full.
FullPages(total) == Max0({1, total \div PageSize})
total_pages(total) == Max0({1, (total + PageSize - 1) \div PageSize})

\* The campaign's list of bots goes the other way.
Oldest(rows, page) ==
  {i \in rows : LET before == Cardinality({j \in rows : j < i}) IN
                before \in (page - 1) * PageSize .. page * PageSize - 1}

----------------------------------------------------------------------------
(* Keyboards.                                                               *)

Home(of) == <<"nav", of>>
Rows(prefix, ids) == {Append(prefix, i) : i \in ids}
\* "Previous" and "Next".
Leaf(prefix, page, pages) ==
  {Append(prefix, n) : n \in {page - 1, page + 1} \cap (1..pages \cup 1..(page - 1))}

owner_home_keyboard ==
  {<<"owner", "campaign", "start">>}
    \cup {<<"owner", s>> : s \in {"clients", "bots", "jobs", "queue", "broadcasts", "systemstats"}}
back_to_owner_home_keyboard == {Home("owner_home")}

owner_clients_summary_keyboard ==
  {<<"owner", "clients", "page", 1>>, <<"owner", "clients", "search">>, Home("owner_home")}
owner_clients_list_keyboard(page, pages, ids) ==
  Rows(<<"owner", "client", "view">>, ids) \cup Leaf(<<"owner", "clients", "page">>, page, pages)
    \cup {<<"owner", "clients", "search">>, <<"owner", "clients">>, Home("owner_home")}
owner_client_detail_keyboard(c, is_suspended) ==
  {<<"owner", "bots", "client", c>>, <<"owner", "clients", "page", 1>>, Home("owner_home"),
   <<"owner", "client", IF is_suspended THEN "reactivate" ELSE "suspend", c>>}
owner_client_suspend_confirm_keyboard(c) ==
  {<<"owner", "client", "view", c>>, <<"owner", "client", "suspend_confirm", c>>}
owner_client_reactivate_confirm_keyboard(c) ==
  {<<"owner", "client", "view", c>>, <<"owner", "client", "reactivate_confirm", c>>}

owner_bots_summary_keyboard ==
  {<<"owner", "bots", "page", 1>>, <<"owner", "bots", "search">>, Home("owner_home")}
\* Of all bots, or of one client's, which are on one page.
owner_bots_list_keyboard(page, pages, ids, client) ==
  Rows(<<"owner", "bot", "view">>, ids) \cup Leaf(<<"owner", "bots", "page">>, page, pages)
    \cup {<<"owner", "bots", "search">>, Home("owner_home"),
          IF client = 0 THEN <<"owner", "bots">> ELSE <<"owner", "client", "view", client>>}
owner_bot_detail_keyboard(b) ==
  {<<"owner", "client", "view", bots[b].client>>, <<"owner", "bots", "page", 1>>,
   Home("owner_home")}

owner_jobs_summary_keyboard ==
  {<<"owner", "jobs", f, 1>> : f \in {"running", "failed", "all"}} \cup {Home("owner_home")}
owner_jobs_list_keyboard(page, pages, ids, filter) ==
  Rows(<<"owner", "job", "view">>, ids) \cup Leaf(<<"owner", "jobs", filter>>, page, pages)
    \cup {<<"owner", "jobs">>, Home("owner_home")}
owner_job_detail_keyboard(j, is_retryable) ==
  {<<"owner", "jobs">>, Home("owner_home")}
    \cup IF is_retryable THEN {<<"owner", "job", "retry", j>>} ELSE {}
owner_job_retry_confirm_keyboard(j) ==
  {<<"owner", "job", "view", j>>, <<"owner", "job", "retry_confirm", j>>}

\* Mutant: a handler is renamed, its button is not.
ReloadKeyboard ==
  {<<"owner", "queue", "reload">>, <<"owner", "jobs">>, Home("owner_home")}
owner_queue_keyboard ==
  {<<"owner", "queue", "refresh">>, <<"owner", "jobs">>, Home("owner_home")}

owner_broadcasts_summary_keyboard ==
  {<<"owner", "campaign", "start">>, <<"owner", "campaign", "list">>, Home("owner_home")}
    \cup {<<"owner", "broadcasts", f, 1>> : f \in {"running", "failed", "all"}}
owner_broadcasts_list_keyboard(page, pages, ids, filter) ==
  Rows(<<"owner", "broadcast", "view">>, ids)
    \cup Leaf(<<"owner", "broadcasts", filter>>, page, pages)
    \cup {<<"owner", "broadcasts">>, Home("owner_home")}
owner_broadcast_detail_keyboard(b) ==
  {<<"owner", "broadcast", "view", b>>, <<"owner", "broadcasts">>, Home("owner_home")}

owner_systemstats_keyboard == {<<"owner", "systemstats", "refresh">>, Home("owner_home")}
cancel_search_keyboard == {<<"owner", "search", "cancel">>}

audience_keyboard ==
  {<<"owner", "campaign", "owners">>, <<"owner", "campaign", "all">>,
   <<"owner", "campaign", "botlist", 1>>}
\* One row more than a page is loaded to see whether there is a next one.
bot_list_keyboard(page) ==
  Rows(<<"owner", "campaign", "bot">>, Oldest(ActiveBots, page))
    \cup Leaf(<<"owner", "campaign", "botlist">>, page,
              IF Oldest(ActiveBots, page + 1) = {} THEN page ELSE page + 1)
campaigns_keyboard == Rows(<<"owner", "campaign", "view">>, 1..MessageCampaigns)

new_client_keyboard == {<<"client", "connectbot">>, <<"client", "how_it_works">>}
how_it_works_keyboard == {<<"client", "connectbot">>, Home("client_home")}
botfather_guide_keyboard ==
  {<<"client", "connect", "token_ready">>, <<"client", "cancel">>, Home("client_home")}
token_prompt_keyboard == {<<"client", "cancel">>}
client_home_zero_bots_keyboard ==
  {<<"client", "connectbot">>, <<"client", "account">>, <<"client", "help">>}
client_home_keyboard ==
  {<<"client", "mybots">>, <<"client", "connectbot">>, <<"client", "account">>,
   <<"client", "help">>}
client_mybots_keyboard(ids) ==
  Rows(<<"client", "bot", "view">>, ids) \cup {<<"client", "connectbot">>, Home("client_home")}
\* The number is what the temporary id stands for: the bot to connect again, or
\* 0 for a new one.
client_connect_confirm_keyboard(b) ==
  {<<"client", "connect", "confirm", b>>, <<"client", "connect", "cancel">>}
client_bot_detail_keyboard(b, status) ==
  {<<"client", "mybots">>, Home("client_home")}
    \cup CASE status = "ACTIVE" -> {<<"client", "bot", "disconnect", b>>}
           [] status = "PROVISIONING" -> {<<"client", "bot", "refresh", b>>}
           [] status = "PROVISION_FAILED" -> {<<"client", "connect", "retry", b>>,
                                              <<"client", "bot", "disconnect", b>>}
           [] status \in {"DISCONNECTED", "INVALID_TOKEN"} -> {<<"client", "bot", "reconnect", b>>}
client_disconnect_confirm_keyboard(b) ==
  {<<"client", "bot", "view", b>>, <<"client", "bot", "disconnect_confirm", b>>}
back_to_client_home_keyboard == {Home("client_home")}

----------------------------------------------------------------------------
(* What the router has a handler for.                                       *)

ClientHandlers ==
  {<<"client", s>> : s \in {"how_it_works", "connectbot", "cancel", "mybots", "account", "help"}}
    \cup {<<"client", "connect", s>> : s \in {"token_ready", "cancel", "confirm", "retry"}}
    \cup {<<"client", "bot", s>> : s \in {"reconnect", "refresh", "view", "disconnect",
                                          "disconnect_confirm"}}
    \cup {Home("owner_home"), Home("client_home")}
OwnerHandlers ==
  Lists
    \cup {<<"owner", s>> : s \in {"clients", "bots", "jobs", "queue", "broadcasts", "systemstats"}}
    \cup {<<"owner", s, "search">> : s \in {"clients", "bots"}}
    \cup {<<"owner", s, "refresh">> : s \in {"queue", "systemstats"}}
    \cup {<<"owner", s, "view">> : s \in {"client", "bot", "job", "broadcast", "campaign"}}
    \cup {<<"owner", "client", s>> : s \in {"suspend", "suspend_confirm", "reactivate",
                                            "reactivate_confirm"}}
    \cup {<<"owner", "job", s>> : s \in {"retry", "retry_confirm"}}
    \cup {<<"owner", "campaign", s>> : s \in {"start", "list", "owners", "all", "bot"}}
    \cup {<<"owner", "bots", "client">>, <<"owner", "search", "cancel">>}

----------------------------------------------------------------------------
(* A client's taps.                                                         *)

Draw(keyboard) == screen' = keyboard
Wait(b) == waiting' = b
SetBot(b, status) == bots' = [bots EXCEPT ![b].status = status]
SameRows == UNCHANGED <<bots, jobs, broadcasts>>

\* The screens that only show something to client c.
client_screen(c, data) ==
  LET name == Name(data)
      own(keyboard) == IF Number(data) \in list_by_client(c) THEN keyboard
                                                             ELSE back_to_client_home_keyboard IN
  CASE name = <<"client", "how_it_works">> -> how_it_works_keyboard
    [] name = <<"client", "mybots">> -> client_mybots_keyboard(list_by_client(c))
    [] name \in {<<"client", "account">>, <<"client", "help">>} -> back_to_client_home_keyboard
    [] name \in {<<"client", "bot", "view">>, <<"client", "bot", "refresh">>} ->
         own(client_bot_detail_keyboard(Number(data), bots[Number(data)].status))
    [] name = <<"client", "bot", "disconnect">> ->
         own(client_disconnect_confirm_keyboard(Number(data)))
    [] name = Home("client_home") ->
         IF list_by_client(c) = {} THEN client_home_zero_bots_keyboard ELSE client_home_keyboard
ClientScreens ==
  {<<"client", s>> : s \in {"how_it_works", "mybots", "account", "help"}}
    \cup {<<"client", "bot", s>> : s \in {"view", "refresh", "disconnect"}}
    \cup {Home("client_home")}

show_client_screen(c, data) ==
  /\ Name(data) \in ClientScreens
  /\ Draw(client_screen(c, data))
  /\ UNCHANGED waiting /\ SameRows

show_owner_home(data) ==
  /\ Name(data) = Home("owner_home")
  /\ IF who = Owner THEN Draw(owner_home_keyboard) ELSE UNCHANGED screen
  /\ UNCHANGED waiting /\ SameRows

connectbot(data) ==
  /\ Name(data) = <<"client", "connectbot">>
  /\ Wait(NoBot)
  /\ Draw(botfather_guide_keyboard)
  /\ SameRows

token_ready(data) ==
  /\ Name(data) = <<"client", "connect", "token_ready">>
  /\ Wait(0)
  /\ Draw(token_prompt_keyboard)
  /\ SameRows

cancel_connection(data) ==
  /\ Name(data) \in {<<"client", "cancel">>, <<"client", "connect", "cancel">>}
  /\ Wait(NoBot)
  /\ Draw(back_to_client_home_keyboard)
  /\ SameRows

reconnect(c, data) ==
  /\ Name(data) = <<"client", "bot", "reconnect">>
  /\ IF Number(data) \in list_by_client(c)
       THEN Wait(Number(data)) /\ Draw(token_prompt_keyboard)
       ELSE UNCHANGED waiting /\ Draw(back_to_client_home_keyboard)
  /\ SameRows

\* The temporary id may be of no use any more; a new bot gets a row.  Either way
\* the screen is that of the bot, or of no bot, whose set-up failed or succeeded.
confirm(c, data) ==
  LET b == Number(data) IN
  /\ Name(data) = <<"client", "connect", "confirm">>
  /\ \/ Draw(client_bot_detail_keyboard(0, "PROVISION_FAILED")) /\ UNCHANGED bots
     \/ \E s \in {"ACTIVE", "PROVISION_FAILED"} :
          \/ /\ b = 0 /\ Len(bots) < MaxBots
             /\ bots' = Append(bots, [client |-> c, status |-> s])
             /\ Draw(client_bot_detail_keyboard(Len(bots) + 1, s))
          \/ /\ b \in list_by_client(c)
             /\ SetBot(b, s)
             /\ Draw(client_bot_detail_keyboard(b, s))
  /\ UNCHANGED <<waiting, jobs, broadcasts>>

\* A bot that was disconnected has no token to set it up with.
retry(c, data) ==
  LET b == Number(data) IN
  /\ Name(data) = <<"client", "connect", "retry">>
  /\ IF b \in list_by_client(c)
       THEN \E s \in IF bots[b].status = "DISCONNECTED" THEN {"INVALID_TOKEN"}
                     ELSE {"ACTIVE", "PROVISION_FAILED", "INVALID_TOKEN"} :
              /\ SetBot(b, s)
              /\ Draw(client_bot_detail_keyboard(b, IF s = "ACTIVE" THEN s
                                                       ELSE "PROVISION_FAILED"))
       ELSE UNCHANGED bots /\ Draw(client_bot_detail_keyboard(b, "PROVISION_FAILED"))
  /\ UNCHANGED <<waiting, jobs, broadcasts>>

disconnect_confirm(c, data) ==
  LET b == Number(data) IN
  /\ Name(data) = <<"client", "bot", "disconnect_confirm">>
  /\ IF b \in list_by_client(c)
       THEN SetBot(b, "DISCONNECTED") /\ Draw(client_bot_detail_keyboard(b, "DISCONNECTED"))
       ELSE UNCHANGED bots /\ Draw(back_to_client_home_keyboard)
  /\ UNCHANGED <<waiting, jobs, broadcasts>>

\* Who taps is a client from then on, the owner too; who is suspended is told so.
ClientTaps(data) ==
  LET cs == resolve_or_create_client
      c == client_of(cs) IN
  /\ counted = NoCount /\ data \in screen /\ Name(data) \in ClientHandlers
  /\ clients' = cs
  /\ \/ /\ cs[c].status = "SUSPENDED"
        /\ Draw({})
        /\ UNCHANGED waiting /\ SameRows
     \/ /\ cs[c].status = "ACTIVE"
        /\ \/ show_client_screen(c, data) \/ show_owner_home(data)
           \/ connectbot(data) \/ token_ready(data) \/ cancel_connection(data)
           \/ reconnect(c, data) \/ confirm(c, data) \/ retry(c, data)
           \/ disconnect_confirm(c, data)
  /\ walk' = NoWalk
  /\ UNCHANGED <<search_state, counted, changes>>

----------------------------------------------------------------------------
(* The owner's taps.                                                        *)

RowsOf(list) ==
  CASE list[2] = "clients"    -> DOMAIN clients
    [] list[2] = "bots"       -> DOMAIN bots
    [] list[2] = "jobs"       -> JobRowsOf(list[3])
    [] list[2] = "broadcasts" -> BroadcastRowsOf(list[3])
    [] list[2] = "campaign"   -> ActiveBots

\* A page as it is read, and as many pages as were counted before.
list_clients(page) ==
  owner_clients_list_keyboard(page, total_pages(counted.total), Newest(DOMAIN clients, page))
list_bots(page) ==
  owner_bots_list_keyboard(page, total_pages(counted.total), Newest(DOMAIN bots, page), 0)
list_jobs(filter, page) ==
  owner_jobs_list_keyboard(page, total_pages(counted.total),
                           Newest(JobRowsOf(filter), page), filter)
list_broadcasts(filter, page) ==
  owner_broadcasts_list_keyboard(page, total_pages(counted.total),
                                 Newest(BroadcastRowsOf(filter), page), filter)

summary(s) ==
  CASE s = "clients"     -> owner_clients_summary_keyboard
    [] s = "bots"        -> owner_bots_summary_keyboard
    [] s = "jobs"        -> owner_jobs_summary_keyboard
    [] s = "queue"       -> owner_queue_keyboard
    [] s = "broadcasts"  -> owner_broadcasts_summary_keyboard
    [] s = "systemstats" -> owner_systemstats_keyboard

\* The screens that only show something, by the section of the data.
client_section(data) ==
  LET c == Number(data) IN
  CASE data[3] = "view" -> owner_client_detail_keyboard(c, clients[c].status = "SUSPENDED")
    [] data[3] = "suspend" -> owner_client_suspend_confirm_keyboard(c)
    [] data[3] = "reactivate" -> owner_client_reactivate_confirm_keyboard(c)

clients_section(data) == IF Len(data) = 2 THEN summary("clients") ELSE list_clients(data[4])

bots_section(data) ==
  CASE Len(data) = 2 -> summary("bots")
    [] Len(data) = 4 /\ data[3] = "page" -> list_bots(data[4])
    [] Len(data) = 4 /\ data[3] = "client" ->
         owner_bots_list_keyboard(1, 1, list_by_client(data[4]), data[4])

jobs_section(data) ==
  IF Len(data) = 2 THEN summary("jobs") ELSE list_jobs(data[3], data[4])

job_section(data) ==
  IF data[3] = "view"
    THEN owner_job_detail_keyboard(data[4], jobs[data[4]] \in {"FAILED", "RETRYING"})
    ELSE owner_job_retry_confirm_keyboard(data[4])

broadcasts_section(data) ==
  IF Len(data) = 2 THEN summary("broadcasts") ELSE list_broadcasts(data[3], data[4])

campaign_section(data) ==
  CASE data[3] = "start"   -> audience_keyboard
    [] data[3] = "list"    -> campaigns_keyboard
    [] data[3] = "botlist" -> bot_list_keyboard(data[4])
    [] data[3] = "view"    -> {data}
    [] data[3] \in {"owners", "all", "bot"} -> {}

owner_screen(data) ==
  CASE data[2] = "clients"    -> clients_section(data)
    [] data[2] = "client"     -> client_section(data)
    [] data[2] = "bots"       -> bots_section(data)
    [] data[2] = "bot"        -> owner_bot_detail_keyboard(data[4])
    [] data[2] = "jobs"       -> jobs_section(data)
    [] data[2] = "job"        -> job_section(data)
    [] data[2] \in {"queue", "systemstats"} -> summary(data[2])
    [] data[2] = "broadcasts" -> broadcasts_section(data)
    [] data[2] = "broadcast"  -> owner_broadcast_detail_keyboard(data[4])
    [] data[2] = "campaign"   -> campaign_section(data)
OwnerChanges ==
  {<<"owner", s, "search">> : s \in {"clients", "bots"}}
    \cup {<<"owner", "client", s>> : s \in {"suspend_confirm", "reactivate_confirm"}}
    \cup {<<"owner", "job", "retry_confirm">>, <<"owner", "search", "cancel">>}

show_owner_screen(data) ==
  /\ Name(data) \in OwnerHandlers \ OwnerChanges
  /\ Draw(owner_screen(data))
  /\ UNCHANGED <<tables, search_state>>

ask_for_search(data) ==
  /\ Len(data) = 3 /\ data[3] = "search"
  /\ search_state' = IF data[2] = "clients" THEN "WAITING_FOR_CLIENT_SEARCH"
                                            ELSE "WAITING_FOR_BOT_SEARCH"
  /\ Draw(cancel_search_keyboard)
  /\ UNCHANGED tables

cancel_search(data) ==
  /\ Name(data) = <<"owner", "search", "cancel">>
  /\ search_state' = "NONE"
  /\ Draw(back_to_owner_home_keyboard)
  /\ UNCHANGED tables

\* A client who is suspended already stays so.
suspend_client(data) ==
  /\ Name(data) = <<"owner", "client", "suspend_confirm">>
  /\ clients' = [clients EXCEPT ![Number(data)].status = "SUSPENDED"]
  /\ Draw(owner_client_detail_keyboard(Number(data), TRUE))
  /\ SameRows /\ UNCHANGED search_state

reactivate_client(data) ==
  /\ Name(data) = <<"owner", "client", "reactivate_confirm">>
  /\ clients' = [clients EXCEPT ![Number(data)].status = "ACTIVE"]
  /\ Draw(owner_client_detail_keyboard(Number(data), FALSE))
  /\ SameRows /\ UNCHANGED search_state

\* Mutant: a job is put into the queue of jobs nothing claims.
Requeue(data) ==
  /\ Name(data) = <<"owner", "job", "retry_confirm">>
  /\ jobs' = [jobs EXCEPT ![Number(data)] = "QUEUED"]
  /\ Draw(owner_jobs_summary_keyboard)
  /\ UNCHANGED <<clients, bots, broadcasts, search_state>>
retry_job(data) ==
  LET j == Number(data) IN
  /\ Name(data) = <<"owner", "job", "retry_confirm">>
  /\ jobs' = IF jobs[j] \in {"FAILED", "RETRYING"} THEN [jobs EXCEPT ![j] = "PENDING"] ELSE jobs
  /\ Draw(owner_jobs_summary_keyboard)
  /\ UNCHANGED <<clients, bots, broadcasts, search_state>>

RowButtons ==
  {<<"owner", s, "view">> : s \in {"client", "bot", "job", "broadcast"}}
    \cup {<<"owner", "campaign", "bot">>}

\* The owner has opened page n of a list.
Walked(list, n) ==
  LET rows == RowsOf(list)
      inOrder == walk.list = list /\ walk.page = n - 1
      grew == list \in CountedLists /\ Cardinality(rows) > counted.total
      ids == {i \in rows : \E data \in owner_screen(Append(list, n)) :
                             Name(data) \in RowButtons /\ Number(data) = i}
      last == Append(list, n + 1) \notin owner_screen(Append(list, n)) IN
  CASE n = 1 -> [list |-> list, page |-> 1, shown |-> ids, first |-> rows, rows |-> rows,
                 left |-> FALSE, grew |-> grew, last |-> last]
    [] n # 1 /\ inOrder -> [walk EXCEPT !.page = n, !.shown = @ \cup ids, !.rows = rows,
                                        !.left = @ \/ ~(walk.rows \subseteq rows),
                                        !.grew = grew, !.last = last]
    [] n # 1 /\ ~inOrder -> NoWalk

OwnerTaps(data) ==
  /\ counted = NoCount /\ who = Owner /\ data \in screen
  /\ Name(data) \in OwnerHandlers \ CountedLists
  /\ \/ show_owner_screen(data) \/ ask_for_search(data) \/ cancel_search(data)
     \/ suspend_client(data) \/ reactivate_client(data) \/ retry_job(data)
  /\ walk' = IF Name(data) \in Lists THEN Walked(Name(data), Number(data)) ELSE NoWalk
  /\ UNCHANGED <<waiting, counted, changes>>

\* A page of a list: the count, and, when others may have written, the page.
count_rows(data) ==
  /\ counted = NoCount /\ who = Owner /\ data \in screen /\ Name(data) \in CountedLists
  /\ counted' = [data |-> data, total |-> Cardinality(RowsOf(Name(data)))]
  /\ UNCHANGED <<tables, screen, waiting, search_state, walk, changes>>

fetch_page ==
  LET data == counted.data IN
  /\ counted # NoCount
  /\ show_owner_screen(data)
  /\ walk' = Walked(Name(data), Number(data))
  /\ counted' = NoCount
  /\ UNCHANGED <<waiting, changes>>

----------------------------------------------------------------------------
(* Commands and texts.                                                      *)

start ==
  LET cs == resolve_or_create_client
      c == client_of(cs) IN
  /\ IF who = Owner
       THEN Draw(owner_home_keyboard) /\ UNCHANGED <<clients, waiting>>
       ELSE /\ clients' = cs
            /\ Wait(NoBot)
            /\ Draw(CASE cs[c].status = "SUSPENDED" -> {}
                         [] cs[c].status = "ACTIVE" /\ list_by_client(c) = {} -> new_client_keyboard
                         [] cs[c].status = "ACTIVE" /\ list_by_client(c) # {} -> client_home_keyboard)
  /\ SameRows /\ UNCHANGED search_state

cancel ==
  /\ IF who = Owner
       THEN search_state' = "NONE" /\ UNCHANGED waiting /\ Draw(back_to_owner_home_keyboard)
       ELSE Wait(NoBot) /\ UNCHANGED search_state /\ Draw(back_to_client_home_keyboard)
  /\ UNCHANGED tables

\* /clients and the like, /sendbroadcast, /campaigns.
owner_command(s) ==
  /\ Draw(CASE who # Owner -> {}
               [] who = Owner /\ s = "sendbroadcast" -> audience_keyboard
               [] who = Owner /\ s = "campaigns" -> campaigns_keyboard
               [] who = Owner /\ s \notin {"sendbroadcast", "campaigns"} -> summary(s))
  /\ UNCHANGED <<tables, waiting, search_state>>

command_screen(c, s) ==
  LET mine == list_by_client(c) IN
  CASE s = "connectbot" -> botfather_guide_keyboard
    [] s = "mybots" -> client_mybots_keyboard(mine)
    [] s = "botstatus" ->
         (CASE mine = {} -> client_home_zero_bots_keyboard
            [] Cardinality(mine) = 1 -> client_bot_detail_keyboard(Max0(mine), "ACTIVE")
            [] Cardinality(mine) > 1 -> client_mybots_keyboard(mine))
    [] s = "disconnectbot" ->
         (CASE mine = {} -> back_to_client_home_keyboard
            [] Cardinality(mine) = 1 -> client_disconnect_confirm_keyboard(Max0(mine))
            [] Cardinality(mine) > 1 -> client_mybots_keyboard(mine))
    [] s = "account" -> back_to_client_home_keyboard
    [] s = "help" -> IF who = Owner THEN back_to_owner_home_keyboard
                                  ELSE back_to_client_home_keyboard
    [] s = "unknown" -> {}

client_command(s) ==
  LET cs == resolve_or_create_client
      c == client_of(cs)
      suspended == cs[c].status = "SUSPENDED" IN
  /\ clients' = cs
  /\ IF s = "connectbot" /\ ~suspended THEN Wait(NoBot) ELSE UNCHANGED waiting
  /\ Draw(IF suspended THEN {} ELSE command_screen(c, s))
  /\ SameRows /\ UNCHANGED search_state

\* The rows a search finds, at most twenty of them, are any.
search(found) ==
  /\ search_state # "NONE"
  /\ search_state' = "NONE"
  /\ Draw(IF search_state = "WAITING_FOR_CLIENT_SEARCH"
                   THEN owner_clients_list_keyboard(1, 1, found \cap DOMAIN clients)
                   ELSE owner_bots_list_keyboard(1, 1, found \cap DOMAIN bots, 0))
  /\ UNCHANGED <<tables, waiting>>

other_text ==
  /\ IF who = Owner THEN search_state = "NONE" ELSE waiting = NoBot
  /\ Draw(IF who = Owner THEN owner_home_keyboard ELSE client_home_keyboard)
  /\ UNCHANGED <<tables, waiting, search_state>>

\* A text while a token is waited for.  The token is none, or the wrong bot's;
\* or of bot b, 0 for one that has no row.  The status of the client is not
\* looked at.
token(b) ==
  LET cs == resolve_or_create_client
      c == client_of(cs)
      again == waiting # 0 IN
  /\ who # Owner /\ waiting # NoBot
  /\ clients' = cs
  /\ \/ Draw(token_prompt_keyboard) /\ UNCHANGED waiting
     \/ /\ again => b = waiting
        /\ Wait(NoBot)
        /\ Draw(
             CASE again \/ b = 0 -> client_connect_confirm_keyboard(b)
               [] ~again /\ b # 0 /\ b \notin list_by_client(c) -> back_to_client_home_keyboard
               [] ~again /\ b \in list_by_client(c) ->
                    IF bots[b].status = "ACTIVE" THEN client_bot_detail_keyboard(b, "ACTIVE")
                                                 ELSE client_connect_confirm_keyboard(b))
  /\ SameRows /\ UNCHANGED search_state

PersonWrites ==
  /\ counted = NoCount
  /\ \/ start \/ cancel
     \/ \E s \in {"clients", "bots", "jobs", "queue", "broadcasts", "systemstats",
                  "sendbroadcast", "campaigns"} : owner_command(s)
     \/ \E s \in {"connectbot", "mybots", "botstatus", "disconnectbot", "account", "help",
                  "unknown"} : client_command(s)
     \/ \E found \in SUBSET (1..Max0({Len(clients), Len(bots)})) : who = Owner /\ search(found)
     \/ other_text
     \/ \E b \in 0..Len(bots) : token(b)
  /\ walk' = NoWalk
  /\ UNCHANGED <<counted, changes>>

----------------------------------------------------------------------------
(* Meanwhile.                                                               *)

\* A worker, or the maintenance cycle, gets on with a job or a broadcast.
job_moves(j) ==
  \E s \in CASE jobs[j] \in {"PENDING", "RETRYING"} -> {"RUNNING"}
             [] jobs[j] = "RUNNING" -> {"COMPLETED", "FAILED", "RETRYING"}
             [] jobs[j] \in {"COMPLETED", "FAILED"} -> {} :
    jobs' = [jobs EXCEPT ![j] = s] /\ UNCHANGED broadcasts

broadcast_moves(b) ==
  \E s \in CASE broadcasts[b] = "PENDING" -> {"RUNNING", "FAILED"}
             [] broadcasts[b] = "RUNNING" -> {"COMPLETED", "PARTIAL", "FAILED"}
             [] broadcasts[b] \in {"COMPLETED", "PARTIAL", "FAILED"} -> {} :
    broadcasts' = [broadcasts EXCEPT ![b] = s] /\ UNCHANGED jobs

row_is_made ==
  \/ jobs' = Append(jobs, "PENDING") /\ UNCHANGED broadcasts
  \/ broadcasts' = Append(broadcasts, "PENDING") /\ UNCHANGED jobs

\* Somebody else registers, connects a bot or loses one; or the owner suspends a
\* client.
others_change ==
  \/ \E u \in People \ {who} :
       /\ \A c \in DOMAIN clients : clients[c].user # u
       /\ clients' = Append(clients, [user |-> u, status |-> "ACTIVE"])
       /\ UNCHANGED bots
  \/ \E c \in DOMAIN clients, s \in ClientStatuses :
       /\ who # Owner
       /\ clients' = [clients EXCEPT ![c].status = s]
       /\ UNCHANGED bots
  \/ \E c \in DOMAIN clients :
       /\ clients[c].user # who /\ Len(bots) < MaxBots
       /\ bots' = Append(bots, [client |-> c, status |-> "PROVISIONING"])
       /\ UNCHANGED clients
  \/ \E b \in DOMAIN bots, s \in BotStatuses :
       /\ IF clients[bots[b].client].user = who THEN bots[b].status = "ACTIVE" /\ s = "INVALID_TOKEN"
                                                ELSE TRUE
       /\ SetBot(b, s)
       /\ UNCHANGED clients

Meanwhile ==
  /\ changes < MaxChanges
  /\ changes' = changes + 1
  /\ \/ /\ who = Owner    \* a client's screens show none of it
        /\ \/ \E j \in DOMAIN jobs : job_moves(j)
           \/ \E b \in DOMAIN broadcasts : broadcast_moves(b)
           \/ row_is_made
        /\ UNCHANGED <<clients, bots>>
     \/ others_change /\ UNCHANGED <<jobs, broadcasts>>
  /\ UNCHANGED <<screen, waiting, search_state, counted, walk>>

ScreensNext ==
  /\ \/ PersonWrites
     \/ \E data \in screen : ClientTaps(data) \/ OwnerTaps(data) \/ count_rows(data)
     \/ fetch_page
     \/ Meanwhile
  /\ UNCHANGED who

ScreensSpec == ScreensInit /\ [][ScreensNext]_screensVars

----------------------------------------------------------------------------
\* What is under a message is answered when it is tapped, however late: the
\* router has a handler for the data, the row it names is there, and only the
\* owner is shown the owner's buttons.  0 is the bot of a connection that came
\* to nothing, whose "Retry Setup" fails for ever.
EveryButtonAnswered ==
  \A data \in screen :
    LET named(rows) == Len(data) = 4 => Number(data) \in DOMAIN rows IN
    \/ Name(data) \in Lists /\ who = Owner /\ Number(data) > 0
    \/ /\ Name(data) \in OwnerHandlers /\ who = Owner
       /\ CASE data[2] = "client" -> named(clients)
            [] data[2] = "bots" -> named(clients)
            [] data[2] = "bot" -> named(bots)
            [] data[2] = "job" -> named(jobs)
            [] data[2] = "broadcast" -> named(broadcasts)
            [] data[2] = "campaign" /\ data[3] = "bot" -> named(bots)
            [] OTHER -> TRUE
    \/ /\ Name(data) \in ClientHandlers
       /\ Len(data) = 4 /\ Number(data) # 0 => Number(data) \in DOMAIN bots

\* A client is shown no bot but its own, whoever connects, disconnects or loses
\* which: the tenancy of list_by_client and get_by_id_and_client.
OwnBotsOnly ==
  who # Owner => \A data \in screen :
    Len(data) = 4 => \/ Number(data) = 0
                     \/ bots[Number(data)].client = client_of(clients)

\* Who leafs through a list from its first page to the one without a "Next" has
\* been shown every row it had at first, whatever came in between the pages, unless a
\* row left it, or one came in between the count and the page of that last screen: the
\* offsets of list_paginated against its newest-first order and the number of pages.
EveryRowListed == walk.last /\ ~walk.left /\ ~walk.grew => walk.first \subseteq walk.shown
=============================================================================
