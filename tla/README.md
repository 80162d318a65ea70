# Control Hub Bot: a verification development

Control Hub Bot is a multi-tenant Telegram platform (FastAPI, PostgreSQL through
SQLAlchemy, Redis). Clients connect their own bots in the Control Hub; a bot's
owner posts videos, a worker turns a video into a preview with an unlock link, and
the preview is broadcast to the bot's viewers. This directory holds TLA+ modules of
the parts where several processes or several updates meet on the same rows and
keys, the TLC configurations that check them, and TLAPS proofs. File and line
references are to `src/`; `app/` is short for `src/app/`.

## 1. The system

### 1.1 Processes

| Process | Entry point | What it does |
| --- | --- | --- |
| API | `app/main.py`, `app/api/routes/` | receives webhooks, runs the bots' handlers, one session per update, several updates at a time |
| workers | `app/workers/worker_entrypoint.py` | one loop per queue: new session, claim, process, sleep |
| scheduler | `app/workers/scheduler_entrypoint.py` | every 30 s a maintenance cycle (`workers/maintenance.py`) |

`deploy/scripts/deploy.sh` scales the worker of the LIVE queue to several
processes; the other queues and the scheduler have one container each in
`deploy/docker-compose.prod.yml`. The code does not count on there being one:
nothing keeps a second process off a queue. Processes share nothing but the
database and Redis, so every interaction between them is through rows, row locks,
keys and the order of commits.

### 1.2 Components

| Component | State | Hard part | What makes it correct | Module |
| --- | --- | --- | --- | --- |
| Background jobs (`repositories/job.py`) | `background_jobs` rows | statuses are written over whatever the row says | a job is worked on by one worker unless it was taken for lost | `JobRows`, part of the modules of its users |
| LIVE broadcast queue (`workers/live_broadcast.py`) | `broadcasts.status`, the claimed job | two workers, stale copies, a worker that stops or is late | one broadcast per bot at a time; what is over stays over; every broadcast ends | `BroadcastQueue`, `LiveQueue` |
| LIVE broadcast run (`services/broadcast_service.py`) | snapshot, cursor, counts, `broadcast_deliveries`, viewers | a page is one transaction, sending is not part of it | the cursor passes over nobody; the counts are those of the records; over means everybody was reached | `BroadcastRun` |
| Maintenance (`jobs/recovery.py`) | none of its own | reads without locks and writes by key | it repairs and breaks nothing | part of each component's module |
| Video processing (`services/video_processing_service.py`) | video and processing rows, link, broadcast | crash between steps, two workers on one job, the cycle's repairs | one broadcast per published video, one link per video | `VideoPipeline` |
| Upload sessions and drafts (`services/video_creation_service.py`, `video_collection_service.py`) | modes in Redis, `video_collections`, `videos` | updates out of order, resent, two at once | one draft; no video lost or stored in a closed mode | `Upload` |
| Unlocking (`services/viewer_unlock_service.py`, `workers/collection_delivery.py`) | deliveries, receipts, the job of an unlock | taps at once, answers that are lost | one job per unlock; items in order | `CollectionDelivery` |
| Owner campaigns (`services/message_campaign_service.py`, `workers/owner_message_campaign.py`) | `message_campaigns`, receipts | shares the LIVE worker's loop and catches nothing; sends again what it was told had failed | every client it was made for is dealt with | `OwnerCampaign`, `Announcement` |
| Catch-up (`services/catchup_service.py`, `workers/catchup_worker.py`) | `viewer_catchup`, receipts, jobs | gives way to LIVE broadcasts, is re-queued by maintenance | every older video once, none between the two ways | `Catchup` |
| Connection of bots (`control_hub/router.py`, `client_bot_connection_service.py`, `client_bot_provisioning_service.py`) | `client_bots`, webhook secrets, the conversation in Redis and in memory | partial failure between Telegram and the row, two processes | an ACTIVE bot's webhook has its secret; a token only if asked for | `ControlHub` |
| Settings and composing (`telegram/campaign_flow.py`, `client_bot/admin/`) | three keys of Redis, settings, campaigns | updates served at once, handlers that die | one campaign per message, as composed; a text only where asked for | `AdminChat` |
| Control Hub screens (`control_hub/router.py`, `keyboards.py`) | the buttons under a message | rows change after a button is drawn, and between the count and the page of a list | every button answered; own bots only; no row missed | `HubScreens` |
| Viewers (`services/viewer_service.py`) | `viewers` | blocked and returning viewers | | part of `BroadcastRun`, `Catchup`, `CollectionDelivery` |
| Webhooks, update deduplication (`api/routes/`, `client_bot/dispatcher.py`) | keys in Redis | a handler that fails after the key is set | an update is handled once or again | part of `Upload`, `AdminChat`, `ControlHub` |
| Rate limiters | clocks and locks of one process | waits under a lock | never faster than the limits | not modelled |

Sections 5.1 and 5.2 say what is left out and why.

## 2. The modules

| Module | Kind |
| --- | --- |
| `JobRows` | operators: a row of `background_jobs` and what the functions of the repository and of the recovery do to it |
| `BroadcastQueue`, `OwnerCampaign`, `CollectionDelivery`, `VideoPipeline`, `Catchup` | state machines, extend `JobRows` |
| `BroadcastRun`, `ControlHub`, `Upload`, `AdminChat`, `HubScreens` | state machines |
| `LiveQueue` | abstract specification, implemented by `BroadcastQueue` |
| `Announcement` | abstract specification, implemented by `OwnerCampaign` |
| `Chats` | composes `AdminChat` and `HubScreens`: they share nothing, and a behaviour is of the one or of the other |
| `MC...` | instances for TLC: constants, fault limits, symmetry, views |
| `BroadcastQueueProofs`, `BroadcastRunProofs`, `VideoProofs`, `CollectionDeliveryProofs`, `OwnerCampaignProofs`, `CatchupProofs`, `ChatsProofs`, `ControlHubProofs` | theorems and their proofs |

Common to all: an action is one transaction, or one transaction's read where the
code acts on what it read without holding a lock, or one command of Redis. `pc`
(or the `pc` of a request) says where a process is; the other variables of a
process are what it remembers. What goes wrong is counted: `faults` says how often
each kind has happened, `Limit` (and `MaxFaults`) how often it may. History
variables are marked as such where they are declared.

Sessions are created with `expire_on_commit=False` (`app/db/session.py:36`) and a
worker uses one session from the claim to the end of the job
(`worker_entrypoint.py:43-53`), so it goes on with the rows as it loaded them, and a
flush writes the columns whose value changed in that copy. Most of what is hard in
the workers comes from it: the claim looks at the database, the run at the copy.

### 2.1 `BroadcastQueue` and `LiveQueue`

A broadcast is named together with its job. The state is that of the rows (`bot`, `bc`,
`snapped`, `job`) and what each process remembers: the broadcast a worker holds
(`hold`), its status in the session's copy (`seen`), the stale rows the maintenance
cycle has read (`scan`) and the rows an owner's retry has read (`pressed`). The claim is
one action because it locks the job (`SKIP LOCKED`), the bot and the broadcast before it
decides. The maintenance cycle is two (`get_stale_running_jobs` reads,
`recover_stale_running_jobs` writes by key), and so is the owner's retry, which is
offered for every kind of job and is in `OwnerCampaign`, `Catchup` and
`CollectionDelivery` too. A run can find the broadcast terminal, load it, fail the
preflight, start, find nobody, fail to fetch a campaign's media, commit pages, end and
report to the job; it can raise (`RunRaises`) or die (`Crash`) anywhere. A page is one
step here. The missing-entities path cannot be taken, the foreign keys of a broadcast
being RESTRICT.

`LiveQueue` says what the queue promises, without jobs, copies or recovery: a
broadcast waits, goes and is over; a worker has one at a time and takes none that
another has or while one of the same bot goes; only who has it ends it. A broadcast
loosened under its worker, the one thing that breaks this, may be taken by a second
worker and revived after its end. `BroadcastQueue` implements it with the broadcast's
status for the stage, `hold` for who has it and `handed` for what is loose.

### 2.2 `BroadcastRun`

One broadcast's run at the level of viewers: the broadcast's row with its snapshot
(`max`, `total`), cursor and counts, the delivery records, and for each worker its
copy of the row, its page and what it has written but not committed. `sends`
counts the messages a viewer received. A page is fetched, each of its viewers is
looked up (`CheckDelivery`), sent to (`Send`) and recorded (`RecordDelivery`), and
the page is committed with its counts and cursor (`CommitPage`). Between any two of
these the worker can die, another can work on the same broadcast, and viewers can
join, leave and come back. `Flush` is the rule of the session: a column is written
if it differs in the copy from what was loaded. Two writers of one record meet as
PostgreSQL lets them: a write waits for the other transaction, an insert that loses
against the unique key (`broadcast_delivery.py:39`) breaks the session
(`InsertConflicts`). A campaign's broadcast takes the same path
(`broadcast_service.py:275-309`). Abstractions: the two queries of the snapshot are
one step; which worker may claim is a counted fault here.

### 2.3 `VideoPipeline`

A processing run is one transaction: `process_video` never commits, only the
worker does, before it and after it (`video_processing.py:50`, `:60`). So the
statuses in between are never seen, and a worker that dies leaves nothing but a
RUNNING job. The first `update_progress` flushes, and its UPDATE holds the
processing row until the commit: `LockProcessing` and `ProcLocked`. What the run
decides by was read before it waited for that lock (`LoadVideo`, `AlreadyReady`);
the link and the broadcast are looked up after it. A worker lists jobs without a
lock and begins each without another look (`BeginJob`), so two may be on one job.
The maintenance cycle is one transaction too: `Reconcile` and `CommitCycle`, the
rows it has written locked in between. Videos are of three kinds: single,
collection and link-only. `QueueStep` stands for what `BroadcastQueue` models.

### 2.4 `OwnerCampaign` and `Announcement`

A campaign has one job and is named with it. `client`, `row`, `receipt` are rows;
`copy`, `cursor`, `todo`, `prior`, `result` are what a worker of a campaign has in
hand. The claim takes a lock of the platform owner's row, and no campaign is
claimed while a job of one is RUNNING (`NoneRunning`). The worker catches nothing
but Telegram's answers: whatever raises leaves the job RUNNING until it is stale.
After the pages the failed receipts are tried again (`retrying`, `resent`), those among
them whose message arrived while its answer did not (`"lost"`: any exception counts as
failed, a timeout too).
`Announcement` says what a mass message promises, whatever sends it: an audience,
fixed when it is announced; people are dealt with and stay so; it is over only when
all of its audience who are still there are dealt with. `OwnerCampaign` implements
it with `stage`, `audience` and `dealt` read from the row's status, from the
clients ACTIVE since the creation, and from the receipts.

### 2.5 `Catchup`

How a bot's videos reach one viewer: by the LIVE broadcasts that start while the
viewer is there, and by the catch-up that /start sets up for the older ones.
Viewers share nothing here but the bot, so there is one. /start reads, draws up
the boundary of the catch-up and commits (three steps, `StartReads`,
`initialize_or_resume_catchup`, `StartCommits`). A batch is one transaction after
its beginning; the worker asks for LIVE work when it begins and before each send,
and a catch-up that gives way ends its job, so that only the maintenance cycle
brings it back (`reconcile_stalled_catchups`). A message whose answer is lost arrives and
is recorded FAILED, by a broadcast and by a batch, and only SENT keeps a video from
being sent again. A LIVE broadcast is what
`BroadcastQueue` and `BroadcastRun` say, seen by one viewer: due, sending to the
others or to this one, over. Broadcasts and batches of other viewers are left out.

### 2.6 `CollectionDelivery`

One viewer taps one link, several times at once. A single video is sent by the
request itself; a collection by a worker, its items one by one. A tap reads, waits
for the lock of the viewer's row, looks for the unlock's job and makes or re-arms
it. The job is found by a deduplication key that no constraint keeps unique: the
row lock does. The receipts' INSERTs wait for each other on their unique key
(`InsertWaits`), and an insert that loses raises.

### 2.7 `ControlHub`

A client asks to connect a bot, sends the token, confirms; or reconnects, retries the
setup, disconnects. Where it is in the conversation is kept in Redis and in the memory
of the process that set it; what the bot is, in its row; and what Telegram was told, in
`hook`. Every handler but /cancel and the first lines of /start and of a plain text
begins with an UPDATE of the client's row, whose lock it keeps until it commits: a
request has `read`, or is at `work` and has done everything but commit. What it did at
Telegram is done even if it is rolled back. A call to Redis may fail, and the code goes
on without it (`RedisFails`): a step that is set or cleared is so in the memory of one
process only, a text is judged by that memory, a ticket is not found or not deleted. A
ticket Redis fails to store is one the other process does not find: `Refused` has it,
and not that the process which kept it may.

### 2.8 `Upload`

One admin's videos and commands, delivered in any order, resent if not answered, several
served at once: the router, the sessions of the two delivery modes in Redis, the drafts
of collections, the storing of a video, the deduplication before it all. A handler is a
list of operations to go through. One that raises releases the update's key only if the
router had it already: before that, the query for the administrator is outside the `try`
(`RoleRaises`, `dispatcher.py:116-120`). Abstractions: of the feedback only whether a
video is counted; a row's check and its insert are one step (the row's key is the
message, whose update is deduplicated); a draft's expiry is a step of the environment;
the bot is ACTIVE and the admin authorized; `flush_due` only redraws messages; the
fallbacks for Redis being down are left out.

### 2.9 `AdminChat`

The prompts whose answer is the next text: the owner, in the Control Hub, or the
owner of one bot, in that bot, composes a broadcast or changes a text or the
sponsor's link. Three keys of Redis say what was asked for; a handler looks at one
after the other, works in a session, commits, clears. `chat` is which of the two
chats it is, chosen at first; they differ in which keys they have. A text for a broadcast
is written into the draft (`receive`), and then its preview is sent (`preview`), which may
fail. Abstractions:
the look and the clear of /cancel are one step; ALL_VIEWERS and OWNERS are treated
alike by the code; the fallbacks for Redis being down are left out; the branch of
`get_or_create` that inserts a settings row cannot be reached, because connecting a
bot writes the row.

### 2.10 `HubScreens`

Every keyboard of the Control Hub, every handler of a tap, the commands and the
search prompt. A button is the sequence of the parts of its callback data, a screen
the set of its buttons. One person has one message: a command draws it anew, a tap
edits it. What others and the workers do between a screen and a tap is `Meanwhile`.
A handler is one step here, what may happen inside one being the subject of `ControlHub`
and `BroadcastQueue`; but a page of a list is two (`count_rows`, `fetch_page`): the rows are
counted and the page is read in two statements, and under READ COMMITTED each sees what
has been committed by then.

## 3. What is checked

| Run | Instance | Checks |
| --- | --- | --- |
| `queue_safety` | 1 bot, 2 broadcasts, 2 workers, 2 attempts, any three of a crash, a stall, a raise and a retry | `TypeOK`, `NoUnexplainedDoubleRun`, `OneLivePerBotUnlessHanded`, `KeepsPromise`, `EveryBroadcastSettles` |
| `run_takeover` | 3 viewers, pages of 1, 2 workers, a takeover and two crashes | `TypeOK`, `CursorCoversSteady`, `ResentOnlyAfterFault` |
| `run_reaches` | 3 viewers, pages of 2, 1 worker, a crash, a leave, a return and a join | `CountsMatchRecords`, `OverMeansReached`, `EveryTargetReached` |
| `video_pipeline` | 1 video, 2 workers, a cycle, two crashes, an error and a handover, 2 attempts | `OneOfEach`, `EveryVideoSettles` |
| `owner_campaign` | 1 campaign to 2 clients or 2 campaigns to 1, 2 workers, pages of 1, two faults of any kind, an owner's retry among them | `TypeOK`, `ResentOnlyAfterFault`, `KeepsPromise`, `EveryCampaignEnds` |
| `catchup` | 3 videos, the first and third broadcast before, batches of 2, one fault of any kind, and a second start or a retry | `LiveHasPriority`, `SentOnce`, `EveryCatchupEnds`, `NoVideoFallsBetween` |
| `collection` | 2 taps, at once or not, 2 workers, 2 items, a retry and two faults | `OneJobPerUnlock`, `ArriveInOrder`, `ResentOnlyAfterFault`, `DeliveriesAccounted`, `EveryTapServed` |
| `control_hub` | 1 client, 1 bot, 2 processes, 2 requests, 1 temporary id, one fault: a rollback, a restart or a failing call to Redis | `TypeOK`, `WebhookMatches`, `NeverLeftProvisioning`, `TakenOnlyIfAsked` |
| `upload` | 2 videos and 2 commands, 3 of them sent, 2 handlers, one fault | `UploadTypeOK`, `OneDraft`, `EveryVideoAccountedFor` |
| `chats` | 2 messages, 2 requests, one fault; or 2 persons, 2 rows per page, 4 jobs, one change | `ChatsTypeOK`, `OncePerMessage`, `SentAsComposed`, `StoredOnlyIfAsked`, `EveryButtonAnswered`, `OwnBotsOnly`, `EveryRowListed` |
| `queue_stranded` | one raise | violates `NoBroadcastStranded` |
| `video_link_only` | no fault | violates `LinkOnlyNotBroadcast` |

What they show, with the exceptions the properties name:

* `NoUnexplainedDoubleRun`, `OneLivePerBotUnlessHanded`, `KeepsPromise` of the queue:
  two workers are on one broadcast, two broadcasts of one bot are RUNNING, or a
  broadcast that is over runs again, only if the recovery or a retry made a job
  claimable under a worker (`handed`). `BroadcastQueue` implements `LiveQueue`, so
  `SettledStaysSettled` holds too.
* `EveryBroadcastSettles`: every broadcast ends unless a raise or used-up attempts
  strand one of its bot. It is not true of a takeover and a lost run together: the
  late worker marks the job COMPLETED that another has claimed, and if that one dies
  nobody claims it again.
* `CursorCoversSteady`: whoever has been ACTIVE since the snapshot and has an id up to
  the committed cursor has a delivery record, whatever a late worker wrote.
* `CountsMatchRecords`: without takeovers the counts are the records. With two workers
  each adds to its own copy and the later commit wins.
* `OverMeansReached`: a broadcast that is over, with nobody at work on it, has dealt with
  its snapshot. Two exceptions are real: a viewer who comes back or joins late makes
  up the count, the broadcast is COMPLETED early, and a crash then leaves a viewer
  unreached (`CameIn`); and a worker that was taken over before the snapshot may take
  it again, without the viewers whom the other has found BLOCKED but has counted,
  with the same effect (`takeover`).
* `OneOfEach`: no video has two broadcasts or two links, although no table has a
  unique key for either. What keeps workers apart is the lock of the processing row;
  what keeps the cycle apart from a worker is that the video is READY only in the
  commit that also brings the broadcast.
* `EveryVideoSettles`: every received video becomes READY or FAILED, also if the
  recovery gives its job up. A late failure may be written over READY.
* `KeepsPromise` of the campaigns: `OwnerCampaign` implements `Announcement`.
  `EveryCampaignEnds`: every campaign is over in the end, although one that is RUNNING keeps
  all others from being claimed; not over a crash and a takeover together, for the same
  reason as with the broadcasts.
* `LiveHasPriority`, `SentOnce`, `NoVideoFallsBetween`: LIVE broadcasts and catch-ups give
  way, send a video once between them, but for a crash, a rollback or a lost answer, once
  more for each, and lose none between the one's audience and the other's boundary.
* `OneJobPerUnlock`, `ArriveInOrder`, `DeliveriesAccounted`, `EveryTapServed`: one job however
  many taps, items in the creator's order, received is recorded but for a rollback or
  a lost answer, and who is told that the collection is being sent gets it.
* `ResentOnlyAfterFault` (of three modules): who has got a message n + 1 times has had it
  repeated for n faults. In `BroadcastRun` they are runs that were lost or taken over; a
  run sends nothing again that it was told had failed, so a lost answer repeats nothing.
  In `OwnerCampaign` the same run does, and in `CollectionDelivery` the next one: there
  they are crashes and lost answers, and the bound holds as long as no job was made
  claimable under a worker (`handed`), by the recovery, by the owner's retry, or by a tap
  on a job that is over while a late worker still is at it. TLC finds, beyond that, that
  one takeover can repeat a message more than once, because a late worker writes its
  FAILED over the SENT receipt of the other, and its RETRYING or COMPLETED over the
  other's job, which makes it claimable beside a run.
* `WebhookMatches`, `NeverLeftProvisioning`, `TakenOnlyIfAsked`: see section 4. Redis may have
  missed that a client was let off, because a call failed and was swallowed: then the key
  that is left takes a message for a token in every process (`unheard`). The 401 of an old
  token marks a bot INVALID_TOKEN that has been reconnected since
  (`video_delivery_service.py:127`).
* `OneDraft`, `EveryVideoAccountedFor`: one draft at most; a video that is answered is
  stored or collected in a mode that was open since it was sent, or refused in words. Two
  kinds of updates are lost, and excepted (`cutOff`): those whose handler died, and those
  whose handler raised before the router had them. Their key is left, and what Telegram
  delivers again is dropped as a duplicate.
* `OncePerMessage`, `SentAsComposed`, `StoredOnlyIfAsked`: one campaign per message; it goes to
  the audience chosen last, unless overlapping updates brought back a draft
  (`control_hub/campaigns.py:27`, `raced`), and has been shown in a preview, unless that was
  cut off or is still on its way: the draft is written first, so a preview that fails
  leaves what nobody saw, and the button under an older one sends it. A text is
  stored only where it was asked for; of two prompts that are open the handler's order
  decides, not the administrator's, which the property does not mind.
* `EveryButtonAnswered`, `OwnBotsOnly`, `EveryRowListed`: every button has its handler and its
  row; a client sees its own bots; leafing to the end of a list misses no row it had at
  first, with two exceptions. A row leaves the list between two pages, be it one that
  came in meanwhile: that moves the offsets. Or one comes in between the count and the
  page of the last screen: it pushes the oldest row off a page that says it is the last.
  A row that comes in between two screens only repeats another.

### 3.1 Where the code and what it says differ

| Run | Property | What the run shows |
| --- | --- | --- |
| `queue_stranded` | `NoBroadcastStranded` | A run that raises leaves its broadcast RUNNING under a FAILED job; no recovery looks for that, and the bot's next broadcasts wait behind it. `jobs/recovery.py:33` promises recovery of stranded operations. |
| `video_link_only` | `LinkOnlyNotBroadcast` | "Link-only videos cannot be broadcast" (`broadcast_creation_service.py:38`). The maintenance cycle looks for READY videos without a broadcast whatever their delivery mode, and queues one for all viewers. No fault is needed. |

Met while reading, without a run, because no line of the repository says otherwise
or because nothing is concurrent about them:

* rows stay behind: the job of a finished broadcast that is recovered into RETRYING, and
  the new job that a READY video's second processing gives to a broadcast that is over;
  no claim takes either;
* an owner who taps Home (`nav:owner_home`) is registered as a client and, once suspended
  as one, is refused there; a confirmation that found no bot shows "Retry Setup" for
  bot 0, which always fails (`control_hub/router.py:720`); /botstatus draws the keyboard
  of an ACTIVE bot whatever the status;
* an edit that changes nothing raises `TelegramAPIError` (`telegram/client.py:113`), so the
  update ends in an error, a rollback and another delivery;
* the text of a token is taken without a look at the client's status (the confirmation
  has one); the search prompt survives /start; `ClientStatus.DISABLED` is never set.

### 3.2 Bounds

Two workers (processes, handlers, requests, taps) are the smallest instance with a
second one, and two broadcasts of a bot the smallest with a blocked broadcast. With
pages of 1 there is a commit between any two viewers; with pages of 2 of 3 there are
full, partial and interrupted pages; `Old = {1, 3}` puts a video that is still to be
broadcast between two that a catch-up has to send. Faults of each kind are few, and
`MaxFaults` bounds their number together where their product would be too large; the
theorems of section 4 hold for any number. `MaxAttempts` is 2 where giving up is to be
seen and 4 in `owner_campaign`, where it is not; the code has 10. Three runs have a
constraint: `ThreeFaults` of `queue_safety` bounds its faults together; `TwoOfOne` of
`owner_campaign` has a second campaign, which waits for the first, only where there is
one client; `StartOrRetry` of `catchup` has a second /start or an owner's retry. They cut
off faults, requests and new campaigns, never a step under fairness. `MaxJobs` bounds the
jobs of a video, of which no behaviour of `video_pipeline` has a third, and in `catchup`
the unfinished jobs of the viewer, which never reach it: nothing waits for a place. In
`control_hub` a bot, a temporary id and a client suffice for the races of two handlers;
several clients on one bot are covered by the theorems. `PageSize = 2` with
four RUNNING jobs gives the lists of `HubScreens` a full second page, so that a row that
comes in pushes one off it, and `MaxChanges = 1` a change between any two screens, or
between the count and the page of one.

Symmetry is used only in runs without liveness properties. `VIEW Relevant` of
`control_hub` identifies states that differ in what a process remembers of
PREPARING_TO_CONNECT_BOT, which no step tells apart from nothing; that of `upload`
drops what an answered command was and whether an answered update has its key, which
no step reads again.

Deadlock is checked in `queue_safety`, `control_hub`, `upload` and `chats`. The other
models really stop when everything is over and no fault is left.

### 3.3 Fairness

A worker's loop polls for ever (`worker_entrypoint.py:38-87`), so claims and the steps of
a run are weakly fair, a step that can fail being fair whatever comes of it; the ids up
to a snapshot being finite, pages end. The scheduler runs its cycle every 30 s. Time
passes, so a job without a worker becomes stale and a backoff ends. Nothing is assumed
of bots, owners, viewers or faults, and nothing of a worker that is lost. The steps of
a tap and of a /start that were begun go on, and in `Catchup` so does an owner's retry that
has read its row. In
`BroadcastRun` some worker claims the job of a RUNNING broadcast nobody works on, and
in `VideoPipeline` and `Catchup` broadcasts go on: `queue_safety` shows that for crashes.
`ControlHub`, `Upload`, `AdminChat` and `HubScreens` have no liveness properties: their
handlers run to an end once called.

## 4. What is proved

For any constants that satisfy the named assumptions of the modules, and so for any
number of bots, broadcasts, viewers, videos, workers, requests, attempts and faults,
and any size of a page (`NoneNotBroadcast` and the like only keep a "none" apart
from what it stands for; `MaxSecret >= 3` gives a bot's old and new secret names):

| Theorem | States |
| --- | --- |
| `BroadcastQueueProofs!TypeCorrect` | `Spec => []TypeOK` |
| `BroadcastQueueProofs!NoDoubleRun` | `Spec => []NoUnexplainedDoubleRun` |
| `BroadcastQueueProofs!OneLive` | `Spec => []OneLivePerBotUnlessHanded` |
| `BroadcastQueueProofs!SettledForGood` | `Spec => SettledStaysSettled` |
| `BroadcastQueueProofs!QueueKeepsPromise` | `Spec => KeepsPromise` |
| `BroadcastRunProofs!TypeCorrect` | `Spec => []TypeOK` |
| `BroadcastRunProofs!CursorCovers` | `Spec => []CursorCoversSteady` |
| `BroadcastRunProofs!CountsAreRecords` | `Spec => []CountsMatchRecords` |
| `BroadcastRunProofs!OverReached` | `Spec => []OverMeansReached` |
| `BroadcastRunProofs!ResentForRuns` | `Spec => []ResentOnlyAfterFault` |
| `VideoProofs!TypeCorrect` | `Spec => []TypeOK` |
| `VideoProofs!AlwaysOneOfEach` | `Spec => []OneOfEach` |
| `VideoProofs!UploadTypeCorrect` | `UploadSpec => []UploadTypeOK` |
| `VideoProofs!AlwaysOneDraft` | `UploadSpec => []OneDraft` |
| `VideoProofs!VideosAccountedFor` | `UploadSpec => []EveryVideoAccountedFor` |
| `CollectionDeliveryProofs!TypeCorrect` | `Spec => []TypeOK` |
| `CollectionDeliveryProofs!AlwaysOneJob` | `Spec => []OneJobPerUnlock` |
| `CollectionDeliveryProofs!AlwaysInOrder` | `Spec => []ArriveInOrder` |
| `CollectionDeliveryProofs!AlwaysAccounted` | `Spec => []DeliveriesAccounted` |
| `CollectionDeliveryProofs!ResentForFaults` | `Spec => []ResentOnlyAfterFault` |
| `OwnerCampaignProofs!TypeCorrect` | `Spec => []TypeOK` |
| `OwnerCampaignProofs!CampaignsKeepPromise` | `Spec => KeepsPromise` |
| `OwnerCampaignProofs!ResentForFaults` | `Spec => []ResentOnlyAfterFault` |
| `CatchupProofs!TypeCorrect` | `Spec => []TypeOK` |
| `CatchupProofs!PriorityOfLive` | `Spec => []LiveHasPriority` |
| `CatchupProofs!SentOnceOnly` | `Spec => []SentOnce` |
| `ChatsProofs!TypeCorrect` | `Spec => []TypeOK` |
| `ChatsProofs!OneCampaignPerMessage` | `Spec => []OncePerMessage` |
| `ChatsProofs!CampaignAsComposed` | `Spec => SentAsComposed` |
| `ChatsProofs!TextsAskedFor` | `Spec => StoredOnlyIfAsked` |
| `ChatsProofs!ScreensTypeCorrect` | `ScreensSpec => []ScreensTypeOK` |
| `ChatsProofs!EveryButtonIsAnswered` | `ScreensSpec => []EveryButtonAnswered` |
| `ChatsProofs!OnlyOwnBots` | `ScreensSpec => []OwnBotsOnly` |
| `ChatsProofs!NoRowIsMissed` | `ScreensSpec => []EveryRowListed` |
| `ChatsProofs!ChatsTypeCorrect` | `ChatsSpec => []ChatsTypeOK` |
| `ChatsProofs!ChatsCorrect` | `ChatsSpec =>` the six properties of both |
| `ControlHubProofs!TypeCorrect` | `Spec => []TypeOK` |
| `ControlHubProofs!WebhookHasSecret` | `Spec => []WebhookMatches` |
| `ControlHubProofs!ProvisioningEnds` | `Spec => []NeverLeftProvisioning` |
| `ControlHubProofs!TokensAskedFor` | `Spec => TakenOnlyIfAsked` |

*The queue.* The invariant is `Shape /\ Safe`. `Shape` is the type invariant with
two facts about workers: whoever is not idle holds a broadcast, and a worker that
dispatches has seen it RUNNING, COMPLETED or PARTIAL. `Safe` says why a second
claim is impossible: a held broadcast has begun (`HeldBegun`); its job is not claimable,
unless it was handed over (`HeldNotClaimable`); and a worker between
the claim and the end of its run has its broadcast RUNNING or settled by itself,
unless it was handed over (`ClaimedRunning`), so a late write cannot revive one.
None of the three properties is inductive without them. The refinement uses the same
invariant: a claim is `LiveQueue`'s `Take` by `HeldNotClaimable`; every write of a run
is its `End`, its `Revive` or nothing (`WriteKeepsPromise`), by `HeldBegun` and, for the
first write, by `ClaimedRunning`; a recovery or retry under a worker is its `Loosen`.

*The run's cursor.* The invariant `Covered` speaks of four cursors: that of the row,
of a loaded copy, of a worker in a page, and the one its commit will write. Each
covers the viewers who have been there since the snapshot, the last one with the
help of the records the open transaction is about to write
(`CoveredTo(cursor[w], wrote[w])`). A page leaves nobody out between the cursor and
any of its viewers (`NobodyLeftOut`), which is where the ORDER BY of the keyset query
matters. `NoSnapshotYet` says that before the first snapshot nothing has been
processed, so that taking it cannot add viewers behind a cursor. A late worker may
set the row's cursor back: every cursor that can be written is a covered one.

*The run's counts and its end.* Without takeovers `AloneInv` holds. `Alone`: one worker
is at work; its copy is the row; what it has counted is what it is about to record,
for viewers ahead of the committed cursor, while who has a record is behind it
(`RecordsBehind`). So a page's counts add to disjoint sets of records. `Audience`, as
long as nobody came in: whoever has a record or may still get one (`Reach`) is no more
than the snapshot counted. The set never grows, so when as many viewers are recorded
as were counted, it is all of them, and the check that ends a broadcast by its
counts ends it rightly.

*How often a message is repeated.* A crash forgets a page, so a bound has to say who is
yet to send: `MaySend(w, v)`, worker w may still reach viewer v. `ViewerCharged` keeps
an account for each viewer: the messages it has got and those the workers at work may
still send it are less than `Charge`, one for the broadcast and one for each crash and
takeover; or they are as many, and then nobody has failed to send or passed over the
viewer, and some run that will not end in a conflict is about to reach it or to commit
its SENT record (`Tight`); or it has a SENT record that nobody writes over (`ForGood`).
Each step is shown to keep the account (`Modest` for a worker's step that sends the
viewer nothing); a send moves one from those to come to those got. A crash and a
takeover bring the one they may cost. `Forgets` is what makes the records reliable: a
worker about to send has not found SENT, and remembers nothing of the page it has
committed. In `OwnerCampaign` and `CollectionDelivery` one run at a time is at work
while no job is handed over under a worker (`OneRun`, because the job of who is at work
is RUNNING), so the account needs no set of senders: `OnceInv` and `Once` say that all
messages but the last are paid for by a fault, and all of them unless there is a SENT
receipt or a worker about to write one (`Charged`).

*Videos.* `OneInv`: one worker at a time has written the processing row of a video
(`OneHolder`), and what a worker looked up under that lock is still so (`Knows`): no
link if it is to make one, no broadcast if it is to create one, a broadcast if it
found the video READY. `PlansOnlyLinks` says the same of the cycle: what it is about to
give a broadcast is not a published video, as these are READY only with theirs.

*Uploads.* `Shapes` says what a handler has in hand: a video's list of operations has
one, which takes or collects it; who holds a draft it is to publish has seen a video in
it; who is about to answer a video has taken it (`Taken`). `OpenedInv`: the modes open
now, by a session or a draft, are noted for every video that was sent, so what is stored
or collected under one is in a mode that was open, and stays so (`Keeps`). A key that is
left means that the update is served, answered or cut off, by a death or by a raise
before the router (`KeyInv`), which is why a duplicate may be answered (`DoneInv`).
`LockInv`: one handler has the bot's row, and from its query to its commit there is no
draft but the one it has found and cancels. What is `Nothing` has to be no mode and no
draft's number (`Distinct`).

*Unlocks.* `OneJobInv`: one request at a time has the lock of the viewer's row, and one
that has looked for the job under it still knows (`TapKnows`). `OrderInv`: a worker is at
an item only when those before it have arrived (`WorkerOrder`), whichever worker sent
them, and a receipt SENT means arrived. `AccountInv` counts the request that has sent
and not committed (`Open`, at most one by the lock).

*Campaigns.* `CampaignInv`: the clients a campaign was made for are within its bounds,
and have a receipt as far as `last` goes (`Invited`); what a worker writes and has
passed is covered as in the run of a broadcast (`OwnRow`, `Covered`, `NoGaps`), and by
the time failed receipts are tried again everybody has one (`AllReached`). Then each
action is mapped: `create` to `Announce`, `StartRun` to `Begin`, the commits of a page
and of a receipt to `Deal`, `EndRun` to `Finish`, `suspend_client` to `Leave`, everything
else to a stutter. `Begin` may take up a message that is over, because a recovered job
does: the run then finds nobody left.

*Catch-up.* `PriorityInv`: a worker that has looked and is about to send (`checked`) has
sent nothing since a broadcast became due. `OnceInv`: what has arrived is on one record
at most of four (two kinds of committed receipt, the batch's results, and the
broadcast's message whose record is to come), or was lost to a crash, a rollback or a
lost answer (`Accounted`); before its broadcast is over the catch-up has nothing to do
with a video (`LiveFirst`), and a batch takes none that is on record (`BatchFresh`).

*Settings and composing.* `KeyInv`: of a message whose campaign is about to be committed
there is none yet and no other one about to be, as the INSERT waits for the unique key.
`DraftInv`: the draft's audience is the one chosen last unless an overlapping update
wrote one back (`DraftAsChosen`), its content was shown, was cut off or is being shown
by the handler that wrote it (`DraftShown`), and what a confirmation has read of it was
so when it looked (`FoundAsComposed`). `AskedInv`: a key stands only while its text is
asked for, and a handler remembers whether that was so when it looked. That `"sponsor"`
is no column (`SponsorIsNoColumn`) is needed: the two kinds of prompt share a set.

*Screens.* `ScreensInv`: a screen is a set of `Buttons`, which are anybody's words,
those of the bots of one's own or of bot 0 (`Own`), and for the owner the owner's words,
the pages from 1 on and the ids of rows that are there; a token is waited for a bot in
`Own`. Each keyboard is shown to be made of such buttons, and each step to let the
tables only grow (`Grows`), so that what was a button stays one: no row is deleted, a
bot stays with its client, and a client's row, once there, stays the only one of its
user (`OneRow`, from `RowsToBeginWith`, which says that `telegram_user_id` is unique to
begin with). `WalkInv` is about leafing: while no row has left the list, a row it had at
first and that has not been shown has at least as many rows before it as the pages so
far have room for; rows that come in only add to them. The last page leaves room for no
such row: by `total_pages` of a count that is not less than the rows of the page
(`~walk.grew`), or, where one more row than a page is loaded, because among the rows
from there on there is one with exactly the full pages before it (`RowWithBefore`). A
behaviour of `Chats` is one of `AdminChat` and one of `HubScreens` (`EachOnItsOwn`), so
what is proved of each holds of what TLC runs.

*Connections.* `HookInv`: one handler at a time works for a client, by the lock of its
row, and one on a bot, since only its owner's handlers do and the insert of a new row
waits (`OneAtWork`); the webhook has the secret of the row as it was or will be, and no
row about to be committed is PROVISIONING (`Knows`). `TalkInv`: Redis waits for a token only
while the client is asked, unless it missed the last change (`unheard`); what a process
remembers may outlast that only if another process let the client off.

Only model-checked are the liveness properties (`EveryBroadcastSettles`,
`EveryTargetReached`, `EveryVideoSettles`, `EveryCampaignEnds`, `EveryCatchupEnds`,
`NoVideoFallsBetween`, `EveryTapServed`): fairness and ENABLED are out of the provers'
reach.

## 5. What is not modelled, and why

### 5.1 Code that no entry point reaches

Reached from tests only: the lifecycle, reconnect, health and capability services, the
job retry service, `BroadcastRetryWorker` (so a FAILED delivery is not tried again),
`JobDispatcher`, `BroadcastScheduler`, the fair scheduling service, `failure_classifier`,
`routing`, `ClientBotSelectorService`, `workers/unlockify.py`. Among them
`VALID_TRANSITIONS`, which nothing enforces, and a health check whose recovery into
PAUSED would resume the bot's broadcasts. `LifecycleWorker` has neither of the two
methods the worker loop calls (`worker_entrypoint.py:73-76`): with `--queue=all`
(`deploy/docker-compose.yml:27`) every iteration ends in the loop's error handler
there, before the maintenance that would follow; the scheduler has a cycle of its own,
which is the one the models have. QUEUED, PAUSED and lost-queue recovery of jobs belong
here too: no entry point makes a job QUEUED.

### 5.2 Left out

Presentation, wording, the Telegram and HTTP clients, encryption, authorization
checks (the tenancy of the bots a client is shown is in `HubScreens`), statistics and
monitoring, profile data, deployment, migrations. Rate limits: a process's own clocks
and locks, a wait of any length between two steps of a run, which the models allow.
Delays are due or not, heartbeats stale or not. The order of a worker's list of videos
and its limit, ties of `created_at`, and what a webhook's request looks like.

## 6. Plan

Done: the modules of section 2, their runs, and the theorems of section 4. Every
invariant and every action property that a run checks is proved, and so are both
refinements. What could follow: an abstract specification of collection deliveries
(each unlock's items arrive in their order, each at least once), implemented by
`CollectionDelivery`, and the parts of section 5 that are stateless but long, as
operators.
