------------------------------ MODULE Catchup ------------------------------
(***************************************************************************)
(* How the videos of a bot reach one viewer: by the LIVE broadcasts that   *)
(* start while the viewer is there, and by the catch-up that /start sets   *)
(* up for the older ones (app/services/viewer_service.py,                  *)
(* app/services/catchup_service.py, app/workers/catchup_worker.py), with   *)
(* the maintenance cycle that brings back lost catch-ups                   *)
(* (app/jobs/recovery.py).                                                 *)
(*                                                                         *)
(* Viewers share nothing here but the bot, so there is one.  Catch-ups     *)
(* have one worker, as in deploy/docker-compose.prod.yml.  A batch is one  *)
(* transaction after its beginning; its session works on the copy of the   *)
(* catch-up's row it has loaded.                                           *)
(***************************************************************************)
EXTENDS JobRows, Integers, FiniteSets, FiniteSetsExt

CONSTANTS
  N,            \* videos have the ids 1 .. N, in the order of their upload
  Old,          \* the videos whose broadcast is over when the viewer comes
  BatchSize,    \* CATCHUP_BATCH_SIZE, 10 in the code
  MaxAttempts,  \* RetryPolicy.max_attempts of a CATCHUP job
  MaxJobs,      \* bound: jobs of the viewer at one time
  Limit,        \* how many faults of each kind a behaviour has
  MaxFaults,    \* and how many of all kinds together
  None          \* "no job"

\* A process dies; its work raises; the worker goes 300 s in one batch; a send
\* fails; a message arrives and the answer does not; the viewer blocks the bot;
\* comes with /start; the owner stops the bot, or presses retry on a job.
Faults == {"crash", "raise", "stall", "error", "lost", "block", "start", "stop", "retry"}

ASSUME NType == N \in Nat
ASSUME OldAreVideos == Old \subseteq 1 .. N
ASSUME BatchSizePositive == BatchSize \in Nat \ {0}
ASSUME MaxAttemptsPositive == MaxAttempts \in Nat \ {0}
ASSUME MaxJobsPositive == MaxJobs \in Nat \ {0}
ASSUME LimitType == Limit \in [Faults -> Nat]
ASSUME MaxFaultsType == MaxFaults \in Nat
ASSUME NoneNotJob == None \notin Nat

Videos == 1 .. N
JobIds == 1 .. MaxJobs

VARIABLES
  viewer,    \* viewers.status
  blocking,  \* the viewer has blocked the bot in Telegram
  bot,       \* client_bots.status is ACTIVE
  ready,     \* videos READY and PUBLISHED
  live,      \* their LIVE broadcasts
  liveSent,  \* videos with a SENT record of this viewer in broadcast_deliveries
  row,       \* the viewer's row in viewer_catchup
  receipt,   \* the status in catchup_deliveries, or "NONE"
  got,       \* messages the viewer has received, for each video
  job,       \* the viewer's CATCHUP jobs
  start,     \* a /start in progress
  pc,        \* where the worker is
  on,        \* the job it works on
  copy,      \* the row, and the bot's status, as its session has loaded them
  page,      \* videos of its batch still to do
  cursor,    \* last_processed_video_id
  result,    \* the outcomes of the batch, not committed
  cycle,     \* the maintenance cycle in progress
  pressed,   \* jobs an owner's retry has read as retryable
  faults,
  during,    \* history: catch-up messages sent since a LIVE broadcast was due
  excused    \* history: videos of which a send or the broadcast has failed

telegram == <<blocking, got>>
batch == <<copy, page, cursor, result>>
broadcasts == <<bot, ready, live, liveSent>>
history == <<during, excused>>
vars == <<viewer, broadcasts, row, receipt, telegram, job, start, pc, on, batch,
          cycle, pressed, faults, history>>

Outcomes == {"SENT", "FAILED", "BLOCKED"}
CatchupStatuses == {"ABSENT", "PENDING", "RUNNING", "PAUSED", "COMPLETED", "BLOCKED"}

\* target 0 stands for None.
Row == [status : CatchupStatuses, last : 0 .. N, target : 0 .. N]
NoRow == [status |-> "ABSENT", last |-> 0, target |-> 0]
NewRow == [NoRow EXCEPT !.status = "PENDING"]

\* A broadcast waits, has this viewer in its audience or not, has sent to the
\* viewer without having committed it, or is over.
LiveStates == {"NONE", "PENDING", "TARGET", "OTHERS", "SENT", "OVER"}

NoStart == [at |-> "idle", saw |-> "ABSENT", read |-> NoRow, row |-> NoRow,
            seen |-> {}, job |-> FALSE]
NoCycle == [at |-> "idle", stale |-> {}, read |-> NoRow, status |-> "ABSENT", job |-> FALSE]

\* "begun": the job is RUNNING; "loaded": the rows are read; "refused": so the
\* viewer is BLOCKED; "running": the row is RUNNING; "paging": in the batch;
\* "checked": about to send; "forbidden": the viewer has blocked the bot; "done":
\* the batch is committed, "again": and has left videos.
PCs == {"idle", "begun", "loaded", "refused", "running", "paging", "checked",
        "forbidden", "done", "again"}

TypeOK ==
  /\ viewer \in {"ABSENT", "ACTIVE", "BLOCKED"}
  /\ blocking \in BOOLEAN /\ bot \in BOOLEAN
  /\ ready \subseteq Videos /\ liveSent \subseteq Videos
  /\ live \in [Videos -> LiveStates]
  /\ row \in Row
  /\ receipt \in [Videos -> Outcomes \cup {"NONE"}]
  /\ result \in [Videos -> Outcomes \cup {"NONE"}]
  /\ got \in [Videos -> Nat]
  /\ job \in [JobIds -> Job]
  /\ start \in [at : {"idle", "read", "drafted"}, saw : {"ABSENT", "ACTIVE", "BLOCKED"},
                read : Row, row : Row, seen : SUBSET Videos, job : BOOLEAN]
  /\ pc \in PCs
  /\ on \in JobIds \cup {None}
  /\ copy \in [row : Row, bot : BOOLEAN]
  /\ page \subseteq Videos
  /\ cursor \in 0 .. N
  /\ cycle \in [at : {"idle", "scanned", "planned"}, stale : SUBSET JobIds, read : Row,
                status : CatchupStatuses, job : BOOLEAN]
  /\ pressed \subseteq JobIds
  /\ faults \in [Faults -> Nat]
  /\ during \in Nat
  /\ excused \subseteq Videos

NoCopy == [row |-> NoRow, bot |-> FALSE]
NoResult == [v \in Videos |-> "NONE"]

Init ==
  /\ viewer = "ABSENT" /\ blocking = FALSE /\ bot = TRUE
  /\ ready = Old /\ liveSent = {}
  /\ live = [v \in Videos |-> IF v \in Old THEN "OVER" ELSE "NONE"]
  /\ row = NoRow /\ receipt = NoResult /\ got = [v \in Videos |-> 0]
  /\ job = [j \in JobIds |-> NoJob]
  /\ start = NoStart
  /\ pc = "idle" /\ on = None
  /\ copy = NoCopy /\ page = {} /\ cursor = 0 /\ result = NoResult
  /\ cycle = NoCycle /\ pressed = {}
  /\ faults = [k \in Faults |-> 0]
  /\ during = 0 /\ excused = {}

\* The viewer's /start and the owner's retry are not counted with the others.
Spend(k) ==
  /\ faults[k] < Limit[k]
  /\ k \notin {"start", "retry"} =>
       faults["crash"] + faults["raise"] + faults["stall"] + faults["error"] + faults["lost"]
         + faults["block"] + faults["stop"] < MaxFaults
  /\ faults' = [faults EXCEPT ![k] = @ + 1]

InProgress(v) == live[v] \in {"PENDING", "TARGET", "OTHERS", "SENT"}

has_live_broadcast_in_progress == \E v \in Videos : InProgress(v)

\* The viewers row is locked by /start from its first write to its commit.
ViewerLocked == start.at = "drafted"

\* Mutant: what LIVE broadcasts have delivered is not looked at.
DeliveredHere(outcomes) == {v \in Videos : outcomes[v] = "SENT"}

\* Delivered to the viewer by either way, as far as records show.
Delivered(outcomes) == {v \in Videos : outcomes[v] = "SENT"} \cup liveSent

Unseen(target, outcomes) == {v \in ready : v <= target} \ Delivered(outcomes)

----------------------------------------------------------------------------
(* Jobs.  A job that is COMPLETED is forgotten, nothing reads its row again; *)
(* a FAILED one as soon as its place is taken: nobody retries it any more.  *)

HasActiveJob(jobs) == \E j \in JobIds : IsActive(jobs[j])

Free == {j \in JobIds : ~IsActive(job[j]) /\ on # j /\ j \notin pressed}
create_catchup_job(jobs, due) ==
  [jobs EXCEPT ![CHOOSE j \in Free : \A i \in Free : j <= i] =
     [create_job EXCEPT !.due = due]]

End(jobs, j) == [jobs EXCEPT ![j] = NoJob]

\* The columns of the row that differ from what was read are written.
Flushed(read, new) ==
  [k \in DOMAIN new |-> IF new[k] = read[k] THEN row[k] ELSE new[k]]

----------------------------------------------------------------------------
(* The bot, its videos and their LIVE broadcasts, as BroadcastQueue and      *)
(* BroadcastRun have them, seen from one viewer.                            *)

\* A video becomes READY with its broadcast (VideoPipeline), in any order.
VideoReady(v) ==
  /\ v \notin ready
  /\ ready' = ready \cup {v}
  /\ live' = [live EXCEPT ![v] = "PENDING"]
  /\ UNCHANGED <<viewer, bot, liveSent, row, receipt, telegram, job, start, pc, on,
                 batch, cycle, pressed, faults, history>>

BotStops ==
  /\ bot /\ Spend("stop")
  /\ bot' = FALSE
  /\ UNCHANGED <<viewer, ready, live, liveSent, row, receipt, telegram, job, start,
                 pc, on, batch, cycle, pressed, history>>

BotStarts ==
  /\ ~bot
  /\ bot' = TRUE
  /\ UNCHANGED <<viewer, ready, live, liveSent, row, receipt, telegram, job, start,
                 pc, on, batch, cycle, pressed, faults, history>>

\* The end of a broadcast: was a catch-up message sent meanwhile does not matter
\* any more.
LiveOver(v) ==
  /\ live' = [live EXCEPT ![v] = "OVER"]
  /\ during' = IF \E u \in Videos \ {v} : InProgress(u) THEN during ELSE 0

\* The audience is taken.  A viewer whose /start has read which videos there are
\* and is not committed is missed by both: excused.
LiveStarts(v) ==
  /\ live[v] = "PENDING" /\ bot
  /\ \A u \in Videos : live[u] \notin {"TARGET", "OTHERS", "SENT"}
  /\ live' = [live EXCEPT ![v] = IF viewer = "ACTIVE" THEN "TARGET" ELSE "OTHERS"]
  /\ excused' = IF start.at = "drafted" /\ viewer # "ACTIVE" /\ v \notin start.seen
                  THEN excused \cup {v} ELSE excused
  /\ UNCHANGED <<viewer, bot, ready, liveSent, row, receipt, telegram, job, start, pc,
                 on, batch, cycle, pressed, faults, during>>

\* A message whose answer is lost is on record as failed.
LiveDelivers(v) ==
  /\ live[v] = "TARGET" /\ viewer = "ACTIVE"
  /\ \/ /\ ~blocking
        /\ got' = [got EXCEPT ![v] = @ + 1]
        /\ live' = [live EXCEPT ![v] = "SENT"]
        /\ UNCHANGED <<viewer, faults, excused>>
     \/ /\ ~blocking /\ Spend("error")
        /\ live' = [live EXCEPT ![v] = "OTHERS"]
        /\ excused' = excused \cup {v}
        /\ UNCHANGED <<viewer, got>>
     \/ /\ ~blocking /\ Spend("lost")
        /\ got' = [got EXCEPT ![v] = @ + 1]
        /\ live' = [live EXCEPT ![v] = "OTHERS"]
        /\ UNCHANGED <<viewer, excused>>
     \/ /\ blocking /\ ~ViewerLocked
        /\ viewer' = "BLOCKED"
        /\ live' = [live EXCEPT ![v] = "OTHERS"]
        /\ UNCHANGED <<got, faults, excused>>
  /\ UNCHANGED <<bot, ready, liveSent, row, receipt, blocking, job, start, pc, on,
                 batch, cycle, pressed, during>>

LiveEnds(v) ==
  /\ live[v] \in {"OTHERS", "SENT"} \/ (live[v] = "TARGET" /\ viewer # "ACTIVE")
  /\ LiveOver(v)
  /\ liveSent' = IF live[v] = "SENT" THEN liveSent \cup {v} ELSE liveSent
  /\ UNCHANGED <<viewer, bot, ready, row, receipt, telegram, job, start, pc, on, batch,
                 cycle, pressed, faults, excused>>

\* The preflight refuses a bot that is not ACTIVE, for good.
LiveFails(v) ==
  /\ live[v] = "PENDING" /\ ~bot
  /\ LiveOver(v)
  /\ excused' = excused \cup {v}
  /\ UNCHANGED <<viewer, bot, ready, liveSent, row, receipt, telegram, job, start, pc,
                 on, batch, cycle, pressed, faults>>

\* The LIVE worker dies before the page is committed; the run is taken up again.
LiveCrash(v) ==
  /\ live[v] = "SENT" /\ Spend("crash")
  /\ live' = [live EXCEPT ![v] = "TARGET"]
  /\ UNCHANGED <<viewer, bot, ready, liveSent, row, receipt, telegram, job, start, pc,
                 on, batch, cycle, pressed, history>>

ViewerBlocks ==
  /\ ~blocking /\ viewer # "ABSENT" /\ start.at = "idle" /\ Spend("block")
  /\ blocking' = TRUE
  /\ UNCHANGED <<viewer, broadcasts, row, receipt, got, job, start, pc, on, batch, cycle, pressed,
                 history>>

----------------------------------------------------------------------------
(* /start: the viewer's row, then the catch-up.                             *)

\* The viewer's row is read; a bot that is not ACTIVE answers and no more.
StartReads ==
  /\ start.at = "idle" /\ bot /\ Spend("start")
  /\ blocking' = FALSE
  /\ start' = [start EXCEPT !.at = "read", !.saw = viewer]
  /\ UNCHANGED <<viewer, broadcasts, row, receipt, got, job, pc, on, batch, cycle, pressed,
                 history>>

\* The greatest READY video id, or 0.
MaxReady == IF ready = {} THEN 0 ELSE Max(ready)

\* get_or_create_catchup: a new row, or one that was BLOCKED, is PENDING.
Existing == IF row.status \in {"ABSENT", "BLOCKED"} THEN [row EXCEPT !.status = "PENDING"]
                                                    ELSE row

\* The boundary is set for a catch-up without one, or PENDING; with nothing to
\* deliver it is COMPLETED.
Bounded ==
  IF Existing.target # 0 /\ Existing.status # "PENDING" THEN Existing
  ELSE LET new == [Existing EXCEPT !.target = IF ready = {} THEN @ ELSE MaxReady]
       IN IF Unseen(MaxReady, receipt) = {} THEN [new EXCEPT !.status = "COMPLETED"] ELSE new

\* The viewer's row is written, and locked; the greeting is sent; what becomes
\* of the catch-up is decided by what is read now.
initialize_or_resume_catchup ==
  /\ start.at = "read"
  /\ start' = [start EXCEPT
       !.at = "drafted", !.read = row, !.row = Bounded, !.seen = ready,
       !.job = ~HasActiveJob(job) /\ Bounded.status \in {"PENDING", "PAUSED"}]
  /\ UNCHANGED <<viewer, broadcasts, row, receipt, telegram, job, pc, on, batch, cycle, pressed,
                 faults, history>>

StartCommits ==
  /\ start.at = "drafted"
  /\ start.job => Free # {}
  /\ viewer' = IF start.saw = "ACTIVE" THEN viewer ELSE "ACTIVE"
  /\ row' = Flushed(start.read, start.row)
  /\ job' = IF start.job THEN create_catchup_job(job, TRUE) ELSE job
  /\ start' = NoStart
  /\ UNCHANGED <<broadcasts, receipt, telegram, pc, on, batch, cycle, pressed, faults, history>>

\* The greeting cannot be sent, or the API process dies: all is rolled back.
StartFails ==
  /\ start.at # "idle" /\ Spend("raise")
  /\ start' = NoStart
  /\ UNCHANGED <<viewer, broadcasts, row, receipt, telegram, job, pc, on, batch, cycle, pressed,
                 history>>

----------------------------------------------------------------------------
(* The catch-up worker.                                                     *)

\* The row is listed and made RUNNING without a lock.
BeginJob(j) ==
  /\ pc = "idle" /\ IsClaimable(job[j])
  /\ job' = [job EXCEPT ![j] = mark_running(@)]
  /\ pc' = "begun" /\ on' = j
  /\ UNCHANGED <<viewer, broadcasts, row, receipt, telegram, start, batch, cycle, pressed,
                 faults, history>>

LoadCatchup ==
  /\ pc = "begun"
  /\ copy' = [row |-> row, bot |-> bot]
  /\ pc' = IF viewer = "BLOCKED" THEN "refused" ELSE "loaded"
  /\ UNCHANGED <<viewer, broadcasts, row, receipt, telegram, job, start, on, page,
                 cursor, result, cycle, pressed, faults, history>>

\* The row's status is committed.
Set(status) ==
  /\ row' = Flushed(copy.row, [copy.row EXCEPT !.status = status])
  /\ copy' = [copy EXCEPT !.row.status = status]

Halt ==
  /\ pc = "refused"
  /\ Set("BLOCKED")
  /\ pc' = "done"
  /\ UNCHANGED <<viewer, broadcasts, receipt, telegram, job, start, on, page, cursor,
                 result, cycle, pressed, faults, history>>

\* The job ends with the pause: it is for the maintenance cycle to go on.
YieldToLive ==
  /\ pc = "loaded" /\ has_live_broadcast_in_progress
  /\ Set("PAUSED")
  /\ pc' = "done"
  /\ UNCHANGED <<viewer, broadcasts, receipt, telegram, job, start, on, page, cursor,
                 result, cycle, pressed, faults, history>>

StartBatch ==
  /\ pc = "loaded" /\ ~has_live_broadcast_in_progress
  /\ Set("RUNNING")
  /\ cursor' = copy.row.last
  /\ pc' = "running"
  /\ UNCHANGED <<viewer, broadcasts, receipt, telegram, job, start, on, page, result,
                 cycle, pressed, faults, history>>

Ahead == {v \in Unseen(copy.row.target, receipt) : cursor < v}

get_next_eligible_videos ==
  /\ pc = "running"
  /\ \E p \in SUBSET Ahead :
       /\ Cardinality(p) <= BatchSize
       /\ p # Ahead => Cardinality(p) = BatchSize
       /\ \A v \in p, u \in Ahead \ p : v < u
       /\ page' = p
       /\ IF p = {} THEN Set("COMPLETED") /\ pc' = "done"
                    ELSE pc' = "paging" /\ UNCHANGED <<row, copy>>
  /\ UNCHANGED <<viewer, broadcasts, receipt, telegram, job, start, on, cursor, result,
                 cycle, pressed, faults, history>>

\* Mutant: a LIVE broadcast in the middle of a batch is not noticed.
NoneMidBatch == FALSE
PauseMidBatch == has_live_broadcast_in_progress

IsNext(v) == v \in page /\ \A u \in page : v <= u

\* The batch breaks off for a LIVE broadcast (mark_paused); a video delivered
\* meanwhile is passed over.
CheckVideo ==
  /\ pc = "paging"
  /\ \E v \in Videos :
       /\ IsNext(v)
       /\ IF PauseMidBatch
            THEN page' = {} /\ UNCHANGED <<pc, cursor>>
          ELSE IF v \in Delivered(receipt)
            THEN page' = page \ {v} /\ cursor' = v /\ UNCHANGED pc
          ELSE pc' = "checked" /\ UNCHANGED <<page, cursor>>
  /\ UNCHANGED <<viewer, broadcasts, row, receipt, telegram, job, start, on, copy,
                 result, cycle, pressed, faults, history>>

\* What comes of the attempt; a message whose answer is lost counts as failed, and
\* has arrived.  The preflight fails for a bot that was not ACTIVE when
\* the batch was loaded.
Answer(v) ==
  IF copy.bot /\ ~blocking
    THEN \/ /\ result' = [result EXCEPT ![v] = "SENT"]
            /\ got' = [got EXCEPT ![v] = @ + 1]
            /\ UNCHANGED <<faults, excused>>
         \/ /\ Spend("error")
            /\ result' = [result EXCEPT ![v] = "FAILED"]
            /\ excused' = excused \cup {v}
            /\ UNCHANGED got
         \/ /\ Spend("lost")
            /\ result' = [result EXCEPT ![v] = "FAILED"]
            /\ got' = [got EXCEPT ![v] = @ + 1]
            /\ UNCHANGED excused
    ELSE /\ result' = [result EXCEPT ![v] = IF copy.bot THEN "BLOCKED" ELSE "FAILED"]
         /\ excused' = excused \cup {v}
         /\ UNCHANGED <<got, faults>>

\* The cursor passes over the video whatever the outcome.
send_catchup_preview_to_viewer ==
  /\ pc = "checked"
  /\ \E v \in Videos :
       /\ IsNext(v)
       /\ Answer(v)
       /\ page' = page \ {v}
       /\ cursor' = v
       /\ pc' = IF result'[v] = "BLOCKED" THEN "forbidden" ELSE "paging"
       /\ during' = IF has_live_broadcast_in_progress THEN during + 1 ELSE during
  /\ UNCHANGED <<viewer, broadcasts, row, receipt, blocking, job, start, on, copy, cycle, pressed>>

\* The receipts with those of the batch.
Receipts == [v \in Videos |-> IF result[v] = "NONE" THEN receipt[v] ELSE result[v]]
Remaining == Unseen(copy.row.target, Receipts)

\* The status at the end of the batch; a pause is overwritten by the one that the
\* next job's delay brings.
EndStatus ==
  IF pc = "forbidden" THEN "BLOCKED" ELSE IF Remaining = {} THEN "COMPLETED" ELSE "RUNNING"

\* Mutant: the cursor is set to the end of the catch-up.
Boundary == copy.row.target
LastProcessed == cursor

CommitBatch ==
  /\ (pc = "paging" /\ page = {}) \/ (pc = "forbidden" /\ ~ViewerLocked)
  /\ viewer' = IF pc = "forbidden" THEN "BLOCKED" ELSE viewer
  /\ row' = Flushed(copy.row, [copy.row EXCEPT !.last = LastProcessed, !.status = EndStatus])
  /\ copy' = [copy EXCEPT !.row.last = LastProcessed, !.row.status = EndStatus]
  /\ receipt' = Receipts
  /\ result' = NoResult
  /\ page' = {}
  /\ pc' = IF EndStatus = "RUNNING" THEN "again" ELSE "done"
  /\ UNCHANGED <<broadcasts, telegram, job, start, on, cursor, cycle, pressed, faults, history>>

Release == pc' = "idle" /\ on' = None /\ copy' = NoCopy /\ page' = {} /\ cursor' = 0
             /\ result' = NoResult

\* The job is COMPLETED; if videos are left, the next one is there a day later
\* (_schedule_next_batch_if_needed).
FinishJob ==
  /\ pc \in {"done", "again"}
  /\ IF pc = "again"
       THEN /\ Free # {}
            /\ row' = Flushed(copy.row, [copy.row EXCEPT !.status = "PAUSED"])
            /\ job' = End(create_catchup_job(job, FALSE), on)
       ELSE row' = row /\ job' = End(job, on)
  /\ Release
  /\ UNCHANGED <<viewer, broadcasts, receipt, telegram, start, cycle, pressed, faults, history>>

\* The exception handler of process_job: what is not committed is rolled back and
\* the job is FAILED.
RunRaises ==
  /\ pc # "idle" /\ Spend("raise")
  /\ job' = [job EXCEPT ![on] = mark_failed(@)]
  /\ Release
  /\ UNCHANGED <<viewer, broadcasts, row, receipt, telegram, start, cycle, pressed, history>>

Crash ==
  /\ pc # "idle" /\ Spend("crash")
  /\ Release
  /\ UNCHANGED <<viewer, broadcasts, row, receipt, telegram, job, start, cycle, pressed, history>>

WorkerStep ==
  \/ \E j \in JobIds : BeginJob(j)
  \/ LoadCatchup \/ Halt \/ YieldToLive \/ StartBatch \/ get_next_eligible_videos
  \/ CheckVideo \/ send_catchup_preview_to_viewer \/ CommitBatch \/ FinishJob

----------------------------------------------------------------------------
(* Time and the maintenance cycle.                                          *)

\* A batch sends no heartbeat.
HeartbeatAges(j) ==
  /\ job[j].status = "RUNNING" /\ ~job[j].stale
  /\ IF on = j THEN Spend("stall") ELSE UNCHANGED faults
  /\ job' = [job EXCEPT ![j].stale = TRUE]
  /\ UNCHANGED <<viewer, broadcasts, row, receipt, telegram, start, pc, on, batch,
                 cycle, pressed, history>>

\* A backoff, or the day between two batches.
DelayElapses(j) ==
  /\ job[j].status \in {"PENDING", "RETRYING"} /\ ~job[j].due
  /\ job' = [job EXCEPT ![j].due = TRUE]
  /\ UNCHANGED <<viewer, broadcasts, row, receipt, telegram, start, pc, on, batch,
                 cycle, pressed, faults, history>>

CycleScans ==
  /\ cycle.at = "idle"
  /\ \E j \in JobIds : IsStaleRunning(job[j])
  /\ cycle' = [cycle EXCEPT !.at = "scanned",
                            !.stale = {j \in JobIds : IsStaleRunning(job[j])}]
  /\ UNCHANGED <<viewer, broadcasts, row, receipt, telegram, job, start, pc, on, batch, pressed,
                 faults, history>>

\* recover_stale_running_jobs.
Recovered ==
  [j \in JobIds |->
     IF j \in cycle.stale THEN recover_stale(job[j], job[j].attempts, MaxAttempts) ELSE job[j]]

\* Mutant: a catch-up that is PAUSED has a job to come.
NotPaused == {"PENDING", "RUNNING"}

Stallable == {"PENDING", "RUNNING", "PAUSED"}

\* What is lost gets a new job; a scan that has found no stale row is not a step.
reconcile_stalled_catchups ==
  LET blocked == row.status \in Stallable /\ viewer = "BLOCKED"
      lost == row.status \in Stallable /\ ~blocked /\ ~HasActiveJob(Recovered) IN
  /\ cycle.at \in {"idle", "scanned"}
  /\ blocked \/ lost \/ cycle.stale # {}
  /\ cycle' = [cycle EXCEPT
       !.at = "planned",
       !.read = row,
       !.status = IF blocked THEN "BLOCKED"
                  ELSE IF lost /\ row.status = "RUNNING" THEN "PENDING"
                  ELSE row.status,
       !.job = lost]
  /\ UNCHANGED <<viewer, broadcasts, row, receipt, telegram, job, start, pc, on, batch, pressed,
                 faults, history>>

CycleCommits ==
  /\ cycle.at = "planned"
  /\ cycle.job => Free # {}
  /\ row' = Flushed(cycle.read, [cycle.read EXCEPT !.status = cycle.status])
  /\ job' = IF cycle.job THEN create_catchup_job(Recovered, TRUE) ELSE Recovered
  /\ cycle' = NoCycle
  /\ UNCHANGED <<viewer, broadcasts, receipt, telegram, start, pc, on, batch, pressed, faults,
                 history>>

CycleDies ==
  /\ cycle.at # "idle" /\ Spend("crash")
  /\ cycle' = NoCycle
  /\ UNCHANGED <<viewer, broadcasts, row, receipt, telegram, job, start, pc, on, batch, pressed,
                 history>>

\* The owner's retry button reads the job without a lock, then writes it.
RetryReads(j) ==
  /\ CanRetry(job[j]) /\ j \notin pressed /\ Spend("retry")
  /\ pressed' = pressed \cup {j}
  /\ UNCHANGED <<viewer, broadcasts, row, receipt, telegram, job, start, pc, on, batch,
                 cycle, history>>

RetryWrites(j) ==
  /\ j \in pressed
  /\ job' = [job EXCEPT ![j] = retry_job(@)]
  /\ pressed' = pressed \ {j}
  /\ UNCHANGED <<viewer, broadcasts, row, receipt, telegram, start, pc, on, batch,
                 cycle, faults, history>>

CycleStep == CycleScans \/ reconcile_stalled_catchups \/ CycleCommits

----------------------------------------------------------------------------
LiveStep(v) == LiveStarts(v) \/ LiveDelivers(v) \/ LiveEnds(v) \/ LiveFails(v)

Next ==
  \/ \E v \in Videos : VideoReady(v) \/ LiveStep(v) \/ LiveCrash(v)
  \/ BotStops \/ BotStarts \/ ViewerBlocks
  \/ StartReads \/ initialize_or_resume_catchup \/ StartCommits \/ StartFails
  \/ WorkerStep \/ RunRaises \/ Crash
  \/ \E j \in JobIds : HeartbeatAges(j) \/ DelayElapses(j) \/ RetryReads(j) \/ RetryWrites(j)
  \/ CycleStep \/ CycleDies

Spec == Init /\ [][Next]_vars

(* Broadcasts come to their end (EveryBroadcastSettles of BroadcastQueue);  *)
(* a request is answered; the worker and the cycle go on; time passes.      *)
Fairness ==
  /\ \A v \in Videos : WF_vars(LiveStep(v))
  /\ WF_vars(initialize_or_resume_catchup \/ StartCommits)
  /\ WF_vars(WorkerStep)
  /\ WF_vars(CycleStep)
  /\ \A j \in JobIds : WF_vars(on # j /\ HeartbeatAges(j)) /\ WF_vars(DelayElapses(j))
                          /\ WF_vars(RetryWrites(j))

FairSpec == Spec /\ Fairness

----------------------------------------------------------------------------
(* Properties.                                                              *)

\* LIVE broadcasts have priority: from the moment one is due until none is, the
\* viewer gets at most the one catch-up message that was on its way.
LiveHasPriority == during <= 1

\* The viewer gets a video twice only if a worker died before it had committed
\* that it was sent, a batch was rolled back, or the answer to a message that had
\* arrived was lost, once for each: not because both ways lead to the same viewer,
\* nor because two jobs of the viewer came to be.
SentOnce ==
  \A v \in Videos : got[v] <= 1 + faults["crash"] + faults["raise"] + faults["lost"]

\* A catch-up that is begun is not forgotten: it is completed, or the viewer is
\* BLOCKED, over pauses for LIVE broadcasts, lost jobs, crashes and rollbacks.
EveryCatchupEnds == row.status = "PENDING" ~> row.status \in {"COMPLETED", "BLOCKED"}

\* Between the audience of its broadcast and the boundary of the catch-up no
\* video is lost for a viewer who stays, unless a send or a broadcast failed.
NoVideoFallsBetween ==
  \A v \in Videos :
    v \in ready /\ viewer = "ACTIVE" ~> got[v] > 0 \/ v \in excused \/ faults["block"] > 0
=============================================================================
