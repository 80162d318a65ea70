------------------------- MODULE CollectionDelivery -------------------------
(***************************************************************************)
(* One viewer unlocks what is behind one link: the taps on it, as the       *)
(* webhook passes them on (app/telegram/client_bot/dispatcher.py,           *)
(* app/services/viewer_unlock_service.py).  A single video is sent by the   *)
(* request itself (app/services/video_delivery_service.py).  A published    *)
(* collection is sent by a worker, its videos one by one                    *)
(* (app/workers/collection_delivery.py), with the recovery of its job.      *)
(*                                                                         *)
(* The job of a collection and a viewer is found by its deduplication key,  *)
(* which no constraint keeps unique: the lock of the viewer's row does.  A  *)
(* worker keeps the rows as its session loaded them; its commits write      *)
(* what it has changed, whatever has been committed since.                  *)
(***************************************************************************)
EXTENDS JobRows, Integers, FiniteSets

CONSTANTS
  Taps,         \* requests of the viewer the API may be serving at a time
  Workers,
  N,            \* the collection's items have the positions 1 .. N
  MaxAttempts,  \* the max_attempts of the job, and its RetryPolicy's
  Limit,        \* how many faults of each kind a behaviour has
  MaxFaults,    \* and how many of all kinds together, taps and retries apart
  None          \* "no job"

\* A tap of the viewer; a request that raises; a worker that dies; a live worker
\* that goes 300 s without a heartbeat; a send that fails; a send that arrives
\* though its answer does not; the viewer blocks the bot; the bot is stopped; the
\* owner presses retry on a job.
Faults == {"tap", "raise", "crash", "stall", "error", "lost", "block", "stop", "retry"}

ASSUME NType == N \in Nat
ASSUME MaxAttemptsPositive == MaxAttempts \in Nat \ {0}
ASSUME LimitType == Limit \in [Faults -> Nat]
ASSUME MaxFaultsType == MaxFaults \in Nat

Items == 1 .. N

\* Two jobs are enough to see that there is one.
JobIds == {1, 2}
ASSUME NoneNotJob == None \notin JobIds

VARIABLES
  unlocks,   \* what the link is of: a COLLECTION or a VIDEO
  deliveries,\* how many rows of video_deliveries have each status
  received,  \* how often the viewer has received the single video
  viewer,    \* viewers.status
  blocking,  \* whether the viewer blocks the bot in Telegram
  bot,       \* whether the bot is ACTIVE
  receipt,   \* the status in collection_item_deliveries, or "NONE"
  got,       \* how often the viewer has received each item
  job,       \* the rows of background_jobs with the deduplication key
  tap,       \* where each request is, and what it has read
  pc,        \* where each worker is
  on,        \* the job it works on
  tries,     \* the attempts of the job when it claimed it
  seen,      \* the viewer and the bot as it loaded them
  item,      \* the last item it is through with, or is at
  prior,     \* the receipt it found for that item
  result,    \* what it was told of its send
  scan,      \* attempts of the jobs the maintenance cycle has read as stale, or 0
  pressed,   \* jobs an owner's retry has read as retryable
  faults,
  told,      \* history: the last reply, and whether the viewer still waits
  handed     \* history: jobs made claimable while a worker was on them

single == <<unlocks, deliveries, received>>
rows == <<viewer, receipt, job>>
work == <<pc, on, tries, seen, item, prior, result>>
upkeep == <<scan, pressed>>
history == <<told, handed>>
vars == <<single, rows, blocking, bot, got, tap, work, upkeep, faults, history>>

Statuses == {"SENT", "FAILED", "BLOCKED"}
ViewerStatuses == {"ABSENT", "ACTIVE", "BLOCKED"}

\* "claimed": the job is RUNNING; "loaded": the rows are read; "items": between two
\* items; "inserting": an item has no receipt; "sending": its receipt is in the
\* transaction; "answered": the outcome is to be stored.
PCs == {"idle", "claimed", "loaded", "items", "inserting", "sending", "answered"}

\* "read": the viewer's row is read; "locked": it is written, and the job looked
\* for; "pending": it is written, and the delivery of the video is to be tried;
\* "answered": its outcome is to be stored.
TapAts == {"idle", "read", "locked", "pending", "answered"}
Results == Statuses \cup {"NONE", "INVALID_TOKEN"}
NoTap == [at |-> "idle", viewer |-> "ABSENT", job |-> None, status |-> "ABSENT",
          complete |-> FALSE, result |-> "NONE"]
NoView == [viewer |-> "ABSENT", bot |-> FALSE]

TypeOK ==
  /\ unlocks \in {"COLLECTION", "VIDEO"}
  /\ deliveries \in [Statuses -> Nat] /\ received \in Nat
  /\ viewer \in ViewerStatuses /\ blocking \in BOOLEAN /\ bot \in BOOLEAN
  /\ receipt \in [Items -> Statuses \cup {"NONE"}]
  /\ got \in [Items -> Nat]
  /\ job \in [JobIds -> Job]
  /\ tap \in [Taps -> [at : TapAts, viewer : ViewerStatuses,
                       job : JobIds \cup {None}, status : JobStatuses,
                       complete : BOOLEAN, result : Results]]
  /\ pc \in [Workers -> PCs]
  /\ on \in [Workers -> JobIds \cup {None}]
  /\ tries \in [Workers -> Nat]
  /\ seen \in [Workers -> [viewer : ViewerStatuses, bot : BOOLEAN]]
  /\ item \in [Workers -> 0 .. N]
  /\ prior \in [Workers -> Statuses \cup {"NONE"}]
  /\ result \in [Workers -> Statuses \cup {"NONE"}]
  /\ scan \in [JobIds -> Nat]
  /\ pressed \subseteq JobIds /\ handed \subseteq JobIds
  /\ faults \in [Faults -> Nat]
  /\ told \in {"NOTHING", "SENDING", "TOO_LATE"}

Init ==
  /\ unlocks \in {"COLLECTION", "VIDEO"}
  /\ deliveries = [k \in Statuses |-> 0] /\ received = 0
  /\ viewer \in {"ABSENT", "ACTIVE"} /\ blocking = FALSE /\ bot = TRUE
  /\ receipt = [i \in Items |-> "NONE"]
  /\ got = [i \in Items |-> 0]
  /\ job = [j \in JobIds |-> NoJob]
  /\ tap = [t \in Taps |-> NoTap]
  /\ pc = [w \in Workers |-> "idle"]
  /\ on = [w \in Workers |-> None]
  /\ tries = [w \in Workers |-> 0]
  /\ seen = [w \in Workers |-> NoView]
  /\ item = [w \in Workers |-> 0]
  /\ prior = [w \in Workers |-> "NONE"]
  /\ result = [w \in Workers |-> "NONE"]
  /\ scan = [j \in JobIds |-> 0]
  /\ pressed = {} /\ handed = {}
  /\ faults = [k \in Faults |-> 0]
  /\ told = "NOTHING"

Spend(k) ==
  /\ faults[k] < Limit[k]
  /\ k \notin {"tap", "retry"} =>
       faults["raise"] + faults["crash"] + faults["stall"] + faults["error"] + faults["lost"]
         + faults["block"] + faults["stop"] < MaxFaults
  /\ faults' = [faults EXCEPT ![k] = @ + 1]

Exists(j) == job[j].status # "ABSENT"
Held(j) == \E w \in Workers : on[w] = j
AllSent == \A i \in Items : receipt[i] = "SENT"

----------------------------------------------------------------------------
(* The viewer and the bot.                                                  *)

ViewerBlocks ==
  /\ viewer # "ABSENT" /\ ~blocking /\ Spend("block")
  /\ blocking' = TRUE
  /\ told' = "NOTHING"
  /\ UNCHANGED <<single, rows, bot, got, tap, work, upkeep, handed>>

BotStops ==
  /\ bot /\ Spend("stop")
  /\ bot' = FALSE
  /\ UNCHANGED <<single, rows, blocking, got, tap, work, upkeep, history>>

BotStarts ==
  /\ ~bot
  /\ bot' = TRUE
  /\ UNCHANGED <<single, rows, blocking, got, tap, work, upkeep, faults, history>>

----------------------------------------------------------------------------
(* A tap on the link.  An update is handled once: if its request raises, what *)
(* Telegram delivers again is skipped as a duplicate, and the tap is lost.   *)

\* An update with the secret of the bot's webhook that was not served before is
\* passed on: to the administrators' handlers, or else to the viewers' ones if
\* the bot is ACTIVE.  A paused or disconnected bot says so.
PassedOn == bot

\* The video is READY; the viewer's row is read.  To tap, one has to unblock the
\* bot.
TapReads(t) ==
  /\ tap[t].at = "idle" /\ PassedOn /\ Spend("tap")
  /\ blocking' = FALSE
  /\ tap' = [tap EXCEPT ![t].at = "read", ![t].viewer = viewer]
  /\ UNCHANGED <<single, rows, bot, got, work, upkeep, history>>

\* Mutant: requests do not wait for each other.
LockableAnyway(t) == TRUE

HoldsViewer(t) == tap[t].at \in {"locked", "pending", "answered"}
Lockable(t) == \A u \in Taps \ {t} : ~HoldsViewer(u)

\* The viewer's row is written, and locked to the end of the request.  A row
\* inserted meanwhile by another request makes this one raise.
get_or_create_viewer(t) ==
  /\ tap[t].at = "read"
  /\ Lockable(t)
  /\ tap[t].viewer = "ABSENT" => viewer = "ABSENT"

\* What the commit makes of a viewer the request has read.
ActiveAgain(t) == IF tap[t].viewer = "ACTIVE" THEN viewer ELSE "ACTIVE"

\* The job of a collection is looked for.
TapLocks(t) ==
  /\ unlocks = "COLLECTION"
  /\ get_or_create_viewer(t)
  /\ \E j \in JobIds \cup {None} :
       /\ IF \E k \in JobIds : Exists(k) THEN j # None /\ Exists(j) ELSE j = None
       /\ tap' = [tap EXCEPT
            ![t].at = "locked", ![t].job = j,
            ![t].status = IF j = None THEN "ABSENT" ELSE job[j].status,
            ![t].complete = AllSent]
  /\ UNCHANGED <<single, rows, blocking, bot, got, work, upkeep, faults, history>>

\* Mutant: the job is there, and so it is not armed again.
RearmsNothing(t) == FALSE

\* The job is over and the viewer does not have everything.
Rearms(t) == tap[t].status \in {"COMPLETED", "FAILED"} /\ ~tap[t].complete

RearmedJob(j) == [job EXCEPT ![j].status = "PENDING", ![j].due = TRUE, ![j].attempts = 0]
NewJob ==
  [job EXCEPT ![CHOOSE j \in JobIds : ~Exists(j) /\ \A k \in JobIds : Exists(k) \/ j <= k] =
     create_job]

\* A worker is about to end the job because it has seen the viewer BLOCKED.
AboutToGiveUp ==
  \E w \in Workers :
    \/ pc[w] = "loaded" /\ seen[w].viewer = "BLOCKED"
    \/ pc[w] = "answered" /\ result[w] = "BLOCKED"

\* Or it has ended the job since the request read it, or made the viewer BLOCKED
\* since the request read that.
GivenUp(t) ==
  \/ tap[t].viewer = "ACTIVE" /\ viewer = "BLOCKED"
  \/ tap[t].status \in {"PENDING", "RUNNING", "RETRYING"} /\ ~IsActive(job[tap[t].job])

\* A job that is PENDING, RUNNING or RETRYING is left as it is.  Who does not have
\* everything is told that it is being sent.
TapCommits(t) ==
  /\ tap[t].at = "locked"
  /\ viewer' = ActiveAgain(t)
  /\ job' = CASE tap[t].job = None -> NewJob
              [] tap[t].job # None /\ Rearms(t) -> RearmedJob(tap[t].job)
              [] OTHER -> job
  /\ told' = IF blocking \/ \A i \in Items : got[i] > 0 THEN told
             ELSE IF AboutToGiveUp \/ GivenUp(t) THEN "TOO_LATE" ELSE "SENDING"
  /\ handed' = IF tap[t].job # None /\ Rearms(t) /\ Held(tap[t].job)
                 THEN handed \cup {tap[t].job} ELSE handed
  /\ tap' = [tap EXCEPT ![t] = NoTap]
  /\ UNCHANGED <<single, blocking, bot, receipt, got, work, upkeep, faults>>

\* The viewer's row has been inserted by another request, or anything else raises.
TapRaises(t) ==
  /\ \/ /\ tap[t].at = "read" /\ tap[t].viewer = "ABSENT" /\ viewer # "ABSENT"
        /\ UNCHANGED faults
     \/ tap[t].at # "idle" /\ Spend("raise")
  /\ tap' = [tap EXCEPT ![t] = NoTap]
  /\ UNCHANGED <<single, rows, blocking, bot, got, work, upkeep, history>>

----------------------------------------------------------------------------
(* The single video, sent by the request: its row is there before the message, *)
(* and both are forgotten if the request raises before its commit.            *)

create_delivery(t) ==
  /\ unlocks = "VIDEO"
  /\ get_or_create_viewer(t)
  /\ tap' = [tap EXCEPT ![t].at = "pending"]
  /\ UNCHANGED <<single, rows, blocking, bot, got, work, upkeep, faults, history>>

\* Mutant: the send is tried again before the first answer is there.
SendsTwice(t) ==
  /\ tap[t].at = "pending" /\ ~blocking
  /\ received' = received + 2
  /\ tap' = [tap EXCEPT ![t].at = "answered", ![t].result = "SENT"]
  /\ UNCHANGED <<unlocks, deliveries, rows, blocking, bot, got, work, upkeep,
                 faults, history>>

\* The video arrives, or it does not: for a viewer who blocks the bot, by a
\* failure or the pace of Telegram, or for a token that is no longer good.  It
\* may arrive without an answer.
send_video(t) ==
  /\ tap[t].at = "pending"
  /\ \E outcome \in Results \ {"NONE"} :
       /\ tap' = [tap EXCEPT ![t].at = "answered", ![t].result = outcome]
       /\ \/ outcome = "SENT" /\ ~blocking
             /\ received' = received + 1 /\ UNCHANGED faults
          \/ outcome = "FAILED" /\ ~blocking /\ Spend("lost")
             /\ received' = received + 1
          \/ outcome = "BLOCKED" /\ blocking /\ UNCHANGED <<received, faults>>
          \/ outcome \in {"FAILED", "INVALID_TOKEN"} /\ Spend("error") /\ UNCHANGED received
  /\ UNCHANGED <<unlocks, deliveries, rows, blocking, bot, got, work, upkeep,
                 history>>

\* mark_sent, mark_blocked or mark_failed.
Marked(t) == IF tap[t].result = "INVALID_TOKEN" THEN "FAILED" ELSE tap[t].result

\* Who blocks the bot is BLOCKED again; the bot of an invalid token is no longer
\* ACTIVE, even if it has been given another one meanwhile.
deliver_unlocked_video(t) ==
  /\ tap[t].at = "answered"
  /\ deliveries' = [deliveries EXCEPT ![Marked(t)] = @ + 1]
  /\ viewer' = IF tap[t].result = "BLOCKED" THEN "BLOCKED" ELSE ActiveAgain(t)
  /\ bot' = (bot /\ tap[t].result # "INVALID_TOKEN")
  /\ tap' = [tap EXCEPT ![t] = NoTap]
  /\ UNCHANGED <<unlocks, received, receipt, job, blocking, got, work, upkeep,
                 faults, history>>

----------------------------------------------------------------------------
(* The worker.                                                              *)

\* Attempts are only compared with MaxAttempts: they are counted up to it.
claim(w, j) ==
  /\ pc[w] = "idle"
  /\ IsClaimable(job[j])
  /\ LET run == mark_running(job[j])
         n == IF run.attempts > MaxAttempts THEN MaxAttempts ELSE run.attempts
     IN /\ job' = [job EXCEPT ![j] = [run EXCEPT !.attempts = n]]
        /\ tries' = [tries EXCEPT ![w] = n]
  /\ pc' = [pc EXCEPT ![w] = "claimed"]
  /\ on' = [on EXCEPT ![w] = j]
  /\ UNCHANGED <<single, viewer, blocking, bot, receipt, got, tap, seen, item,
                 prior, result, upkeep, faults, history>>

LoadRows(w) ==
  /\ pc[w] = "claimed"
  /\ seen' = [seen EXCEPT ![w] = [viewer |-> viewer, bot |-> bot]]
  /\ pc' = [pc EXCEPT ![w] = "loaded"]
  /\ UNCHANGED <<single, rows, blocking, bot, got, tap, on, tries, item, prior,
                 result, upkeep, faults, history>>

\* The loop starts over with a new session.
Release(w) ==
  /\ pc' = [pc EXCEPT ![w] = "idle"]
  /\ on' = [on EXCEPT ![w] = None]
  /\ tries' = [tries EXCEPT ![w] = 0]
  /\ seen' = [seen EXCEPT ![w] = NoView]
  /\ item' = [item EXCEPT ![w] = 0]
  /\ prior' = [prior EXCEPT ![w] = "NONE"]
  /\ result' = [result EXCEPT ![w] = "NONE"]

mark_retrying(j) == [job EXCEPT ![j].status = "RETRYING", ![j].due = FALSE]

\* A viewer seen BLOCKED ends the job, a stopped bot puts it off.
StopEarly(w) ==
  /\ pc[w] = "loaded"
  /\ \/ /\ seen[w].viewer = "BLOCKED"
        /\ job' = [job EXCEPT ![on[w]] = mark_completed(@)]
     \/ /\ seen[w].viewer # "BLOCKED" /\ ~seen[w].bot
        /\ job' = mark_retrying(on[w])
  /\ Release(w)
  /\ UNCHANGED <<single, viewer, blocking, bot, receipt, got, tap, upkeep, faults,
                 history>>

BeginItems(w) ==
  /\ pc[w] = "loaded"
  /\ seen[w].viewer # "BLOCKED" /\ seen[w].bot
  /\ pc' = [pc EXCEPT ![w] = "items"]
  /\ UNCHANGED <<single, rows, blocking, bot, got, tap, on, tries, seen, item,
                 prior, result, upkeep, faults, history>>

\* Mutant: an item is sent whatever its receipt says.
HasNone(i) == FALSE
HasItem(i) == receipt[i] = "SENT"

\* The next item: passed over, or sent with a new receipt or the one it has.
NextItem(w) ==
  /\ pc[w] = "items" /\ item[w] < N
  /\ LET i == item[w] + 1
     IN /\ item' = [item EXCEPT ![w] = i]
        /\ IF HasItem(i) THEN UNCHANGED <<pc, prior>>
           ELSE /\ prior' = [prior EXCEPT ![w] = receipt[i]]
                /\ pc' = [pc EXCEPT ![w] = IF receipt[i] = "NONE" THEN "inserting"
                                                                  ELSE "sending"]
  /\ UNCHANGED <<single, rows, blocking, bot, got, tap, on, tries, seen, result,
                 upkeep, faults, history>>

\* The insert waits for another worker's insert of the same receipt.
InsertWaits(w) ==
  \E v \in Workers \ {w} :
    pc[v] \in {"sending", "answered"} /\ item[v] = item[w] /\ prior[v] = "NONE"

InsertReceipt(w) ==
  /\ pc[w] = "inserting"
  /\ ~InsertWaits(w) /\ receipt[item[w]] = "NONE"
  /\ pc' = [pc EXCEPT ![w] = "sending"]
  /\ UNCHANGED <<single, rows, blocking, bot, got, tap, on, tries, seen, item,
                 prior, result, upkeep, faults, history>>

\* The unique key is violated: the iteration ends, the job stays RUNNING.
InsertRaises(w) ==
  /\ pc[w] = "inserting"
  /\ ~InsertWaits(w) /\ receipt[item[w]] # "NONE"
  /\ Release(w)
  /\ UNCHANGED <<single, rows, blocking, bot, got, tap, upkeep, faults, history>>

\* What Telegram does, and what the worker is told.  With the last item the
\* viewer has everything.
Send(w) ==
  /\ pc[w] = "sending"
  /\ LET arrives == [got EXCEPT ![item[w]] = @ + 1]
     IN \/ /\ ~blocking /\ got' = arrives
           /\ result' = [result EXCEPT ![w] = "SENT"]
           /\ UNCHANGED faults
        \/ /\ ~blocking /\ got' = arrives /\ Spend("lost")
           /\ result' = [result EXCEPT ![w] = "FAILED"]
        \/ /\ blocking
           /\ result' = [result EXCEPT ![w] = "BLOCKED"]
           /\ UNCHANGED <<got, faults>>
        \/ /\ Spend("error")
           /\ result' = [result EXCEPT ![w] = "FAILED"]
           /\ UNCHANGED got
  /\ told' = IF \A i \in Items : got'[i] > 0 THEN "NOTHING" ELSE told
  /\ pc' = [pc EXCEPT ![w] = "answered"]
  /\ UNCHANGED <<single, rows, blocking, bot, tap, on, tries, seen, item, prior,
                 upkeep, handed>>

\* The receipt is written if its status is not the one that was found.
Stored(w) ==
  [receipt EXCEPT ![item[w]] = IF result[w] = prior[w] THEN @ ELSE result[w]]

CommitSent(w) ==
  /\ pc[w] = "answered" /\ result[w] = "SENT"
  /\ receipt' = Stored(w)
  /\ job' = [job EXCEPT ![on[w]] = update_heartbeat(@)]
  /\ pc' = [pc EXCEPT ![w] = "items"]
  /\ prior' = [prior EXCEPT ![w] = "NONE"]
  /\ result' = [result EXCEPT ![w] = "NONE"]
  /\ UNCHANGED <<single, viewer, blocking, bot, got, tap, on, tries, seen, item,
                 upkeep, faults, history>>

\* The viewer's row is written, when no request holds it.
CommitBlocked(w) ==
  /\ pc[w] = "answered" /\ result[w] = "BLOCKED"
  /\ \A t \in Taps : ~HoldsViewer(t)
  /\ receipt' = Stored(w)
  /\ viewer' = "BLOCKED"
  /\ job' = [job EXCEPT ![on[w]] = mark_completed(@)]
  /\ Release(w)
  /\ UNCHANGED <<single, blocking, bot, got, tap, upkeep, faults, history>>

\* Mutant: a failed item does not keep the others from being sent.
GoOnAfterFailure(w) ==
  /\ pc[w] = "answered" /\ result[w] = "FAILED"
  /\ receipt' = Stored(w)
  /\ pc' = [pc EXCEPT ![w] = "items"]
  /\ prior' = [prior EXCEPT ![w] = "NONE"]
  /\ result' = [result EXCEPT ![w] = "NONE"]
  /\ UNCHANGED <<single, viewer, job, blocking, bot, got, tap, on, tries, seen,
                 item, upkeep, faults, history>>

CommitFailed(w) ==
  /\ pc[w] = "answered" /\ result[w] = "FAILED"
  /\ receipt' = Stored(w)
  /\ job' = IF tries[w] >= MaxAttempts THEN [job EXCEPT ![on[w]] = mark_failed(@)]
                                       ELSE mark_retrying(on[w])
  /\ Release(w)
  /\ UNCHANGED <<single, viewer, blocking, bot, got, tap, upkeep, faults, history>>

EndRun(w) ==
  /\ pc[w] = "items" /\ item[w] = N
  /\ job' = [job EXCEPT ![on[w]] = mark_completed(@)]
  /\ Release(w)
  /\ UNCHANGED <<single, viewer, blocking, bot, receipt, got, tap, upkeep, faults,
                 history>>

Crash(w) ==
  /\ pc[w] # "idle" /\ Spend("crash")
  /\ Release(w)
  /\ UNCHANGED <<single, rows, blocking, bot, got, tap, upkeep, history>>

Step(w) ==
  \/ LoadRows(w) \/ StopEarly(w) \/ BeginItems(w) \/ NextItem(w) \/ InsertReceipt(w)
  \/ InsertRaises(w) \/ Send(w) \/ CommitSent(w) \/ CommitBlocked(w)
  \/ CommitFailed(w) \/ EndRun(w)

----------------------------------------------------------------------------
(* Time, recovery and the retry button, as in BroadcastQueue.               *)

Scanned == {j \in JobIds : scan[j] > 0}

HeartbeatAges(j) ==
  /\ job[j].status = "RUNNING" /\ ~job[j].stale
  /\ job' = [job EXCEPT ![j].stale = TRUE]
  /\ IF Held(j) THEN Spend("stall") ELSE UNCHANGED faults
  /\ UNCHANGED <<single, viewer, blocking, bot, receipt, got, tap, work, upkeep,
                 history>>

DelayElapses(j) ==
  /\ job[j].status = "RETRYING" /\ ~job[j].due
  /\ job' = [job EXCEPT ![j].due = TRUE]
  /\ UNCHANGED <<single, viewer, blocking, bot, receipt, got, tap, work, upkeep,
                 faults, history>>

get_stale_running_jobs ==
  /\ Scanned = {}
  /\ \E j \in JobIds : IsStaleRunning(job[j])
  /\ scan' = [j \in JobIds |-> IF IsStaleRunning(job[j]) THEN job[j].attempts ELSE 0]
  /\ UNCHANGED <<single, rows, blocking, bot, got, tap, work, pressed, faults,
                 history>>

recover_stale_running_jobs ==
  /\ Scanned # {}
  /\ job' = [j \in JobIds |->
               IF j \in Scanned THEN recover_stale(job[j], scan[j], MaxAttempts) ELSE job[j]]
  /\ handed' = handed \cup {j \in Scanned : Held(j)}
  /\ scan' = [j \in JobIds |-> 0]
  /\ UNCHANGED <<single, viewer, blocking, bot, receipt, got, tap, work, pressed,
                 faults, told>>

\* The owner's retry button reads the job without a lock, then writes it.
RetryReads(j) ==
  /\ CanRetry(job[j]) /\ j \notin pressed /\ Spend("retry")
  /\ pressed' = pressed \cup {j}
  /\ UNCHANGED <<single, rows, blocking, bot, got, tap, work, scan, history>>

RetryWrites(j) ==
  /\ j \in pressed
  /\ job' = [job EXCEPT ![j] = retry_job(@)]
  /\ pressed' = pressed \ {j}
  /\ handed' = IF Held(j) THEN handed \cup {j} ELSE handed
  /\ UNCHANGED <<single, viewer, blocking, bot, receipt, got, tap, work, scan,
                 faults, told>>

----------------------------------------------------------------------------
Next ==
  \/ ViewerBlocks \/ BotStops \/ BotStarts
  \/ \E t \in Taps : TapReads(t) \/ TapLocks(t) \/ TapCommits(t) \/ TapRaises(t)
                    \/ create_delivery(t) \/ send_video(t) \/ deliver_unlocked_video(t)
  \/ \E w \in Workers, j \in JobIds : claim(w, j)
  \/ \E w \in Workers : Step(w) \/ Crash(w)
  \/ \E j \in JobIds : HeartbeatAges(j) \/ DelayElapses(j) \/ RetryReads(j) \/ RetryWrites(j)
  \/ get_stale_running_jobs
  \/ recover_stale_running_jobs

Spec == Init /\ [][Next]_vars

(* A request that was begun goes on; the loop of the worker claims a job that *)
(* is there and runs it; time passes; the maintenance cycle comes every 30 s. *)
Fairness ==
  /\ \A t \in Taps : WF_vars(TapLocks(t) \/ TapCommits(t) \/ TapRaises(t))
  /\ WF_vars(\E w \in Workers, j \in JobIds : claim(w, j))
  /\ \A w \in Workers : WF_vars(Step(w))
  /\ \A j \in JobIds : WF_vars(~Held(j) /\ HeartbeatAges(j)) /\ WF_vars(DelayElapses(j))
  /\ WF_vars(get_stale_running_jobs)
  /\ WF_vars(recover_stale_running_jobs)

FairSpec == Spec /\ Fairness

----------------------------------------------------------------------------
(* Properties.                                                              *)

\* "Lock the viewer to serialize simultaneous unlock clicks across API workers":
\* however many taps are served at a time, a collection and a viewer have one job.
OneJobPerUnlock == \A i, j \in JobIds : Exists(i) /\ Exists(j) => i = j

\* "Resumable, ordered delivery": an item arrives for the first time only after
\* all before it, over failures, crashes and two workers on one job.
ArriveInOrder == \A i, j \in Items : i < j /\ got[j] > 0 => got[i] > 0

\* An item arrives twice only for a run that was lost, or an answer that was lost,
\* once for each: unless a job was made claimable under a worker, by the recovery,
\* a retry or a tap, when the outcome of a late worker may be written over a SENT
\* receipt.
ResentOnlyAfterFault ==
  handed = {} => \A i \in Items : got[i] <= 1 + faults["crash"] + faults["lost"]

\* Every video a viewer has received has a row of video_deliveries that says so,
\* and no other row does: but for a request that was rolled back after the send,
\* and an answer that was lost.
DeliveriesAccounted ==
  LET open == Cardinality({t \in Taps : tap[t].at = "answered" /\ tap[t].result = "SENT"})
  IN /\ deliveries["SENT"] <= received
     /\ received <= deliveries["SENT"] + open + faults["raise"] + faults["lost"]

Failed == \E j \in JobIds : job[j].status = "FAILED"

\* Who was told that the collection is being sent receives all of it, unless the
\* job fails as often as it may, the bot is stopped, or the reply came while a
\* worker was ending the job for a viewer it had seen BLOCKED.
EveryTapServed == told = "SENDING" ~> told # "SENDING" \/ Failed \/ ~bot
=============================================================================
