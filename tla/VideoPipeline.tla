--------------------------- MODULE VideoPipeline ---------------------------
(***************************************************************************)
(* From a received video to its broadcast: the transaction that stores a   *)
(* video with its processing job, the video worker (app/workers/           *)
(* video_processing.py, app/services/video_processing_service.py), the     *)
(* creation of the LIVE broadcast, and the maintenance cycle that brings   *)
(* back lost jobs and creates what is missing (app/jobs/recovery.py).      *)
(*                                                                         *)
(* A processing run is one transaction.  Its first write locks the video's *)
(* processing row until it commits, but what it decides by (video, proc)   *)
(* was loaded before.  The cycle is one transaction too; it reads without  *)
(* locks.  A video may get several jobs: job <<v, k>> is its k-th.         *)
(***************************************************************************)
EXTENDS JobRows, Sequences, FiniteSets

CONSTANTS
  Videos, Workers, Cycles,  \* processes that process videos, that do maintenance
  KindOf,       \* how each video was received
  MaxAttempts,  \* RetryPolicy.max_attempts of a VIDEO_PROCESS job
  MaxJobs,      \* bound: jobs per video
  Limit,        \* how many faults of each kind a behaviour has
  None          \* "no job", "no copy"

\* A single video, a collection (its thumbnail is its preview) and a link-only one.
Kinds == {"video", "collection", "link"}

\* A worker or a cycle's process dies or its transaction breaks; processing fails
\* (Telegram, sponsor); a job is put back by hand or by time: the owner presses
\* retry, or a live worker is at one video for more than 300 s.
Faults == {"crash", "error", "handover"}

ASSUME KindOfType == KindOf \in [Videos -> Kinds]
ASSUME MaxAttemptsPositive == MaxAttempts \in Nat \ {0}
ASSUME MaxJobsPositive == MaxJobs \in Nat \ {0}
ASSUME LimitType == Limit \in [Faults -> Nat]
ASSUME NoneApart == None \notin Videos \X Nat

JobIds == Videos \X (1 .. MaxJobs)

VARIABLES
  video,   \* videos.status
  proc,    \* video_processing.status
  links,   \* how many ACTIVE unlock links the video has
  bc,      \* the broadcasts of the video, in order of creation
  job,     \* its rows in background_jobs
  pc,      \* where each worker is
  list,    \* the jobs the worker has read and not begun, with their attempts
  on,      \* the job the worker processes
  copy,    \* video and proc as the worker's transaction loaded them
  found,   \* the link and the broadcasts it has looked up
  cycle,   \* where each maintenance cycle is
  stale,   \* the stale rows the cycle has read, with their attempts
  plan,    \* what the cycle is about to create
  faults   \* faults so far

rows == <<video, proc, links, bc>>
work == <<pc, list, on, copy, found>>
upkeep == <<cycle, stale, plan>>
vars == <<video, proc, links, bc, job, pc, list, on, copy, found,
          cycle, stale, plan, faults>>

\* PROCESSING is written and overwritten within one transaction.
VideoStatuses == {"ABSENT", "RECEIVED", "READY", "FAILED"}
ProcessingStatuses == {"ABSENT", "PENDING", "READY", "FAILED"}

\* The broadcast's status; does it have an active job (live).
Broadcast == [status : {"PENDING", "RUNNING", "OVER"}, live : BOOLEAN]
NewBroadcast == [status |-> "PENDING", live |-> TRUE]

Copy == [video : VideoStatuses, proc : ProcessingStatuses]
Found == [link : BOOLEAN, bc : Seq(Broadcast)]
NotLooked == [link |-> FALSE, bc |-> <<>>]

\* What was read of some rows: their attempts.
IsReading(f) == DOMAIN f \subseteq JobIds /\ f \in [DOMAIN f -> Nat]
NoReading == [j \in {} |-> 0]
Plan == [jobs : SUBSET Videos, broadcasts : SUBSET Videos, again : SUBSET Videos]
NoPlan == [jobs |-> {}, broadcasts |-> {}, again |-> {}]

\* "begun": the job is RUNNING; "loaded": process_video has read its rows;
\* "locked": it has written the processing row; "linked", "found": it has looked
\* for an unlock link, for a broadcast.
TypeOK ==
  /\ video \in [Videos -> VideoStatuses]
  /\ proc \in [Videos -> ProcessingStatuses]
  /\ links \in [Videos -> Nat]
  /\ bc \in [Videos -> Seq(Broadcast)]
  /\ job \in [JobIds -> Job]
  /\ pc \in [Workers -> {"idle", "listed", "begun", "loaded", "locked", "linked", "found"}]
  /\ DOMAIN list = Workers /\ \A w \in Workers : IsReading(list[w])
  /\ on \in [Workers -> JobIds \cup {None}]
  /\ copy \in [Workers -> Copy \cup {None}]
  /\ found \in [Workers -> Found]
  /\ cycle \in [Cycles -> {"idle", "scanned", "reconciling"}]
  /\ DOMAIN stale = Cycles /\ \A c \in Cycles : IsReading(stale[c])
  /\ plan \in [Cycles -> Plan]
  /\ faults \in [Faults -> Nat]

Init ==
  /\ video = [v \in Videos |-> "ABSENT"]
  /\ proc = [v \in Videos |-> "ABSENT"]
  /\ links = [v \in Videos |-> 0]
  /\ bc = [v \in Videos |-> <<>>]
  /\ job = [j \in JobIds |-> NoJob]
  /\ pc = [w \in Workers |-> "idle"]
  /\ list = [w \in Workers |-> NoReading]
  /\ on = [w \in Workers |-> None]
  /\ copy = [w \in Workers |-> None]
  /\ found = [w \in Workers |-> NotLooked]
  /\ cycle = [c \in Cycles |-> "idle"]
  /\ stale = [c \in Cycles |-> NoReading]
  /\ plan = [c \in Cycles |-> NoPlan]
  /\ faults = [k \in Faults |-> 0]

Spend(k) == faults[k] < Limit[k] /\ faults' = [faults EXCEPT ![k] = @ + 1]

IsLink(v) == KindOf[v] = "link"

\* Mutant: any job of the video counts, a FAILED one too.
HasJob(v, jobs) == \E j \in JobIds : j[1] = v /\ jobs[j].status # "ABSENT"

JobsOf(v) == {j \in JobIds : j[1] = v}
HasActiveJob(v, jobs) == \E j \in JobsOf(v) : IsActive(jobs[j])

\* The next job of each video of S, as long as the bound allows one.
NextJob(v) == <<v, 1 + Cardinality({j \in JobsOf(v) : job[j].status # "ABSENT"})>>
create_video_processing_jobs(S, jobs) ==
  [j \in JobIds |-> IF j[1] \in S /\ j = NextJob(j[1]) THEN create_job ELSE jobs[j]]

\* The cycle has written these rows and not committed: other writers wait.
RowLocked(j) == \E c \in Cycles : cycle[c] = "reconciling" /\ j \in DOMAIN stale[c]

At(w, where) == pc[w] = where
VideoOf(w) == on[w][1]

\* A READY video is not processed again.
AlreadyReady(w) == copy[w] = [video |-> "READY", proc |-> "READY"]

\* A worker that has written the video's processing row and not committed.
HoldsLock(w) == pc[w] \in {"locked", "linked", "found"} /\ ~AlreadyReady(w)
ProcLocked(v) == \E w \in Workers : HoldsLock(w) /\ VideoOf(w) = v

----------------------------------------------------------------------------
(* Reception: video, processing row and job are one transaction, whether a  *)
(* single video comes in or a collection is finished.                       *)
CreateVideo(v) ==
  /\ video[v] = "ABSENT"
  /\ video' = [video EXCEPT ![v] = "RECEIVED"]
  /\ proc' = [proc EXCEPT ![v] = "PENDING"]
  /\ job' = create_video_processing_jobs({v}, job)
  /\ UNCHANGED <<links, bc, work, upkeep, faults>>

----------------------------------------------------------------------------
(* The worker.                                                              *)

\* A plain SELECT: no lock, and a job's backoff is not looked at.
Pending == {j \in JobIds : job[j].status \in {"PENDING", "RETRYING"}}

get_pending_jobs(w) ==
  /\ At(w, "idle") /\ Pending # {}
  /\ pc' = [pc EXCEPT ![w] = "listed"]
  /\ list' = [list EXCEPT ![w] = [j \in Pending |-> job[j].attempts]]
  /\ UNCHANGED <<rows, job, on, copy, found, upkeep, faults>>

\* process_job: the row is made RUNNING whatever it says by now; the attempts
\* are those of the list plus one.
BeginJob(w, j) ==
  /\ At(w, "listed") /\ j \in DOMAIN list[w] /\ ~RowLocked(j)
  /\ job' = [job EXCEPT ![j] = mark_running([@ EXCEPT !.attempts = list[w][j]])]
  /\ pc' = [pc EXCEPT ![w] = "begun"]
  /\ on' = [on EXCEPT ![w] = j]
  /\ list' = [list EXCEPT ![w] = [i \in DOMAIN @ \ {j} |-> @[i]]]
  /\ UNCHANGED <<rows, copy, found, upkeep, faults>>

\* process_video reads the video and its processing row.
LoadVideo(w) ==
  LET v == VideoOf(w) IN
  /\ At(w, "begun")
  /\ pc' = [pc EXCEPT ![w] = "loaded"]
  /\ copy' = [copy EXCEPT ![w] = [video |-> video[v], proc |-> proc[v]]]
  /\ UNCHANGED <<rows, job, list, on, found, upkeep, faults>>

\* The transaction ends with the job's outcome; the worker goes on with its list.
EndJob(w, ok) ==
  /\ ~RowLocked(on[w])
  /\ job' = [job EXCEPT ![on[w]] = IF ok THEN mark_completed(@) ELSE mark_failed(@)]
  /\ pc' = [pc EXCEPT ![w] = IF DOMAIN list[w] = {} THEN "idle" ELSE "listed"]
  /\ on' = [on EXCEPT ![w] = None]
  /\ copy' = [copy EXCEPT ![w] = None]
  /\ found' = [found EXCEPT ![w] = NotLooked]

\* The sponsor is not configured, or the token cannot be decrypted: FAILED is
\* written where the loaded copy says something else.
FailEarly(w) ==
  LET v == VideoOf(w) IN
  /\ At(w, "loaded") /\ ~AlreadyReady(w) /\ ~ProcLocked(v)
  /\ Spend("error")
  /\ video' = IF copy[w].video = "FAILED" THEN video ELSE [video EXCEPT ![v] = "FAILED"]
  /\ proc' = IF copy[w].proc = "FAILED" THEN proc ELSE [proc EXCEPT ![v] = "FAILED"]
  /\ EndJob(w, FALSE)
  /\ UNCHANGED <<links, bc, list, upkeep>>

\* Mutant: the first update_progress takes no lock.
LockNothing(w) ==
  /\ At(w, "loaded") /\ ~AlreadyReady(w)
  /\ pc' = [pc EXCEPT ![w] = "locked"]
  /\ UNCHANGED <<rows, job, list, on, copy, found, upkeep, faults>>

\* The first update_progress takes the lock of the processing row.
LockProcessing(w) ==
  /\ At(w, "loaded") /\ ~AlreadyReady(w) /\ ~ProcLocked(VideoOf(w))
  /\ pc' = [pc EXCEPT ![w] = "locked"]
  /\ UNCHANGED <<rows, job, list, on, copy, found, upkeep, faults>>

\* The preview is ready; is there an ACTIVE unlock link already?
FindLink(w) ==
  /\ At(w, "locked")
  /\ pc' = [pc EXCEPT ![w] = "linked"]
  /\ found' = [found EXCEPT ![w].link = links[VideoOf(w)] > 0]
  /\ UNCHANGED <<rows, job, list, on, copy, upkeep, faults>>

\* The thumbnail or the destination fails: FAILED is committed.  For a single
\* video the thumbnail stage has set PROCESSING, so that FAILED is a change;
\* otherwise it goes by the copy.
Fail(w) ==
  LET v == VideoOf(w) IN
  /\ At(w, "locked") \/ At(w, "linked")
  /\ Spend("error")
  /\ video' = IF KindOf[v] # "video" /\ copy[w].video = "FAILED"
                THEN video ELSE [video EXCEPT ![v] = "FAILED"]
  /\ proc' = [proc EXCEPT ![v] = "FAILED"]
  /\ EndJob(w, FALSE)
  /\ UNCHANGED <<links, bc, list, upkeep>>

\* create_live_broadcast looks for the video's broadcast: at the end of the
\* processing, or at once for a READY video.
FindBroadcast(w) ==
  /\ At(w, "linked") \/ (At(w, "loaded") /\ AlreadyReady(w))
  /\ pc' = [pc EXCEPT ![w] = "found"]
  /\ found' = [found EXCEPT ![w].bc = bc[VideoOf(w)]]
  /\ UNCHANGED <<rows, job, list, on, copy, upkeep, faults>>

\* get_by_video_id raises when there are two (MultipleResultsFound).
LookupRaises(bs) == Len(bs) > 1

\* Nothing for a link-only video; a broadcast with its job; or a job for the
\* existing one, unless it has one.
create_live_broadcast(w) ==
  LET v == VideoOf(w)  seen == found[w].bc IN
  bc' = IF IsLink(v) \/ LookupRaises(seen) THEN bc
        ELSE IF seen = <<>> THEN [bc EXCEPT ![v] = Append(@, NewBroadcast)]
        ELSE IF seen[1].live THEN bc
        ELSE [bc EXCEPT ![v][1].live = TRUE]

\* A video found READY stays as it is; else it becomes READY, with a link if it
\* had none.  A lookup that raises fails the job, and what was processed.
Finish(w) ==
  LET v == VideoOf(w)
      ok == IsLink(v) \/ ~LookupRaises(found[w].bc)
      status == IF ok THEN "READY" ELSE "FAILED" IN
  /\ At(w, "found")
  /\ create_live_broadcast(w)
  /\ IF AlreadyReady(w)
       THEN UNCHANGED <<video, proc, links>>
       ELSE /\ video' = [video EXCEPT ![v] = status]
            /\ proc' = [proc EXCEPT ![v] = status]
            /\ links' = IF found[w].link THEN links ELSE [links EXCEPT ![v] = @ + 1]
  /\ EndJob(w, ok)
  /\ UNCHANGED <<list, upkeep, faults>>

\* The process dies or its transaction breaks: the iteration is over and what
\* was not committed is gone.  The job stays RUNNING.
Crash(w) ==
  /\ ~At(w, "idle")
  /\ Spend("crash")
  /\ pc' = [pc EXCEPT ![w] = "idle"]
  /\ list' = [list EXCEPT ![w] = NoReading]
  /\ on' = [on EXCEPT ![w] = None]
  /\ copy' = [copy EXCEPT ![w] = None]
  /\ found' = [found EXCEPT ![w] = NotLooked]
  /\ UNCHANGED <<rows, job, upkeep>>

WorkerStep(w) ==
  \/ get_pending_jobs(w)
  \/ \E j \in JobIds : BeginJob(w, j)
  \/ LoadVideo(w)
  \/ FailEarly(w)
  \/ LockProcessing(w) \/ FindLink(w) \/ Fail(w)
  \/ FindBroadcast(w) \/ Finish(w)

----------------------------------------------------------------------------
(* Time, the owner and the LIVE queue.                                      *)

Abandoned(j) == \A w \in Workers : on[w] # j

\* Processing sends no heartbeat: 300 s after its start a job counts as stale.
HeartbeatAges(j) ==
  /\ job[j].status = "RUNNING" /\ ~job[j].stale
  /\ IF Abandoned(j) THEN UNCHANGED faults ELSE Spend("handover")
  /\ job' = [job EXCEPT ![j].stale = TRUE]
  /\ UNCHANGED <<rows, work, upkeep>>

OwnerRetries(j) ==
  /\ CanRetry(job[j]) /\ ~RowLocked(j)
  /\ Spend("handover")
  /\ job' = [job EXCEPT ![j] = retry_job(@)]
  /\ UNCHANGED <<rows, work, upkeep>>

\* BroadcastQueue, seen from here: a broadcast is claimed, ends, or its job is
\* given up while it is RUNNING.
QueueStep(v, i, next) ==
  /\ bc[v][i].live
  /\ <<bc[v][i].status, next.status>> \in
       {<<"PENDING", "RUNNING">>, <<"RUNNING", "RUNNING">>, <<"RUNNING", "OVER">>}
  /\ next.live = (bc[v][i].status = "PENDING")
  /\ bc' = [bc EXCEPT ![v][i] = next]
  /\ UNCHANGED <<video, proc, links, job, work, upkeep, faults>>

----------------------------------------------------------------------------
(* The maintenance cycle.                                                   *)

ScanStale(c) ==
  LET S == {j \in JobIds : IsStaleRunning(job[j])} IN
  /\ cycle[c] = "idle"
  /\ cycle' = [cycle EXCEPT ![c] = "scanned"]
  /\ stale' = [stale EXCEPT ![c] = [j \in S |-> job[j].attempts]]
  /\ UNCHANGED <<rows, job, work, plan, faults>>

\* The rows as the cycle leaves them: written over what they say by now.
Recovered(c) ==
  [j \in JobIds |-> IF j \in DOMAIN stale[c] THEN recover_stale(job[j], stale[c][j], MaxAttempts)
                                              ELSE job[j]]

\* RECEIVED videos without an active job.
Unprocessed(c) == {v \in Videos : video[v] = "RECEIVED" /\ ~HasActiveJob(v, Recovered(c))}

\* READY videos without a broadcast, or with one that waits without a job.
\* The delivery mode is not looked at.
MissingBroadcast == {v \in Videos : video[v] = "READY" /\ bc[v] = <<>>}
WaitingWithoutJob ==
  {v \in Videos : video[v] = "READY" /\ bc[v] # <<>> /\ bc[v][1].status = "PENDING" /\ ~bc[v][1].live}

\* The stale rows are written and locked, the rest is read.  A READY video with
\* two broadcasts makes the cycle raise, and all of it is rolled back.
Reconcile(c) ==
  LET raises == \E v \in Videos : video[v] = "READY" /\ LookupRaises(bc[v]) IN
  /\ cycle[c] = "scanned"
  /\ \A j \in DOMAIN stale[c] : ~RowLocked(j)
  /\ cycle' = [cycle EXCEPT ![c] = IF raises THEN "idle" ELSE "reconciling"]
  /\ stale' = IF raises THEN [stale EXCEPT ![c] = NoReading] ELSE stale
  /\ plan' = IF raises THEN plan ELSE [plan EXCEPT ![c] =
       [jobs |-> Unprocessed(c), broadcasts |-> MissingBroadcast, again |-> WaitingWithoutJob]]
  /\ UNCHANGED <<rows, job, work, faults>>

CommitCycle(c) ==
  /\ cycle[c] = "reconciling"
  /\ job' = create_video_processing_jobs(plan[c].jobs, Recovered(c))
  /\ bc' = [v \in Videos |->
              IF v \in plan[c].broadcasts THEN Append(bc[v], NewBroadcast)
              ELSE IF v \in plan[c].again THEN [bc[v] EXCEPT ![1].live = TRUE]
              ELSE bc[v]]
  /\ cycle' = [cycle EXCEPT ![c] = "idle"]
  /\ stale' = [stale EXCEPT ![c] = NoReading]
  /\ plan' = [plan EXCEPT ![c] = NoPlan]
  /\ UNCHANGED <<video, proc, links, work, faults>>

CycleDies(c) ==
  /\ cycle[c] # "idle"
  /\ Spend("crash")
  /\ cycle' = [cycle EXCEPT ![c] = "idle"]
  /\ stale' = [stale EXCEPT ![c] = NoReading]
  /\ plan' = [plan EXCEPT ![c] = NoPlan]
  /\ UNCHANGED <<rows, job, work>>

CycleStep(c) == ScanStale(c) \/ Reconcile(c) \/ CommitCycle(c)

----------------------------------------------------------------------------
Next ==
  \/ \E v \in Videos : CreateVideo(v)
  \/ \E w \in Workers : WorkerStep(w) \/ Crash(w)
  \/ \E j \in JobIds : HeartbeatAges(j) \/ OwnerRetries(j)
  \/ \E v \in Videos, next \in Broadcast : \E i \in DOMAIN bc[v] : QueueStep(v, i, next)
  \/ \E c \in Cycles : CycleStep(c) \/ CycleDies(c)

Spec == Init /\ [][Next]_vars

\* The loops of the worker and of the scheduler run for ever; time passes.
Fairness ==
  /\ \A w \in Workers : WF_vars(WorkerStep(w))
  /\ \A j \in JobIds : WF_vars(HeartbeatAges(j) /\ Abandoned(j))
  /\ \A c \in Cycles : WF_vars(CycleStep(c))

FairSpec == Spec /\ Fairness

----------------------------------------------------------------------------
(* Properties.                                                              *)

\* A published video has one broadcast when it is READY and never two, and no
\* video has two active unlock links, however many of its jobs are processed
\* at once: the lookups of both expect at most one row.
OneOfEach ==
  \A v \in Videos :
    /\ links[v] <= 1
    /\ ~IsLink(v) => /\ Len(bc[v]) <= 1
                     /\ video[v] = "READY" => Len(bc[v]) = 1

\* Every received video becomes READY or FAILED, over crashes of the worker and
\* of the cycle and although the recovery gives a job up: the cycle makes a new one.
EveryVideoSettles ==
  \A v \in Videos : video[v] = "RECEIVED" ~> video[v] \in {"READY", "FAILED"}

\* "Link-only videos cannot be broadcast" (broadcast_creation_service.py:38).
LinkOnlyNotBroadcast == \A v \in Videos : IsLink(v) => bc[v] = <<>>
=============================================================================
