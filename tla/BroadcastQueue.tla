-------------------------- MODULE BroadcastQueue --------------------------
(***************************************************************************)
(* How LIVE broadcasts reach a worker and come to an end: the claim of a   *)
(* job (app/repositories/job.py), the run of its broadcast by a worker     *)
(* process (app/workers/live_broadcast.py, app/services/                   *)
(* broadcast_service.py), the recovery of jobs whose worker stopped        *)
(* reporting (app/jobs/recovery.py) and the platform owner's retry button. *)
(*                                                                         *)
(* A broadcast has one job here, so a job is named by its broadcast.  What *)
(* a run sends to whom is the subject of BroadcastRun; here a run is the   *)
(* sequence of its commits.                                                *)
(*                                                                         *)
(* Every action is one database transaction, or one transaction's read     *)
(* where the code acts later on what it read without a lock.  A worker     *)
(* keeps the copy of the broadcast its session loaded when the run began:  *)
(* later reads return that copy, and a status is written only when the     *)
(* copy's value changes.                                                   *)
(***************************************************************************)
EXTENDS JobRows

CONSTANTS
  Bots, Broadcasts, Workers,
  BotOf,        \* the bot each broadcast belongs to
  MaxAttempts,  \* RetryPolicy.max_attempts of a BROADCAST job
  Limit,        \* how many faults of each kind a behaviour has
  None          \* "holds no job"

\* What can disturb the queue, each counted so that a run can bound it: a
\* worker process dies; a live worker goes 300 s without a heartbeat; a run
\* raises; the owner presses retry.
Faults == {"crash", "stall", "raise", "retry"}

ASSUME BotOfType == BotOf \in [Broadcasts -> Bots]
ASSUME MaxAttemptsPositive == MaxAttempts \in Nat \ {0}
ASSUME LimitType == Limit \in [Faults -> Nat]
ASSUME NoneNotBroadcast == None \notin Broadcasts

VARIABLES
  bot,       \* is the bot ACTIVE, with a token
  bc,        \* broadcasts.status
  snapped,   \* broadcasts whose audience snapshot is taken
  job,       \* the broadcast's row in background_jobs
  pc,        \* where each worker is in its loop
  hold,      \* the broadcast whose job the worker claimed
  seen,      \* the status in the worker's copy of that broadcast
  scan,      \* attempts of the stale rows the maintenance cycle has read
  pressed,   \* rows an owner's retry has read as retryable
  faults,    \* faults so far
  handed     \* history: broadcasts whose job became claimable while a worker
             \* was working on it

vars == <<bot, bc, snapped, job, pc, hold, seen, scan, pressed, faults, handed>>

Settled == {"COMPLETED", "PARTIAL", "FAILED"}
BroadcastStatuses == {"ABSENT", "PENDING", "RUNNING"} \cup Settled

\* "claimed": the claim is committed, run_broadcast has read nothing yet;
\* "starting"/"resuming": it has loaded the broadcast, without or with an
\* audience snapshot, and written nothing; "started": its first commit is done;
\* "dispatch": it has committed a page; "succeeded"/"failed": run_broadcast
\* returned, the job is not yet updated.
Loaded == {"starting", "resuming"}
Dispatching == {"started", "dispatch"}
PCs == {"idle", "claimed", "succeeded", "failed"} \cup Loaded \cup Dispatching

TypeOK ==
  /\ bot \in [Bots -> BOOLEAN]
  /\ bc \in [Broadcasts -> BroadcastStatuses]
  /\ snapped \subseteq Broadcasts
  /\ job \in [Broadcasts -> Job]
  /\ pc \in [Workers -> PCs]
  /\ hold \in [Workers -> Broadcasts \cup {None}]
  /\ seen \in [Workers -> BroadcastStatuses \cup {"NONE"}]
  /\ scan \in [Broadcasts -> Nat]
  /\ pressed \subseteq Broadcasts
  /\ faults \in [Faults -> Nat]
  /\ handed \subseteq Broadcasts

Init ==
  /\ bot = [i \in Bots |-> TRUE]
  /\ bc = [b \in Broadcasts |-> "ABSENT"]
  /\ snapped = {}
  /\ job = [b \in Broadcasts |-> NoJob]
  /\ pc = [w \in Workers |-> "idle"]
  /\ hold = [w \in Workers |-> None]
  /\ seen = [w \in Workers |-> "NONE"]
  /\ scan = [b \in Broadcasts |-> 0]
  /\ pressed = {}
  /\ faults = [k \in Faults |-> 0]
  /\ handed = {}

Held(b) == \E w \in Workers : hold[w] = b

Spend(k) == faults[k] < Limit[k] /\ faults' = [faults EXCEPT ![k] = @ + 1]

\* Another LIVE broadcast of the same bot is RUNNING.
BlockedByRunning(b) ==
  \E c \in Broadcasts : c # b /\ BotOf[c] = BotOf[b] /\ bc[c] = "RUNNING"

----------------------------------------------------------------------------
(* Creation: the broadcast and its job are inserted in one transaction, for *)
(* a video made READY, a READY video found without one, or a campaign.      *)
CreateBroadcast(b) ==
  /\ bc[b] = "ABSENT"
  /\ bc' = [bc EXCEPT ![b] = "PENDING"]
  /\ job' = [job EXCEPT ![b] = create_job]
  /\ UNCHANGED <<bot, snapped, pc, hold, seen, scan, pressed, faults, handed>>

(* disconnect_bot, and a token found invalid, touch the bot's row alone;    *)
(* provisioning it again does not touch its broadcasts either.              *)
BotStops(i) ==
  /\ bot[i]
  /\ bot' = [bot EXCEPT ![i] = FALSE]
  /\ UNCHANGED <<bc, snapped, job, pc, hold, seen, scan, pressed, faults, handed>>

BotStarts(i) ==
  /\ ~bot[i]
  /\ bot' = [bot EXCEPT ![i] = TRUE]
  /\ UNCHANGED <<bc, snapped, job, pc, hold, seen, scan, pressed, faults, handed>>

----------------------------------------------------------------------------
(* The worker.                                                              *)

\* Mutants: the claim does not look at the bot's other broadcasts; at the
\* status of its own.
CanClaimBesideRunning(b) == IsClaimable(job[b]) /\ bc[b] \in {"PENDING", "RUNNING"}
CanClaimSettled(b) == IsClaimable(job[b]) /\ ~BlockedByRunning(b)

\* The row locks on the job, its bot and its broadcast make the claim atomic.
CanClaim(b) ==
  /\ IsClaimable(job[b])
  /\ bc[b] \in {"PENDING", "RUNNING"}
  /\ ~BlockedByRunning(b)

claim_runnable_broadcast_jobs(w, b) ==
  /\ pc[w] = "idle"
  /\ CanClaim(b)
  /\ job' = [job EXCEPT ![b] = mark_running(@)]
  /\ bc' = [bc EXCEPT ![b] = "RUNNING"]
  /\ pc' = [pc EXCEPT ![w] = "claimed"]
  /\ hold' = [hold EXCEPT ![w] = b]
  /\ UNCHANGED <<bot, snapped, seen, scan, pressed, faults, handed>>

\* run_broadcast finds the broadcast finished and does nothing.
AlreadyTerminal(w) ==
  /\ pc[w] = "claimed"
  /\ bc[hold[w]] = "COMPLETED"
  /\ pc' = [pc EXCEPT ![w] = "succeeded"]
  /\ UNCHANGED <<bot, bc, snapped, job, hold, seen, scan, pressed, faults, handed>>

\* The session loads its copy of the broadcast, which it keeps to the end.
LoadBroadcast(w) ==
  /\ pc[w] = "claimed"
  /\ bc[hold[w]] # "COMPLETED"
  /\ seen' = [seen EXCEPT ![w] = bc[hold[w]]]
  /\ pc' = [pc EXCEPT ![w] = IF hold[w] \in snapped THEN "resuming" ELSE "starting"]
  /\ UNCHANGED <<bot, bc, snapped, job, hold, scan, pressed, faults, handed>>

\* A new value of the copy's status is written; an unchanged one is not.
Write(w, s) == bc' = IF s = seen[w] THEN bc ELSE [bc EXCEPT ![hold[w]] = s]

\* Mutant: a failed preflight fails the job but not the broadcast.
PreflightForgets(w) ==
  /\ pc[w] \in Loaded
  /\ ~bot[BotOf[hold[w]]]
  /\ pc' = [pc EXCEPT ![w] = "failed"]
  /\ seen' = [seen EXCEPT ![w] = "NONE"]
  /\ UNCHANGED <<bot, bc, snapped, job, hold, scan, pressed, faults, handed>>

PreflightFails(w) ==
  /\ pc[w] \in Loaded
  /\ ~bot[BotOf[hold[w]]]
  /\ Write(w, "FAILED")
  /\ pc' = [pc EXCEPT ![w] = "failed"]
  /\ seen' = [seen EXCEPT ![w] = "NONE"]
  /\ UNCHANGED <<bot, snapped, job, hold, scan, pressed, faults, handed>>

\* The preflight passes: the broadcast is made RUNNING, and its audience is
\* snapshot unless it was before.
StartRun(w) ==
  /\ pc[w] \in Loaded
  /\ bot[BotOf[hold[w]]]
  /\ Write(w, "RUNNING")
  /\ snapped' = snapped \cup {hold[w]}
  /\ pc' = [pc EXCEPT ![w] = "started"]
  /\ seen' = [seen EXCEPT ![w] = "RUNNING"]
  /\ UNCHANGED <<bot, job, hold, scan, pressed, faults, handed>>

\* The snapshot finds no viewer: COMPLETED at once.
EmptyAudience(w) ==
  /\ pc[w] = "starting"
  /\ bot[BotOf[hold[w]]]
  /\ bc' = [bc EXCEPT ![hold[w]] = "COMPLETED"]
  /\ snapped' = snapped \cup {hold[w]}
  /\ pc' = [pc EXCEPT ![w] = "succeeded"]
  /\ seen' = [seen EXCEPT ![w] = "NONE"]
  /\ UNCHANGED <<bot, job, hold, scan, pressed, faults, handed>>

\* The media of a Control Hub campaign cannot be fetched.
MediaUnavailable(w) ==
  /\ pc[w] = "started"
  /\ Write(w, "FAILED")
  /\ pc' = [pc EXCEPT ![w] = "failed"]
  /\ seen' = [seen EXCEPT ![w] = "NONE"]
  /\ UNCHANGED <<bot, snapped, job, hold, scan, pressed, faults, handed>>

\* What update_progress_and_cursor may make of the status of the session's
\* copy: nothing while fewer viewers are processed than were counted, then
\* COMPLETED, or PARTIAL from the first failure on.
Progress(s) ==
  CASE s = "RUNNING"   -> {"RUNNING", "COMPLETED", "PARTIAL"}
    [] s = "COMPLETED" -> {"COMPLETED", "PARTIAL"}
    [] s = "PARTIAL"   -> {"PARTIAL"}

\* One page of viewers is dispatched and committed with a heartbeat for the
\* broadcast's job if the row is active: the session's own copy of the row
\* still says RUNNING.
CommitPage(w) ==
  /\ pc[w] \in Dispatching
  /\ \E s \in Progress(seen[w]) :
       Write(w, s) /\ seen' = [seen EXCEPT ![w] = s]
  /\ job' = IF IsActive(job[hold[w]])
              THEN [job EXCEPT ![hold[w]] = update_heartbeat(@)] ELSE job
  /\ pc' = [pc EXCEPT ![w] = "dispatch"]
  /\ UNCHANGED <<bot, snapped, hold, scan, pressed, faults, handed>>

\* No viewer is left: mark_completed, unless a page already did.
EndRun(w) ==
  /\ pc[w] \in Dispatching
  /\ IF seen[w] = "RUNNING"
       THEN \E s \in {"COMPLETED", "PARTIAL"} : Write(w, s)
       ELSE UNCHANGED bc
  /\ pc' = [pc EXCEPT ![w] = "succeeded"]
  /\ seen' = [seen EXCEPT ![w] = "NONE"]
  /\ UNCHANGED <<bot, snapped, job, hold, scan, pressed, faults, handed>>

\* The worker's loop starts over, with a new session.
Release(w) ==
  /\ pc' = [pc EXCEPT ![w] = "idle"]
  /\ hold' = [hold EXCEPT ![w] = None]
  /\ seen' = [seen EXCEPT ![w] = "NONE"]

\* process_job writes the outcome over whatever the row says by now.
FinishJob(w) ==
  /\ pc[w] \in {"succeeded", "failed"}
  /\ job' = [job EXCEPT ![hold[w]] =
               IF pc[w] = "succeeded" THEN mark_completed(@) ELSE mark_failed(@)]
  /\ Release(w)
  /\ UNCHANGED <<bot, bc, snapped, scan, pressed, faults, handed>>

\* run_broadcast raises: the job is failed, the broadcast left as it is.
RunRaises(w) ==
  /\ pc[w] \in {"claimed"} \cup Loaded \cup Dispatching
  /\ Spend("raise")
  /\ job' = [job EXCEPT ![hold[w]] = mark_failed(@)]
  /\ Release(w)
  /\ UNCHANGED <<bot, bc, snapped, scan, pressed, handed>>

\* The process dies, or its database session is lost and the loop goes on.
Crash(w) ==
  /\ pc[w] # "idle"
  /\ Spend("crash")
  /\ Release(w)
  /\ UNCHANGED <<bot, bc, snapped, job, scan, pressed, handed>>

----------------------------------------------------------------------------
(* Time.                                                                    *)

\* 300 s pass without a heartbeat, which is a fault of the worker if one is
\* still at work: a long 429 pause, a hung connection, a suspended process.
HeartbeatAges(b) ==
  /\ job[b].status = "RUNNING" /\ ~job[b].stale
  /\ job' = [job EXCEPT ![b].stale = TRUE]
  /\ IF Held(b) THEN Spend("stall") ELSE UNCHANGED faults
  /\ UNCHANGED <<bot, bc, snapped, pc, hold, seen, scan, pressed, handed>>

BackoffElapses(b) ==
  /\ job[b].status = "RETRYING" /\ ~job[b].due
  /\ job' = [job EXCEPT ![b].due = TRUE]
  /\ UNCHANGED <<bot, bc, snapped, pc, hold, seen, scan, pressed, faults, handed>>

----------------------------------------------------------------------------
(* The scheduler's maintenance cycle reads the stale rows without a lock    *)
(* and writes each of them by its key.                                      *)
get_stale_running_jobs ==
  /\ scan = [b \in Broadcasts |-> 0]
  /\ \E b \in Broadcasts : IsStaleRunning(job[b])
  /\ scan' = [b \in Broadcasts |->
                IF IsStaleRunning(job[b]) THEN job[b].attempts ELSE 0]
  /\ UNCHANGED <<bot, bc, snapped, job, pc, hold, seen, pressed, faults, handed>>

Scanned == {b \in Broadcasts : scan[b] > 0}

recover_stale_running_jobs ==
  /\ Scanned # {}
  /\ job' = [b \in Broadcasts |->
               IF b \in Scanned THEN recover_stale(job[b], scan[b], MaxAttempts)
                                ELSE job[b]]
  /\ handed' = handed \cup {b \in Scanned : scan[b] < MaxAttempts /\ Held(b)}
  /\ scan' = [b \in Broadcasts |-> 0]
  /\ UNCHANGED <<bot, bc, snapped, pc, hold, seen, pressed, faults>>

----------------------------------------------------------------------------
(* The owner's retry button: the same unlocked read, then a write.          *)
RetryReads(b) ==
  /\ CanRetry(job[b])
  /\ b \notin pressed
  /\ Spend("retry")
  /\ pressed' = pressed \cup {b}
  /\ UNCHANGED <<bot, bc, snapped, job, pc, hold, seen, scan, handed>>

RetryWrites(b) ==
  /\ b \in pressed
  /\ job' = [job EXCEPT ![b] = retry_job(@)]
  /\ pressed' = pressed \ {b}
  /\ handed' = IF Held(b) THEN handed \cup {b} ELSE handed
  /\ UNCHANGED <<bot, bc, snapped, pc, hold, seen, scan, faults>>

----------------------------------------------------------------------------
RunStep(w) ==
  \/ AlreadyTerminal(w) \/ LoadBroadcast(w) \/ PreflightFails(w) \/ StartRun(w)
  \/ EmptyAudience(w) \/ MediaUnavailable(w) \/ CommitPage(w) \/ EndRun(w)
  \/ FinishJob(w)

Next ==
  \/ \E b \in Broadcasts :
       \/ CreateBroadcast(b) \/ HeartbeatAges(b) \/ BackoffElapses(b)
       \/ RetryReads(b) \/ RetryWrites(b)
  \/ \E i \in Bots : BotStops(i) \/ BotStarts(i)
  \/ \E w \in Workers, b \in Broadcasts : claim_runnable_broadcast_jobs(w, b)
  \/ \E w \in Workers : RunStep(w) \/ RunRaises(w) \/ Crash(w)
  \/ get_stale_running_jobs
  \/ recover_stale_running_jobs

Spec == Init /\ [][Next]_vars

(* The worker loop polls for ever and a run of it goes on unless it fails;  *)
(* a page is followed by another or, the audience being finite, by the end  *)
(* of the run; the scheduler runs the maintenance cycle every 30 s; time    *)
(* passes.  Nothing is assumed of owners, bots or faults.                   *)
Fairness ==
  /\ \A w \in Workers :
       /\ WF_vars(\E b \in Broadcasts : claim_runnable_broadcast_jobs(w, b))
       /\ WF_vars(AlreadyTerminal(w) \/ LoadBroadcast(w))
       /\ WF_vars(PreflightFails(w) \/ StartRun(w) \/ EmptyAudience(w))
       /\ WF_vars(EndRun(w) \/ MediaUnavailable(w))
       /\ WF_vars(FinishJob(w))
  /\ \A b \in Broadcasts :
       /\ WF_vars(~Held(b) /\ HeartbeatAges(b))
       /\ WF_vars(BackoffElapses(b))
       /\ WF_vars(RetryWrites(b))
  /\ WF_vars(get_stale_running_jobs)
  /\ WF_vars(recover_stale_running_jobs)

FairSpec == Spec /\ Fairness

----------------------------------------------------------------------------
(* Properties.                                                              *)

\* Two workers are at work on one broadcast only if its job was made claimable
\* (recovery, retry) while a worker was still at work on it: the claim alone
\* never gives a job to two workers.
NoUnexplainedDoubleRun ==
  \A v, w \in Workers :
    v # w /\ hold[v] # None /\ hold[v] = hold[w] => hold[v] \in handed

\* One LIVE broadcast of a bot is RUNNING at a time, unless the job of one of
\* them was made claimable under a worker: the late worker's run then sets its
\* broadcast RUNNING again beside the one claimed meanwhile.
OneLivePerBotUnlessHanded ==
  \A b, c \in Broadcasts :
    b # c /\ BotOf[b] = BotOf[c] /\ bc[b] = "RUNNING" /\ bc[c] = "RUNNING"
      => {b, c} \cap handed # {}

\* A broadcast that is over is never run again, unless its job was made
\* claimable under a worker.  The job's row may well come back to life, when
\* the recovery overwrites the outcome that the worker has just committed or
\* the owner retries it.
SettledStaysSettled ==
  [][\A b \in Broadcasts :
       bc[b] \in Settled /\ b \notin handed => bc'[b] \in Settled]_vars

\* The queue keeps what LiveQueue promises: only the claim makes a waiting
\* broadcast go, only a worker that holds it ends it, and one that is over goes
\* again only under a worker it was taken from.
Stage(s) ==
  CASE s = "ABSENT"  -> "none"
    [] s = "PENDING" -> "waiting"
    [] s = "RUNNING" -> "going"
    [] s \in Settled -> "over"

Promise ==
  INSTANCE LiveQueue WITH
    stage <- [b \in Broadcasts |-> Stage(bc[b])], at <- hold, loose <- handed

KeepsPromise == Promise!Spec

\* A broadcast that nothing will ever move: RUNNING under a FAILED job.
Stranded(b) == bc[b] = "RUNNING" /\ job[b].status = "FAILED" /\ ~Held(b)

\* Stranded by a run that raised, or by workers lost as often as the job allows.
StrandedByFaults(b) ==
  Stranded(b) /\ (faults["raise"] > 0 \/ job[b].attempts >= MaxAttempts)

\* Every broadcast comes to an end, over crashes and over takeovers, unless one
\* of its own bot is stranded.  Not over a takeover and a lost run both: a late
\* worker marks the job COMPLETED that another has claimed since, and if that
\* one dies or raises nobody will claim the job again.
EveryBroadcastSettles ==
  \A b \in Broadcasts :
    bc[b] = "PENDING" ~>
      \/ bc[b] \in Settled
      \/ \E c \in Broadcasts : BotOf[c] = BotOf[b] /\ StrandedByFaults(c)
      \/ handed # {} /\ (faults["crash"] > 0 \/ faults["raise"] > 0)

----------------------------------------------------------------------------
(* What the code's comments say and the runs refute.                        *)

\* The recovery "safely recovers stale, stranded, or lost background jobs and
\* domain operations": whatever fails, every broadcast comes to an end.
NoBroadcastStranded ==
  \A b \in Broadcasts : bc[b] = "PENDING" ~> bc[b] \in Settled
=============================================================================
