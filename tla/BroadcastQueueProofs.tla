----------------------- MODULE BroadcastQueueProofs -----------------------
(***************************************************************************)
(* For any bots, broadcasts, workers and bounds on faults: the queue's     *)
(* variables keep their types, a broadcast is in the hands of two workers  *)
(* only after its job was made claimable under a worker, one broadcast of  *)
(* a bot is RUNNING at a time until then, and what is settled stays so.    *)
(***************************************************************************)
EXTENDS BroadcastQueue, TLAPS

----------------------------------------------------------------------------
(* Job rows.                                                                *)

LEMMA RowTypes ==
  ASSUME NEW row \in Job, NEW n \in Nat, NEW m \in Nat
  PROVE  /\ NoJob \in Job
         /\ create_job \in Job
         /\ mark_running(row) \in Job
         /\ mark_completed(row) \in Job
         /\ mark_failed(row) \in Job
         /\ update_heartbeat(row) \in Job
         /\ recover_stale(row, n, m) \in Job
         /\ retry_job(row) \in Job
         /\ [row EXCEPT !.stale = TRUE] \in Job
         /\ [row EXCEPT !.due = TRUE] \in Job
<1>. USE DEF Job, JobStatuses
<1>1. NoJob \in Job /\ create_job \in Job
  BY DEF NoJob, create_job
<1>2. mark_running(row) \in Job
  <2>1. ASSUME NEW k \in Nat
        PROVE  [row EXCEPT !.status = "RUNNING", !.attempts = k, !.stale = FALSE] \in Job
    OBVIOUS
  <2>2. row.attempts + 1 \in Nat
    OBVIOUS
  <2>. QED  BY <2>1, <2>2 DEF mark_running
<1>3. mark_completed(row) \in Job /\ mark_failed(row) \in Job
  BY DEF mark_completed, mark_failed
<1>4. update_heartbeat(row) \in Job
  BY DEF update_heartbeat
<1>5. recover_stale(row, n, m) \in Job
  <2>1. [row EXCEPT !.status = "FAILED"] \in Job
    OBVIOUS
  <2>2. [row EXCEPT !.status = "RETRYING", !.due = FALSE] \in Job
    OBVIOUS
  <2>. QED  BY <2>1, <2>2 DEF recover_stale
<1>6. retry_job(row) \in Job
  BY DEF retry_job
<1>7. [row EXCEPT !.stale = TRUE] \in Job /\ [row EXCEPT !.due = TRUE] \in Job
  OBVIOUS
<1>. QED  BY <1>1, <1>2, <1>3, <1>4, <1>5, <1>6, <1>7

LEMMA RowStatuses ==
  ASSUME NEW row \in Job, NEW n \in Nat, NEW m \in Nat
  PROVE  /\ mark_running(row).status = "RUNNING"
         /\ mark_failed(row).status = "FAILED"
         /\ update_heartbeat(row).status = row.status
         /\ n >= m => recover_stale(row, n, m).status = "FAILED"
         /\ [row EXCEPT !.stale = TRUE].status = row.status
         /\ [row EXCEPT !.due = TRUE].status = row.status
<1>1. mark_running(row).status = "RUNNING"
  BY DEF Job, mark_running
<1>2. mark_failed(row).status = "FAILED"
  BY DEF Job, mark_failed
<1>3. update_heartbeat(row).status = row.status
  BY DEF Job, update_heartbeat
<1>4. n >= m => recover_stale(row, n, m).status = "FAILED"
  BY DEF Job, recover_stale
<1>5. /\ [row EXCEPT !.stale = TRUE].status = row.status
      /\ [row EXCEPT !.due = TRUE].status = row.status
  BY DEF Job
<1>. QED  BY <1>1, <1>2, <1>3, <1>4, <1>5

----------------------------------------------------------------------------
(* Types, and what ties a worker's place in its loop to the job it holds.   *)

\* A worker holds a job exactly when it is not idle.
HoldsUnlessIdle == \A w \in Workers : pc[w] = "idle" <=> hold[w] = None

\* While a run dispatches, its session's copy has a status it wrote.
SeenWhileDispatching ==
  \A w \in Workers :
    pc[w] \in Dispatching => seen[w] \in {"RUNNING", "COMPLETED", "PARTIAL"}

Shape == TypeOK /\ HoldsUnlessIdle /\ SeenWhileDispatching

LEMMA InitShape == Init => Shape
<1>. SUFFICES ASSUME Init PROVE Shape
  OBVIOUS
<1>. USE BotOfType DEF Init
<1>1. TypeOK
  <2>1. NoJob \in Job
    BY DEF NoJob, Job, JobStatuses
  <2>. QED  BY <2>1 DEF TypeOK, BroadcastStatuses, PCs
<1>2. HoldsUnlessIdle /\ SeenWhileDispatching
  BY NoneNotBroadcast DEF HoldsUnlessIdle, SeenWhileDispatching, Dispatching
<1>. QED  BY <1>1, <1>2 DEF Shape

LEMMA HeldBroadcast ==
  ASSUME Shape, NEW w \in Workers, pc[w] # "idle"
  PROVE  hold[w] \in Broadcasts /\ job[hold[w]] \in Job /\ hold[w] # None
BY NoneNotBroadcast DEF Shape, TypeOK, HoldsUnlessIdle

LEMMA ReleaseShape ==
  ASSUME Shape, NEW w \in Workers, Release(w)
  PROVE  /\ pc' \in [Workers -> PCs]
         /\ hold' \in [Workers -> Broadcasts \cup {None}]
         /\ seen' \in [Workers -> BroadcastStatuses \cup {"NONE"}]
         /\ HoldsUnlessIdle'
         /\ SeenWhileDispatching'
BY DEF Shape, TypeOK, Release, PCs, Dispatching, HoldsUnlessIdle,
       SeenWhileDispatching

LEMMA SpendType ==
  ASSUME Shape, NEW k \in Faults, Spend(k)
  PROVE  faults' \in [Faults -> Nat]
BY DEF Shape, TypeOK, Spend

LEMMA StepShape == Shape /\ [Next]_vars => Shape'
<1>. SUFFICES ASSUME Shape, [Next]_vars PROVE Shape'
  OBVIOUS
<1>. USE BotOfType, RowTypes DEF Shape
<1>1. CASE UNCHANGED vars
  BY <1>1 DEF vars, TypeOK, HoldsUnlessIdle, SeenWhileDispatching
<1>2. ASSUME NEW b \in Broadcasts, CreateBroadcast(b) PROVE Shape'
  <2>1. TypeOK'
    BY <1>2 DEF CreateBroadcast, TypeOK, BroadcastStatuses
  <2>. QED  BY <1>2, <2>1 DEF CreateBroadcast, HoldsUnlessIdle, SeenWhileDispatching
<1>3. ASSUME NEW b \in Broadcasts, HeartbeatAges(b) PROVE Shape'
  <2>1. faults' \in [Faults -> Nat]
    BY <1>3, SpendType DEF HeartbeatAges, Faults, TypeOK
  <2>2. TypeOK'
    BY <1>3, <2>1 DEF HeartbeatAges, TypeOK
  <2>. QED  BY <1>3, <2>2 DEF HeartbeatAges, HoldsUnlessIdle, SeenWhileDispatching
<1>4. ASSUME NEW b \in Broadcasts, BackoffElapses(b) PROVE Shape'
  BY <1>4 DEF BackoffElapses, TypeOK, HoldsUnlessIdle, SeenWhileDispatching
<1>5. ASSUME NEW b \in Broadcasts, RetryReads(b) PROVE Shape'
  <2>1. faults' \in [Faults -> Nat]
    BY <1>5, SpendType DEF RetryReads, Faults
  <2>. QED  BY <1>5, <2>1 DEF RetryReads, TypeOK, HoldsUnlessIdle, SeenWhileDispatching
<1>6. ASSUME NEW b \in Broadcasts, RetryWrites(b) PROVE Shape'
  BY <1>6 DEF RetryWrites, TypeOK, HoldsUnlessIdle, SeenWhileDispatching
<1>7. ASSUME NEW i \in Bots, BotStops(i) \/ BotStarts(i) PROVE Shape'
  BY <1>7 DEF BotStops, BotStarts, TypeOK, HoldsUnlessIdle, SeenWhileDispatching
<1>8. ASSUME NEW w \in Workers, NEW b \in Broadcasts,
             claim_runnable_broadcast_jobs(w, b)
      PROVE  Shape'
  <2>1. TypeOK'
    BY <1>8 DEF claim_runnable_broadcast_jobs, TypeOK, BroadcastStatuses, PCs
  <2>2. HoldsUnlessIdle'
    BY <1>8, NoneNotBroadcast DEF claim_runnable_broadcast_jobs, TypeOK, HoldsUnlessIdle
  <2>3. SeenWhileDispatching'
    BY <1>8 DEF claim_runnable_broadcast_jobs, TypeOK, SeenWhileDispatching, Dispatching
  <2>. QED  BY <2>1, <2>2, <2>3
<1>9. ASSUME NEW w \in Workers,
             AlreadyTerminal(w) \/ LoadBroadcast(w) \/ PreflightFails(w)
               \/ StartRun(w) \/ EmptyAudience(w) \/ MediaUnavailable(w)
      PROVE  Shape'
  <2>. USE DEF AlreadyTerminal, LoadBroadcast, PreflightFails, StartRun, EmptyAudience,
               MediaUnavailable, Write, Loaded, Dispatching
  <2>1. hold[w] \in Broadcasts
    BY <1>9, HeldBroadcast
  <2>2. bc' \in [Broadcasts -> BroadcastStatuses]
    BY <1>9, <2>1 DEF TypeOK, BroadcastStatuses, Settled
  <2>3. TypeOK'
    BY <1>9, <2>1, <2>2 DEF TypeOK, BroadcastStatuses, PCs
  <2>4. HoldsUnlessIdle' /\ SeenWhileDispatching'
    BY <1>9 DEF TypeOK, HoldsUnlessIdle, SeenWhileDispatching
  <2>. QED  BY <2>3, <2>4
<1>10. ASSUME NEW w \in Workers, CommitPage(w) PROVE Shape'
  <2>1. hold[w] \in Broadcasts /\ job[hold[w]] \in Job
    BY <1>10, HeldBroadcast DEF CommitPage, Dispatching
  <2>2. PICK s \in Progress(seen[w]) : Write(w, s) /\ seen' = [seen EXCEPT ![w] = s]
    BY <1>10 DEF CommitPage
  <2>3. s \in {"RUNNING", "COMPLETED", "PARTIAL"}
    BY <1>10, <2>2 DEF CommitPage, SeenWhileDispatching, Progress
  <2>4. job' \in [Broadcasts -> Job]
    BY <1>10, <2>1 DEF CommitPage, TypeOK
  <2>5. TypeOK'
    BY <1>10, <2>1, <2>2, <2>3, <2>4 DEF CommitPage, Write, TypeOK, BroadcastStatuses,
                                        Settled, PCs, Dispatching
  <2>6. HoldsUnlessIdle' /\ SeenWhileDispatching'
    BY <1>10, <2>2, <2>3 DEF CommitPage, TypeOK, HoldsUnlessIdle, SeenWhileDispatching,
                             Dispatching
  <2>. QED  BY <2>5, <2>6
<1>11. ASSUME NEW w \in Workers, EndRun(w) PROVE Shape'
  <2>1. hold[w] \in Broadcasts
    BY <1>11, HeldBroadcast DEF EndRun, Dispatching
  <2>2. TypeOK'
    BY <1>11, <2>1 DEF EndRun, Write, TypeOK, BroadcastStatuses, Settled, PCs
  <2>3. HoldsUnlessIdle' /\ SeenWhileDispatching'
    BY <1>11 DEF EndRun, TypeOK, HoldsUnlessIdle, SeenWhileDispatching, Dispatching
  <2>. QED  BY <2>2, <2>3
<1>12. ASSUME NEW w \in Workers, FinishJob(w) PROVE Shape'
  <2>1. Release(w) /\ hold[w] \in Broadcasts /\ job[hold[w]] \in Job
    BY <1>12, HeldBroadcast DEF FinishJob
  <2>2. job' \in [Broadcasts -> Job]
    BY <1>12, <2>1 DEF FinishJob, TypeOK
  <2>3. TypeOK'
    BY <1>12, <2>1, <2>2, ReleaseShape DEF FinishJob, TypeOK
  <2>. QED  BY <2>1, <2>3, ReleaseShape
<1>13. ASSUME NEW w \in Workers, RunRaises(w) PROVE Shape'
  <2>1. Release(w) /\ hold[w] \in Broadcasts /\ job[hold[w]] \in Job
    BY <1>13, HeldBroadcast DEF RunRaises, Loaded, Dispatching
  <2>2. job' \in [Broadcasts -> Job] /\ faults' \in [Faults -> Nat]
    BY <1>13, <2>1, SpendType DEF RunRaises, TypeOK, Faults
  <2>3. TypeOK'
    BY <1>13, <2>1, <2>2, ReleaseShape DEF RunRaises, TypeOK
  <2>. QED  BY <2>1, <2>3, ReleaseShape
<1>14. ASSUME NEW w \in Workers, Crash(w) PROVE Shape'
  <2>1. Release(w) /\ faults' \in [Faults -> Nat]
    BY <1>14, SpendType DEF Crash, Faults
  <2>2. TypeOK'
    BY <1>14, <2>1, ReleaseShape DEF Crash, TypeOK
  <2>. QED  BY <2>1, <2>2, ReleaseShape
<1>15. CASE get_stale_running_jobs
  <2>1. scan' \in [Broadcasts -> Nat]
    BY <1>15 DEF get_stale_running_jobs, TypeOK, Job
  <2>. QED  BY <1>15, <2>1 DEF get_stale_running_jobs, TypeOK, HoldsUnlessIdle, SeenWhileDispatching
<1>16. CASE recover_stale_running_jobs
  <2>1. job' \in [Broadcasts -> Job]
    BY <1>16, MaxAttemptsPositive DEF recover_stale_running_jobs, TypeOK
  <2>. QED  BY <1>16, <2>1 DEF recover_stale_running_jobs, TypeOK, HoldsUnlessIdle,
                              SeenWhileDispatching, Scanned
<1>. QED  BY <1>1, <1>2, <1>3, <1>4, <1>5, <1>6, <1>7, <1>8, <1>9, <1>10, <1>11,
             <1>12, <1>13, <1>14, <1>15, <1>16 DEF Next, RunStep

\* Every variable of the queue always has its type.
THEOREM TypeCorrect == Spec => []TypeOK
<1>1. Shape => TypeOK
  BY DEF Shape
<1>. QED  BY <1>1, InitShape, StepShape, PTL DEF Spec

----------------------------------------------------------------------------
(* One broadcast of a bot at a time.                                        *)

\* A worker holds the job of a broadcast that has begun.
HeldBegun == \A w \in Workers : hold[w] # None => bc[hold[w]] \notin {"ABSENT", "PENDING"}

\* Nobody can claim a held job that was not made claimable meanwhile.
HeldNotClaimable ==
  \A w \in Workers :
    hold[w] # None /\ hold[w] \notin handed
      => job[hold[w]].status \in {"RUNNING", "FAILED"}

\* Until the run's first write, what the claim wrote is what there is, and
\* what the session loads.
ClaimedRunning ==
  \A w \in Workers :
    hold[w] # None /\ hold[w] \notin handed =>
      /\ pc[w] \in {"claimed"} \cup Loaded => bc[hold[w]] = "RUNNING"
      /\ pc[w] \in Loaded => seen[w] = "RUNNING"

Safe ==
  /\ HeldBegun
  /\ HeldNotClaimable
  /\ ClaimedRunning
  /\ NoUnexplainedDoubleRun
  /\ OneLivePerBotUnlessHanded

LEMMA InitSafe == Init => Safe
<1>. SUFFICES ASSUME Init PROVE Safe
  OBVIOUS
<1>. QED  BY DEF Init, Safe, HeldBegun, HeldNotClaimable, ClaimedRunning, Loaded,
                 NoUnexplainedDoubleRun, OneLivePerBotUnlessHanded

\* A step that leaves holders, broadcasts and the statuses of held jobs alone,
\* and lets no worker move back to the start of a run, keeps Safe.
LEMMA QuietStep ==
  ASSUME Shape, Safe,
         UNCHANGED <<hold, bc, pc, seen>>,
         handed \subseteq handed',
         \A b \in Broadcasts : Held(b) /\ b \notin handed' =>
           job'[b].status = job[b].status \/ job'[b].status \in {"RUNNING", "FAILED"}
  PROVE  Safe'
<1>1. HeldBegun' /\ NoUnexplainedDoubleRun' /\ OneLivePerBotUnlessHanded' /\ ClaimedRunning'
  BY DEF Safe, HeldBegun, NoUnexplainedDoubleRun, OneLivePerBotUnlessHanded, ClaimedRunning
<1>2. HeldNotClaimable'
  <2>. SUFFICES ASSUME NEW w \in Workers, hold[w] # None, hold[w] \notin handed'
                PROVE  job'[hold[w]].status \in {"RUNNING", "FAILED"}
    BY DEF HeldNotClaimable
  <2>1. hold[w] \in Broadcasts /\ hold[w] \notin handed /\ Held(hold[w])
    BY DEF Shape, TypeOK, Held
  <2>. QED  BY <2>1 DEF Safe, HeldNotClaimable
<1>. QED  BY <1>1, <1>2 DEF Safe

\* A worker that lets go of its job keeps Safe, whatever it writes to the row:
\* if another worker holds the same job, that job was handed over.
LEMMA LettingGo ==
  ASSUME Shape, Safe, NEW w \in Workers, hold[w] \in Broadcasts, Release(w),
         UNCHANGED <<bc, handed>>,
         \A b \in Broadcasts : b # hold[w] => job'[b] = job[b]
  PROVE  Safe'
<1>1. \A v \in Workers : hold'[v] # None =>
        v # w /\ hold'[v] = hold[v] /\ pc'[v] = pc[v] /\ seen'[v] = seen[v]
              /\ hold[v] \in Broadcasts
  BY DEF Shape, TypeOK, Release
<1>2. \A v \in Workers : hold'[v] # None /\ hold[v] \notin handed => hold[v] # hold[w]
  BY <1>1, NoneNotBroadcast DEF Safe, NoUnexplainedDoubleRun
<1>3. HeldNotClaimable'
  BY <1>1, <1>2 DEF Safe, HeldNotClaimable
<1>4. HeldBegun' /\ ClaimedRunning'
  BY <1>1 DEF Safe, HeldBegun, ClaimedRunning
<1>5. NoUnexplainedDoubleRun'
  BY <1>1 DEF Safe, NoUnexplainedDoubleRun
<1>6. OneLivePerBotUnlessHanded'
  BY DEF Safe, OneLivePerBotUnlessHanded
<1>. QED  BY <1>3, <1>4, <1>5, <1>6 DEF Safe

\* A run's own step keeps Safe if what it makes of its broadcast has begun,
\* is RUNNING only if it was or the job was handed over, and if it
\* leaves the start of the run or keeps to what ClaimedRunning says.
LEMMA RunningStep ==
  ASSUME Shape, Safe, NEW w \in Workers, hold[w] \in Broadcasts,
         UNCHANGED <<hold, handed>>,
         \A b \in Broadcasts :
           \/ job'[b] = job[b]
           \/ b = hold[w] /\ job'[b].status = job[b].status,
         bc' \in [Broadcasts -> BroadcastStatuses],
         \A b \in Broadcasts : b # hold[w] => bc'[b] = bc[b],
         bc'[hold[w]] \notin {"ABSENT", "PENDING"},
         bc'[hold[w]] = "RUNNING" => bc[hold[w]] = "RUNNING" \/ hold[w] \in handed,
         \A v \in Workers : v # w => pc'[v] = pc[v] /\ seen'[v] = seen[v],
         pc'[w] \in {"claimed"} \cup Loaded /\ hold[w] \notin handed
           => bc'[hold[w]] = "RUNNING",
         pc'[w] \in Loaded /\ hold[w] \notin handed => seen'[w] = "RUNNING"
  PROVE  Safe'
<1>1. \A v \in Workers : hold[v] # None => hold[v] \in Broadcasts
  BY DEF Shape, TypeOK
<1>2. HeldBegun'
  BY <1>1 DEF Safe, HeldBegun
<1>3. HeldNotClaimable'
  BY <1>1 DEF Safe, HeldNotClaimable
<1>4. ClaimedRunning'
  <2>. SUFFICES ASSUME NEW v \in Workers, hold[v] # None, hold[v] \notin handed
                PROVE  /\ pc'[v] \in {"claimed"} \cup Loaded => bc'[hold[v]] = "RUNNING"
                       /\ pc'[v] \in Loaded => seen'[v] = "RUNNING"
    BY DEF ClaimedRunning
  <2>1. CASE v = w
    BY <2>1
  <2>2. CASE v # w
    <3>1. hold[v] # hold[w]
      BY <2>2 DEF Safe, NoUnexplainedDoubleRun
    <3>. QED  BY <1>1, <2>2, <3>1 DEF Safe, ClaimedRunning
  <2>. QED  BY <2>1, <2>2
<1>5. NoUnexplainedDoubleRun'
  BY DEF Safe, NoUnexplainedDoubleRun
<1>6. OneLivePerBotUnlessHanded'
  <2>. SUFFICES ASSUME NEW b \in Broadcasts, NEW c \in Broadcasts, b # c,
                       BotOf[b] = BotOf[c], bc'[b] = "RUNNING", bc'[c] = "RUNNING",
                       {b, c} \cap handed = {}
                PROVE  FALSE
    BY DEF OneLivePerBotUnlessHanded
  <2>1. bc[b] = "RUNNING" /\ bc[c] = "RUNNING"
    OBVIOUS
  <2>. QED  BY <2>1 DEF Safe, OneLivePerBotUnlessHanded
<1>. QED  BY <1>2, <1>3, <1>4, <1>5, <1>6 DEF Safe

LEMMA StepSafe == Shape /\ Safe /\ [Next]_vars => Safe'
<1>. SUFFICES ASSUME Shape, Safe, [Next]_vars PROVE Safe'
  OBVIOUS
<1>0. \A b \in Broadcasts : job[b] \in Job
  BY DEF Shape, TypeOK
<1>1. CASE UNCHANGED vars
  BY <1>1, QuietStep DEF vars
<1>2. ASSUME NEW b \in Broadcasts, CreateBroadcast(b) PROVE Safe'
  <2>1. ~Held(b)
    BY <1>2, NoneNotBroadcast DEF CreateBroadcast, Held, Safe, HeldBegun
  <2>2. \A w \in Workers : hold[w] # None => hold[w] \in Broadcasts /\ hold[w] # b
    BY <2>1 DEF Shape, TypeOK, Held
  <2>3. bc' = [bc EXCEPT ![b] = "PENDING"] /\ bc[b] = "ABSENT"
    BY <1>2 DEF CreateBroadcast
  <2>4. HeldBegun' /\ ClaimedRunning' /\ NoUnexplainedDoubleRun'
    BY <1>2, <2>2 DEF CreateBroadcast, Safe, HeldBegun, ClaimedRunning,
                      NoUnexplainedDoubleRun, Shape, TypeOK
  <2>5. HeldNotClaimable'
    BY <1>2, <2>2 DEF CreateBroadcast, Safe, HeldNotClaimable, Shape, TypeOK
  <2>6. OneLivePerBotUnlessHanded'
    BY <1>2, <2>3 DEF CreateBroadcast, Safe, OneLivePerBotUnlessHanded, Shape, TypeOK
  <2>. QED  BY <2>4, <2>5, <2>6 DEF Safe
<1>3. ASSUME NEW b \in Broadcasts, HeartbeatAges(b) \/ BackoffElapses(b) PROVE Safe'
  <2>1. \A c \in Broadcasts : job'[c] = job[c] \/ (c = b /\ job'[c].status = job[c].status)
    <3>1. CASE HeartbeatAges(b)
      BY <3>1, <1>0, RowStatuses DEF HeartbeatAges, Shape, TypeOK
    <3>2. CASE BackoffElapses(b)
      BY <3>2, <1>0, RowStatuses DEF BackoffElapses, Shape, TypeOK
    <3>. QED  BY <1>3, <3>1, <3>2
  <2>. QED  BY <1>3, <2>1, QuietStep DEF HeartbeatAges, BackoffElapses
<1>4. ASSUME NEW b \in Broadcasts, RetryReads(b) PROVE Safe'
  BY <1>4, QuietStep DEF RetryReads
<1>5. ASSUME NEW b \in Broadcasts, RetryWrites(b) PROVE Safe'
  <2>1. \A c \in Broadcasts : Held(c) /\ c \notin handed' => job'[c] = job[c]
    BY <1>5 DEF RetryWrites, Shape, TypeOK
  <2>. QED  BY <1>5, <2>1, QuietStep DEF RetryWrites
<1>6. ASSUME NEW i \in Bots, BotStops(i) \/ BotStarts(i) PROVE Safe'
  BY <1>6, QuietStep DEF BotStops, BotStarts
<1>7. ASSUME NEW w \in Workers, NEW b \in Broadcasts,
             claim_runnable_broadcast_jobs(w, b)
      PROVE  Safe'
  <2>. USE <1>7 DEF claim_runnable_broadcast_jobs
  <2>1. /\ job[b].status \in {"PENDING", "RETRYING"}
        /\ \A c \in Broadcasts : c # b /\ BotOf[c] = BotOf[b] => bc[c] # "RUNNING"
    BY DEF CanClaim, IsClaimable, BlockedByRunning
  <2>2. \A v \in Workers : hold[v] = b => b \in handed
    BY <2>1, NoneNotBroadcast DEF Safe, HeldNotClaimable
  <2>3. /\ hold' = [hold EXCEPT ![w] = b]
        /\ bc' = [bc EXCEPT ![b] = "RUNNING"]
        /\ pc' = [pc EXCEPT ![w] = "claimed"]
        /\ \A v \in Workers : hold[v] # None => hold[v] \in Broadcasts
    BY DEF Shape, TypeOK
  <2>4. job'[b].status = "RUNNING" /\ \A c \in Broadcasts : c # b => job'[c] = job[c]
    BY <1>0, RowStatuses DEF Shape, TypeOK
  <2>5. HeldBegun'
    BY <2>3 DEF Safe, HeldBegun, Shape, TypeOK
  <2>6. HeldNotClaimable'
    BY <2>3, <2>4 DEF Safe, HeldNotClaimable, Shape, TypeOK
  <2>7. ClaimedRunning'
    BY <2>3 DEF Safe, ClaimedRunning, Shape, TypeOK, Loaded
  <2>8. NoUnexplainedDoubleRun'
    BY <2>2, <2>3 DEF Safe, NoUnexplainedDoubleRun, Shape, TypeOK
  <2>9. OneLivePerBotUnlessHanded'
    BY <2>1, <2>3 DEF Safe, OneLivePerBotUnlessHanded, Shape, TypeOK
  <2>. QED  BY <2>5, <2>6, <2>7, <2>8, <2>9 DEF Safe
<1>8. ASSUME NEW w \in Workers,
             AlreadyTerminal(w) \/ LoadBroadcast(w) \/ PreflightFails(w)
               \/ StartRun(w) \/ EmptyAudience(w) \/ MediaUnavailable(w) \/ EndRun(w)
      PROVE  Safe'
  <2>. USE DEF AlreadyTerminal, LoadBroadcast, PreflightFails, StartRun, EmptyAudience,
               MediaUnavailable, EndRun, Write, Loaded, Dispatching
  <2>1. hold[w] \in Broadcasts /\ hold[w] # None
    BY <1>8, HeldBroadcast
  <2>2. bc' \in [Broadcasts -> BroadcastStatuses]
    BY <1>8, StepShape DEF Next, RunStep, Shape, TypeOK
  <2>3. bc[hold[w]] \notin {"ABSENT", "PENDING"}
    BY <2>1 DEF Safe, HeldBegun
  <2>4. UNCHANGED <<hold, handed, job>>
    BY <1>8
  <2>5. \A b \in Broadcasts : b # hold[w] => bc'[b] = bc[b]
    BY <1>8, <2>1 DEF Shape, TypeOK
  <2>6. \A v \in Workers : v # w => pc'[v] = pc[v] /\ seen'[v] = seen[v]
    BY <1>8 DEF Shape, TypeOK
  <2>7. bc'[hold[w]] \notin {"ABSENT", "PENDING"}
    BY <1>8, <2>1, <2>3 DEF Shape, TypeOK
  <2>8. pc[w] \in {"claimed"} \cup Loaded /\ hold[w] \notin handed
          => bc[hold[w]] = "RUNNING"
    BY <2>1 DEF Safe, ClaimedRunning
  <2>9. bc'[hold[w]] = "RUNNING" => bc[hold[w]] = "RUNNING" \/ hold[w] \in handed
    BY <1>8, <2>1, <2>8 DEF Shape, TypeOK
  <2>10. /\ pc'[w] \in {"claimed"} \cup Loaded /\ hold[w] \notin handed
              => bc'[hold[w]] = "RUNNING"
         /\ pc'[w] \in Loaded /\ hold[w] \notin handed => seen'[w] = "RUNNING"
    BY <1>8, <2>1, <2>8 DEF Shape, TypeOK
  <2>. QED  BY <2>1, <2>2, <2>4, <2>5, <2>6, <2>7, <2>9, <2>10, RunningStep
<1>9. ASSUME NEW w \in Workers, CommitPage(w) PROVE Safe'
  <2>1. hold[w] \in Broadcasts /\ hold[w] # None /\ job[hold[w]] \in Job
    BY <1>9, HeldBroadcast DEF CommitPage, Dispatching
  <2>2. PICK s \in Progress(seen[w]) : Write(w, s) /\ seen' = [seen EXCEPT ![w] = s]
    BY <1>9 DEF CommitPage
  <2>3. /\ s \in {"RUNNING", "COMPLETED", "PARTIAL"}
        /\ s = "RUNNING" => seen[w] = "RUNNING"
    BY <1>9, <2>2 DEF CommitPage, Shape, SeenWhileDispatching, Progress
  <2>4. bc[hold[w]] \notin {"ABSENT", "PENDING"}
    BY <2>1 DEF Safe, HeldBegun
  <2>5. bc' = IF s = seen[w] THEN bc ELSE [bc EXCEPT ![hold[w]] = s]
    BY <2>2 DEF Write
  <2>6. /\ bc' \in [Broadcasts -> BroadcastStatuses]
        /\ \A b \in Broadcasts : b # hold[w] => bc'[b] = bc[b]
        /\ bc'[hold[w]] \notin {"ABSENT", "PENDING"}
        /\ bc'[hold[w]] = "RUNNING" => bc[hold[w]] = "RUNNING"
    BY <2>1, <2>3, <2>4, <2>5 DEF Shape, TypeOK, BroadcastStatuses, Settled
  <2>7. \A b \in Broadcasts :
           \/ job'[b] = job[b]
           \/ b = hold[w] /\ job'[b].status = job[b].status
    BY <1>9, <2>1, RowStatuses DEF CommitPage, Shape, TypeOK
  <2>8. /\ \A v \in Workers : v # w => pc'[v] = pc[v] /\ seen'[v] = seen[v]
        /\ pc'[w] = "dispatch"
    BY <1>9, <2>2 DEF CommitPage, Shape, TypeOK
  <2>9. UNCHANGED <<hold, handed>>
    BY <1>9 DEF CommitPage
  <2>. QED  BY <2>1, <2>6, <2>7, <2>8, <2>9, RunningStep DEF Loaded
<1>10. ASSUME NEW w \in Workers, FinishJob(w) \/ RunRaises(w) \/ Crash(w) PROVE Safe'
  <2>1. hold[w] \in Broadcasts
    BY <1>10, HeldBroadcast DEF FinishJob, RunRaises, Crash, Loaded, Dispatching
  <2>2. \A b \in Broadcasts : b # hold[w] => job'[b] = job[b]
    BY <1>10, <2>1 DEF FinishJob, RunRaises, Crash, Shape, TypeOK
  <2>3. Release(w) /\ UNCHANGED <<bc, handed>>
    BY <1>10 DEF FinishJob, RunRaises, Crash
  <2>. QED  BY <2>1, <2>2, <2>3, LettingGo
<1>11. CASE get_stale_running_jobs
  BY <1>11, QuietStep DEF get_stale_running_jobs
<1>12. CASE recover_stale_running_jobs
  <2>1. \A b \in Broadcasts : Held(b) /\ b \notin handed' =>
          job'[b] = job[b] \/ job'[b].status = "FAILED"
    <3>. SUFFICES ASSUME NEW b \in Broadcasts, Held(b), b \notin handed', b \in Scanned
                  PROVE  job'[b].status = "FAILED"
      BY <1>12 DEF recover_stale_running_jobs
    <3>1. scan[b] \in Nat /\ MaxAttempts \in Nat
      BY MaxAttemptsPositive DEF Shape, TypeOK
    <3>2. scan[b] >= MaxAttempts
      BY <1>12, <3>1 DEF recover_stale_running_jobs
    <3>. QED  BY <1>0, <1>12, <3>1, <3>2, RowStatuses DEF recover_stale_running_jobs
  <2>. QED  BY <1>12, <2>1, QuietStep DEF recover_stale_running_jobs
<1>. QED  BY <1>1, <1>2, <1>3, <1>4, <1>5, <1>6, <1>7, <1>8, <1>9, <1>10, <1>11, <1>12
          DEF Next, RunStep

LEMMA SpecSafe == Spec => [](Shape /\ Safe)
BY InitShape, StepShape, InitSafe, StepSafe, PTL DEF Spec

\* The claim alone never puts a broadcast in the hands of two workers.
THEOREM NoDoubleRun == Spec => []NoUnexplainedDoubleRun
<1>1. Shape /\ Safe => NoUnexplainedDoubleRun
  BY DEF Safe
<1>. QED  BY <1>1, SpecSafe, PTL

\* Unless a job was made claimable under its worker, one LIVE broadcast of a
\* bot is RUNNING at a time.
THEOREM OneLive == Spec => []OneLivePerBotUnlessHanded
<1>1. Shape /\ Safe => OneLivePerBotUnlessHanded
  BY DEF Safe
<1>. QED  BY <1>1, SpecSafe, PTL

----------------------------------------------------------------------------
(* What is settled stays settled.                                           *)

LEMMA StepSettled ==
  ASSUME Shape, Safe, [Next]_vars,
         NEW b \in Broadcasts, bc[b] \in Settled, b \notin handed
  PROVE  bc'[b] \in Settled
<1>. USE DEF Settled
<1>1. CASE UNCHANGED bc
  BY <1>1
<1>2. ASSUME NEW c \in Broadcasts, CreateBroadcast(c) PROVE bc'[b] \in Settled
  BY <1>2 DEF CreateBroadcast, Shape, TypeOK
<1>3. ASSUME NEW w \in Workers, NEW c \in Broadcasts,
             claim_runnable_broadcast_jobs(w, c)
      PROVE  bc'[b] \in Settled
  BY <1>3 DEF claim_runnable_broadcast_jobs, CanClaim, Shape, TypeOK
<1>4. ASSUME NEW w \in Workers, RunStep(w) PROVE bc'[b] \in Settled
  <2>1. hold[w] \in Broadcasts /\ hold[w] # None
    BY <1>4, HeldBroadcast DEF RunStep, AlreadyTerminal, LoadBroadcast, PreflightFails,
         StartRun, EmptyAudience, MediaUnavailable, CommitPage, EndRun, FinishJob,
         Loaded, Dispatching
  <2>2. CASE StartRun(w)
    <3>1. hold[w] = b => FALSE
      BY <2>1, <2>2 DEF StartRun, Safe, ClaimedRunning
    <3>. QED  BY <2>1, <2>2, <3>1 DEF StartRun, Write, Shape, TypeOK
  <2>3. CASE CommitPage(w)
    <3>1. PICK s \in Progress(seen[w]) : Write(w, s)
      BY <2>3 DEF CommitPage
    <3>2. s \in Settled \/ s = seen[w]
      BY <2>3, <3>1 DEF CommitPage, Shape, SeenWhileDispatching, Progress
    <3>. QED  BY <2>1, <3>1, <3>2 DEF Write, Shape, TypeOK
  <2>4. CASE AlreadyTerminal(w) \/ LoadBroadcast(w) \/ PreflightFails(w)
               \/ EmptyAudience(w) \/ MediaUnavailable(w) \/ EndRun(w) \/ FinishJob(w)
    BY <2>1, <2>4 DEF AlreadyTerminal, LoadBroadcast, PreflightFails, EmptyAudience,
         MediaUnavailable, EndRun, FinishJob, Write, Shape, TypeOK
  <2>. QED  BY <1>4, <2>2, <2>3, <2>4 DEF RunStep
<1>. QED
  BY <1>1, <1>2, <1>3, <1>4 DEF Next, vars, HeartbeatAges, BackoffElapses, RetryReads,
     RetryWrites, BotStops, BotStarts, RunRaises, Crash, get_stale_running_jobs,
     recover_stale_running_jobs

\* A broadcast that is over is never run again, unless its job was made
\* claimable under a worker.
THEOREM SettledForGood == Spec => SettledStaysSettled
<1>1. Shape /\ Safe /\ [Next]_vars =>
        [\A b \in Broadcasts :
           bc[b] \in Settled /\ b \notin handed => bc'[b] \in Settled]_vars
  BY StepSettled
<1>. QED  BY <1>1, SpecSafe, PTL DEF Spec, SettledStaysSettled

----------------------------------------------------------------------------
(* The queue keeps what LiveQueue promises.                                 *)

Stages == [b \in Broadcasts |-> Stage(bc[b])]

LEMMA StageOf ==
  /\ Stage("ABSENT") = "none"
  /\ Stage("PENDING") = "waiting"
  /\ Stage("RUNNING") = "going"
  /\ \A s \in Settled : Stage(s) = "over"
  /\ \A s \in BroadcastStatuses : Stage(s) = "going" => s = "RUNNING"
BY DEF Stage, Settled, BroadcastStatuses

\* One broadcast changes its status.
LEMMA StageMoves ==
  ASSUME Shape, NEW b \in Broadcasts, NEW s \in BroadcastStatuses,
         bc' = [bc EXCEPT ![b] = s]
  PROVE  Stages' = [Stages EXCEPT ![b] = Stage(s)]
<1>1. \A c \in Broadcasts : Stage(bc'[c]) = IF c = b THEN Stage(s) ELSE Stage(bc[c])
  BY DEF Shape, TypeOK
<1>. QED  BY <1>1 DEF Stages

LEMMA InitPromise == Init => Promise!Init
<1>. SUFFICES ASSUME Init PROVE Promise!Init
  OBVIOUS
<1>1. \A b \in Broadcasts : Stage(bc[b]) = "none"
  BY StageOf DEF Init
<1>. QED  BY <1>1 DEF Init, Promise!Init

\* Nothing LiveQueue tells apart has changed.
LEMMA Stutters ==
  ASSUME UNCHANGED <<bc, hold, handed>>
  PROVE  UNCHANGED Promise!vars
<1>1. Stages' = Stages
  BY DEF Stages
<1>. QED  BY <1>1 DEF Promise!vars, Stages

\* A worker that holds a broadcast writes its status: it ends it, or writes it
\* back to RUNNING if it was handed over, or nothing is seen of it.
LEMMA WriteKeepsPromise ==
  ASSUME Shape, Safe, NEW w \in Workers, hold[w] \in Broadcasts,
         NEW s \in {"RUNNING"} \cup Settled,
         bc' = [bc EXCEPT ![hold[w]] = s], UNCHANGED <<hold, handed>>,
         s = "RUNNING" => bc[hold[w]] = "RUNNING" \/ hold[w] \in handed
  PROVE  [Promise!Next]_(Promise!vars)
<1>. DEFINE b == hold[w]
<1>1. b # None /\ b \in Broadcasts /\ bc[b] \in {"RUNNING"} \cup Settled
  BY NoneNotBroadcast DEF Safe, HeldBegun, Shape, TypeOK, BroadcastStatuses
<1>2. Stages' = [Stages EXCEPT ![b] = Stage(s)] /\ Stages[b] = Stage(bc[b])
  BY StageMoves DEF Stages, BroadcastStatuses
<1>3. CASE Stage(s) = Stage(bc[b])
  <2>1. Stages' = Stages
    BY <1>1, <1>2, <1>3 DEF Stages
  <2>. QED  BY <2>1 DEF Promise!vars, Stages
<1>4. CASE s \in Settled /\ bc[b] = "RUNNING"
  <2>1. Stages[b] = "going" /\ Stages' = [Stages EXCEPT ![b] = "over"]
    BY <1>2, <1>4, StageOf
  <2>2. Promise!End(w)
    BY <1>1, <2>1 DEF Promise!End, Stages
  <2>. QED  BY <2>2 DEF Promise!Next
<1>5. CASE s = "RUNNING" /\ bc[b] \in Settled
  <2>1. Stages[b] = "over" /\ Stages' = [Stages EXCEPT ![b] = "going"] /\ b \in handed
    BY <1>2, <1>5, StageOf DEF Settled
  <2>2. Promise!Revive(w)
    BY <1>1, <2>1 DEF Promise!Revive, Stages
  <2>. QED  BY <2>2 DEF Promise!Next
<1>. QED  BY <1>1, <1>3, <1>4, <1>5, StageOf

\* The claim takes the broadcast: that nobody else has it is HeldNotClaimable.
LEMMA ClaimTakes ==
  ASSUME Shape, Safe, NEW w \in Workers, NEW b \in Broadcasts,
         claim_runnable_broadcast_jobs(w, b)
  PROVE  Promise!Take(w, b)
<1>. USE DEF claim_runnable_broadcast_jobs
<1>1. hold[w] = None /\ hold' = [hold EXCEPT ![w] = b] /\ UNCHANGED handed
  BY DEF Shape, HoldsUnlessIdle
<1>2. /\ job[b].status \in {"PENDING", "RETRYING"}
      /\ bc[b] \in {"PENDING", "RUNNING"}
      /\ \A c \in Broadcasts \ {b} : BotOf[c] = BotOf[b] => bc[c] # "RUNNING"
  BY DEF CanClaim, IsClaimable, BlockedByRunning
<1>3. b \in handed \/ \A v \in Workers : hold[v] # b
  BY <1>2, NoneNotBroadcast DEF Safe, HeldNotClaimable
<1>4. Stages[b] \in {"waiting", "going"}
  BY <1>2, StageOf DEF Stages
<1>5. \A c \in Broadcasts \ {b} : BotOf[c] = BotOf[b] => Stages[c] # "going"
  BY <1>2, StageOf DEF Stages, Shape, TypeOK
<1>6. Stages' = [Stages EXCEPT ![b] = "going"]
  BY StageMoves, StageOf DEF BroadcastStatuses
<1>. QED  BY <1>1, <1>3, <1>4, <1>5, <1>6 DEF Promise!Take, Stages

\* A worker that lets go leaves its broadcast as it is.
LEMMA LetsGo ==
  ASSUME Shape, NEW w \in Workers, hold[w] \in Broadcasts, Release(w),
         UNCHANGED <<bc, handed>>
  PROVE  Promise!Next
<1>1. Stages' = Stages
  BY DEF Stages
<1>2. Promise!LetGo(w)
  BY <1>1, NoneNotBroadcast DEF Release, Promise!LetGo, Stages
<1>. QED  BY <1>2 DEF Promise!Next

\* A job made claimable under a worker loosens its broadcast.
LEMMA Loosens ==
  ASSUME NEW S \in SUBSET {b \in Broadcasts : Held(b)},
         UNCHANGED <<bc, hold>>, handed' = handed \cup S
  PROVE  Promise!Next
<1>1. Stages' = Stages
  BY DEF Stages
<1>2. Promise!Loosen
  BY <1>1 DEF Held, Promise!Loosen, Stages
<1>. QED  BY <1>2 DEF Promise!Next

LEMMA RunKeepsPromise ==
  ASSUME Shape, Safe, NEW w \in Workers, RunStep(w)
  PROVE  [Promise!Next]_(Promise!vars)
<1>1. hold[w] \in Broadcasts /\ hold[w] # None
  BY HeldBroadcast DEF RunStep, AlreadyTerminal, LoadBroadcast, PreflightFails,
     StartRun, EmptyAudience, MediaUnavailable, CommitPage, EndRun, FinishJob,
     Loaded, Dispatching
<1>2. ASSUME NEW s \in {"RUNNING"} \cup Settled, Write(w, s), UNCHANGED <<hold, handed>>,
             s = "RUNNING" => s = seen[w] \/ bc[hold[w]] = "RUNNING" \/ hold[w] \in handed
      PROVE  [Promise!Next]_(Promise!vars)
  <2>1. CASE s = seen[w]
    BY <1>2, <2>1, Stutters DEF Write
  <2>2. CASE s # seen[w]
    BY <1>1, <1>2, <2>2, WriteKeepsPromise DEF Write
  <2>. QED  BY <2>1, <2>2
<1>3. CASE AlreadyTerminal(w) \/ LoadBroadcast(w)
  BY <1>3, Stutters DEF AlreadyTerminal, LoadBroadcast
<1>4. CASE PreflightFails(w) \/ MediaUnavailable(w)
  BY <1>2, <1>4 DEF PreflightFails, MediaUnavailable, Settled
<1>5. CASE StartRun(w)
  <2>1. bc[hold[w]] = "RUNNING" \/ hold[w] \in handed
    BY <1>1, <1>5 DEF StartRun, Safe, ClaimedRunning
  <2>. QED  BY <1>2, <1>5, <2>1 DEF StartRun
<1>6. CASE EmptyAudience(w)
  <2>1. /\ bc' = [bc EXCEPT ![hold[w]] = "COMPLETED"]
        /\ UNCHANGED <<hold, handed>> /\ "COMPLETED" \in Settled
    BY <1>6 DEF EmptyAudience, Settled
  <2>. QED  BY <1>1, <2>1, WriteKeepsPromise
<1>7. CASE CommitPage(w)
  <2>1. PICK s \in Progress(seen[w]) : Write(w, s)
    BY <1>7 DEF CommitPage
  <2>2. s \in {"RUNNING"} \cup Settled /\ (s = "RUNNING" => s = seen[w])
    BY <1>7, <2>1 DEF CommitPage, Shape, SeenWhileDispatching, Progress, Settled
  <2>. QED  BY <1>2, <1>7, <2>1, <2>2 DEF CommitPage
<1>8. CASE EndRun(w)
  <2>1. CASE seen[w] = "RUNNING"
    BY <1>2, <1>8, <2>1 DEF EndRun, Settled
  <2>2. CASE seen[w] # "RUNNING"
    BY <1>8, <2>2, Stutters DEF EndRun
  <2>. QED  BY <2>1, <2>2
<1>9. CASE FinishJob(w)
  BY <1>1, <1>9, LetsGo DEF FinishJob
<1>. QED  BY <1>3, <1>4, <1>5, <1>6, <1>7, <1>8, <1>9 DEF RunStep

LEMMA StepKeepsPromise ==
  Shape /\ Safe /\ [Next]_vars => [Promise!Next]_(Promise!vars)
<1>. SUFFICES ASSUME Shape, Safe, [Next]_vars PROVE [Promise!Next]_(Promise!vars)
  OBVIOUS
<1>1. CASE UNCHANGED vars
  BY <1>1, Stutters DEF vars
<1>2. ASSUME NEW b \in Broadcasts, CreateBroadcast(b) PROVE [Promise!Next]_(Promise!vars)
  <2>1. Stages[b] = "none"
    BY <1>2, StageOf DEF CreateBroadcast, Stages
  <2>2. Stages' = [Stages EXCEPT ![b] = "waiting"]
    BY <1>2, StageMoves, StageOf DEF CreateBroadcast, BroadcastStatuses
  <2>3. Promise!Announce(b)
    BY <1>2, <2>1, <2>2 DEF CreateBroadcast, Promise!Announce, Stages
  <2>. QED  BY <2>3 DEF Promise!Next
<1>3. ASSUME NEW b \in Broadcasts, HeartbeatAges(b) \/ BackoffElapses(b) \/ RetryReads(b)
      PROVE  [Promise!Next]_(Promise!vars)
  BY <1>3, Stutters DEF HeartbeatAges, BackoffElapses, RetryReads
<1>4. ASSUME NEW b \in Broadcasts, RetryWrites(b) PROVE [Promise!Next]_(Promise!vars)
  <2>1. CASE Held(b)
    <3>1. {b} \in SUBSET {c \in Broadcasts : Held(c)} /\ handed' = handed \cup {b}
      BY <1>4, <2>1 DEF RetryWrites
    <3>. QED  BY <1>4, <3>1, Loosens DEF RetryWrites
  <2>2. CASE ~Held(b)
    BY <1>4, <2>2, Stutters DEF RetryWrites
  <2>. QED  BY <2>1, <2>2
<1>5. ASSUME NEW i \in Bots, BotStops(i) \/ BotStarts(i) PROVE [Promise!Next]_(Promise!vars)
  BY <1>5, Stutters DEF BotStops, BotStarts
<1>6. ASSUME NEW w \in Workers, NEW b \in Broadcasts,
             claim_runnable_broadcast_jobs(w, b)
      PROVE  [Promise!Next]_(Promise!vars)
  BY <1>6, ClaimTakes DEF Promise!Next
<1>7. ASSUME NEW w \in Workers, RunStep(w) PROVE [Promise!Next]_(Promise!vars)
  BY <1>7, RunKeepsPromise
<1>8. ASSUME NEW w \in Workers, RunRaises(w) \/ Crash(w) PROVE [Promise!Next]_(Promise!vars)
  <2>1. hold[w] \in Broadcasts
    BY <1>8, HeldBroadcast DEF RunRaises, Crash, Loaded, Dispatching
  <2>. QED  BY <1>8, <2>1, LetsGo DEF RunRaises, Crash
<1>9. CASE get_stale_running_jobs
  BY <1>9, Stutters DEF get_stale_running_jobs
<1>10. CASE recover_stale_running_jobs
  <2>1. {b \in Scanned : scan[b] < MaxAttempts /\ Held(b)} \in SUBSET {b \in Broadcasts : Held(b)}
    BY DEF Scanned
  <2>. QED  BY <1>10, <2>1, Loosens DEF recover_stale_running_jobs
<1>. QED  BY <1>1, <1>2, <1>3, <1>4, <1>5, <1>6, <1>7, <1>8, <1>9, <1>10 DEF Next

\* The queue implements LiveQueue, over any number of workers that die, stall and
\* raise, recoveries and retries: the claim alone makes a broadcast go, only who
\* holds it ends it, and it goes again only under a worker it was taken from.
THEOREM QueueKeepsPromise == Spec => KeepsPromise
<1>. QED  BY SpecSafe, InitPromise, StepKeepsPromise, PTL DEF Spec, KeepsPromise, Promise!Spec
=============================================================================
