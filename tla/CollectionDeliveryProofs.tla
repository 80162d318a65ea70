---------------------- MODULE CollectionDeliveryProofs ----------------------
(***************************************************************************)
(* For any number of taps and of workers, a collection of any length and    *)
(* any faults: the lock of the viewer's row keeps the job of a collection   *)
(* unique and the deliveries of a single video accounted for, the items of  *)
(* a collection arrive in order, and while no job is made claimable under a *)
(* worker none arrives twice but for a run or an answer that was lost.      *)
(***************************************************************************)
EXTENDS CollectionDelivery, FiniteSetTheorems, TLAPS

----------------------------------------------------------------------------
(* Types.                                                                   *)

LEMMA JobChanges ==
  ASSUME NEW r \in Job, NEW n \in Nat
  PROVE  /\ create_job \in Job /\ mark_completed(r) \in Job /\ mark_failed(r) \in Job
         /\ update_heartbeat(r) \in Job
         /\ [r EXCEPT !.stale = TRUE] \in Job /\ [r EXCEPT !.due = TRUE] \in Job
         /\ [r EXCEPT !.status = "RETRYING", !.due = FALSE] \in Job
         /\ [r EXCEPT !.status = "PENDING", !.due = TRUE, !.attempts = 0] \in Job
         /\ recover_stale(r, n, MaxAttempts) \in Job /\ retry_job(r) \in Job
         /\ mark_running(r) \in Job /\ mark_running(r).attempts \in Nat
         /\ [mark_running(r) EXCEPT !.attempts = n] \in Job
<1>1. r.attempts + 1 \in Nat
  BY DEF Job
<1>2. mark_running(r) \in Job
  BY <1>1 DEF mark_running, Job, JobStatuses
<1>3. /\ create_job \in Job /\ mark_completed(r) \in Job /\ mark_failed(r) \in Job
      /\ update_heartbeat(r) \in Job
      /\ [r EXCEPT !.stale = TRUE] \in Job /\ [r EXCEPT !.due = TRUE] \in Job
  BY DEF create_job, mark_completed, mark_failed, update_heartbeat, Job, JobStatuses
<1>4. /\ [r EXCEPT !.status = "RETRYING", !.due = FALSE] \in Job
      /\ [r EXCEPT !.status = "PENDING", !.due = TRUE, !.attempts = 0] \in Job
      /\ recover_stale(r, n, MaxAttempts) \in Job /\ retry_job(r) \in Job
  BY DEF recover_stale, retry_job, Job, JobStatuses
<1>5. ASSUME NEW q \in Job PROVE q.attempts \in Nat /\ [q EXCEPT !.attempts = n] \in Job
  BY DEF Job
<1>. QED  BY <1>2, <1>3, <1>4, <1>5

LEMMA InitType == Init => TypeOK
<1>. SUFFICES ASSUME Init PROVE TypeOK
  OBVIOUS
<1>1. NoJob \in Job /\ None \in JobIds \cup {None}
  BY DEF NoJob, Job, JobStatuses
<1>2. NoTap \in [at : TapAts, viewer : ViewerStatuses, job : JobIds \cup {None},
                 status : JobStatuses, complete : BOOLEAN, result : Results]
  BY DEF NoTap, TapAts, ViewerStatuses, JobStatuses, Results
<1>3. NoView \in [viewer : ViewerStatuses, bot : BOOLEAN]
  BY DEF NoView, ViewerStatuses
<1>4. 0 \in 0 .. N
  BY NType
<1>. QED  BY <1>1, <1>2, <1>3, <1>4 DEF Init, TypeOK, PCs, Statuses, ViewerStatuses

LEMMA SpendType ==
  ASSUME TypeOK, NEW k \in Faults, Spend(k)
  PROVE  faults' \in [Faults -> Nat]
BY DEF TypeOK, Spend

LEMMA ReleaseType ==
  ASSUME TypeOK, NEW w \in Workers, Release(w)
  PROVE  /\ pc' \in [Workers -> PCs]
         /\ on' \in [Workers -> JobIds \cup {None}]
         /\ tries' \in [Workers -> Nat]
         /\ seen' \in [Workers -> [viewer : ViewerStatuses, bot : BOOLEAN]]
         /\ item' \in [Workers -> 0 .. N]
         /\ prior' \in [Workers -> Statuses \cup {"NONE"}]
         /\ result' \in [Workers -> Statuses \cup {"NONE"}]
<1>1. NoView \in [viewer : ViewerStatuses, bot : BOOLEAN]
  BY DEF NoView, ViewerStatuses
<1>. QED  BY <1>1, NType DEF TypeOK, Release, PCs

Tap == [at : TapAts, viewer : ViewerStatuses, job : JobIds \cup {None},
        status : JobStatuses, complete : BOOLEAN, result : Results]

\* A request's steps, and what becomes of it.
LEMMA TapType ==
  ASSUME TypeOK, NEW t \in Taps,
         \/ TapReads(t) \/ TapLocks(t) \/ TapCommits(t) \/ TapRaises(t)
         \/ create_delivery(t) \/ send_video(t) \/ deliver_unlocked_video(t)
  PROVE  TypeOK'
<1>. USE DEF TypeOK, single, rows, work, upkeep, history
<1>0. NoTap \in Tap /\ tap \in [Taps -> Tap]
  BY DEF NoTap, Tap, TapAts, ViewerStatuses, JobStatuses, Results
<1>1. CASE TapReads(t)
  <2>1. [tap[t] EXCEPT !.at = "read", !.viewer = viewer] \in Tap
    BY <1>0 DEF Tap, TapAts
  <2>2. tap' \in [Taps -> Tap]
    BY <1>0, <1>1, <2>1 DEF TapReads
  <2>3. faults' \in [Faults -> Nat]
    BY <1>1, SpendType DEF TapReads, Faults
  <2>. QED  BY <1>1, <2>2, <2>3 DEF TapReads, Tap
<1>2. CASE TapLocks(t)
  <2>1. PICK j \in JobIds \cup {None} :
          tap' = [tap EXCEPT ![t] = [tap[t] EXCEPT
                    !.at = "locked", !.job = j,
                    !.status = IF j = None THEN "ABSENT" ELSE job[j].status,
                    !.complete = AllSent]]
    BY <1>2 DEF TapLocks
  <2>2. (IF j = None THEN "ABSENT" ELSE job[j].status) \in JobStatuses
    BY DEF Job, JobStatuses
  <2>3. AllSent \in BOOLEAN
    BY DEF AllSent
  <2>4. tap' \in [Taps -> Tap]
    BY <1>0, <2>1, <2>2, <2>3 DEF Tap, TapAts
  <2>. QED  BY <1>2, <2>4 DEF TapLocks, Tap
<1>3. CASE TapCommits(t)
  <2>1. job' \in [JobIds -> Job]
    <3>1. create_job \in Job
      BY DEF create_job, Job, JobStatuses
    <3>2. NewJob \in [JobIds -> Job]
      BY <3>1 DEF NewJob
    <3>3. ASSUME NEW j \in JobIds PROVE RearmedJob(j) \in [JobIds -> Job]
      <4>1. [job[j] EXCEPT !.status = "PENDING", !.due = TRUE, !.attempts = 0] \in Job
        BY JobChanges
      <4>2. RearmedJob(j) =
              [job EXCEPT ![j] = [job[j] EXCEPT !.status = "PENDING", !.due = TRUE,
                                                !.attempts = 0]]
        BY DEF RearmedJob
      <4>. QED  BY <4>1, <4>2
    <3>4. tap[t].job = None \/ tap[t].job \in JobIds
      BY <1>0 DEF Tap
    <3>5. \/ job' \in {NewJob, job}
          \/ tap[t].job # None /\ job' = RearmedJob(tap[t].job)
      BY <1>3 DEF TapCommits
    <3>. QED  BY <3>2, <3>3, <3>4, <3>5
  <2>2. tap' \in [Taps -> Tap]
    BY <1>0, <1>3 DEF TapCommits
  <2>3. viewer' \in ViewerStatuses /\ told' \in {"NOTHING", "SENDING", "TOO_LATE"}
    BY <1>3 DEF TapCommits, ActiveAgain, ViewerStatuses
  <2>4. handed' \subseteq JobIds
    BY <1>0, <1>3 DEF TapCommits, Tap
  <2>. QED  BY <1>3, <2>1, <2>2, <2>3, <2>4 DEF TapCommits, Tap
<1>4. CASE TapRaises(t)
  <2>1. tap' \in [Taps -> Tap]
    BY <1>0, <1>4 DEF TapRaises
  <2>2. faults' \in [Faults -> Nat]
    BY <1>4, SpendType DEF TapRaises, Faults
  <2>. QED  BY <1>4, <2>1, <2>2 DEF TapRaises, Tap
<1>5. CASE create_delivery(t)
  <2>1. tap' = [tap EXCEPT ![t] = [tap[t] EXCEPT !.at = "pending"]]
    BY <1>5 DEF create_delivery
  <2>2. tap' \in [Taps -> Tap]
    BY <1>0, <2>1 DEF Tap, TapAts
  <2>. QED  BY <1>5, <2>2 DEF create_delivery, Tap
<1>6. CASE send_video(t)
  <2>1. PICK o \in Results :
          tap' = [tap EXCEPT ![t] = [tap[t] EXCEPT !.at = "answered", !.result = o]]
    BY <1>6 DEF send_video
  <2>2. tap' \in [Taps -> Tap]
    BY <1>0, <2>1 DEF Tap, TapAts
  <2>3. faults' \in [Faults -> Nat]
    BY <1>6, SpendType DEF send_video, Faults
  <2>4. received' \in Nat
    <3>1. received' = received \/ received' = received + 1
      BY <1>6 DEF send_video
    <3>2. received + 1 \in Nat
      OBVIOUS
    <3>. QED  BY <3>1, <3>2
  <2>. QED  BY <1>6, <2>2, <2>3, <2>4 DEF send_video, Tap
<1>7. CASE deliver_unlocked_video(t)
  <2>1. tap' \in [Taps -> Tap]
    BY <1>0, <1>7 DEF deliver_unlocked_video
  <2>2. viewer' \in ViewerStatuses /\ bot' \in BOOLEAN
    BY <1>7 DEF deliver_unlocked_video, ActiveAgain, ViewerStatuses
  <2>3. deliveries' \in [Statuses -> Nat]
    <3>1. \A k \in Statuses : deliveries[k] + 1 \in Nat
      OBVIOUS
    <3>. QED  BY <1>7, <3>1 DEF deliver_unlocked_video
  <2>. QED  BY <1>7, <2>1, <2>2, <2>3 DEF deliver_unlocked_video, Tap
<1>. QED  BY <1>1, <1>2, <1>3, <1>4, <1>5, <1>6, <1>7

LEMMA RetryingType ==
  ASSUME TypeOK, NEW j \in JobIds \cup {None}
  PROVE  mark_retrying(j) \in [JobIds -> Job]
<1>1. CASE j \in JobIds
  <2>. DEFINE r == [job[j] EXCEPT !.status = "RETRYING", !.due = FALSE]
  <2>1. r \in Job
    BY <1>1, JobChanges DEF TypeOK
  <2>2. mark_retrying(j) = [job EXCEPT ![j] = r]
    BY <1>1 DEF mark_retrying
  <2>. QED  BY <2>1, <2>2 DEF TypeOK
<1>2. CASE j = None
  <2>1. mark_retrying(j) = job
    BY <1>2, NoneNotJob DEF mark_retrying, TypeOK
  <2>. QED  BY <2>1 DEF TypeOK
<1>. QED  BY <1>1, <1>2

\* A worker's steps.
LEMMA WorkerType ==
  ASSUME TypeOK, NEW w \in Workers, Step(w) \/ Crash(w)
  PROVE  TypeOK'
<1>. USE DEF TypeOK, single, rows, work, upkeep, history
<1>0. /\ on[w] = None \/ on[w] \in JobIds
      /\ \A r \in Job : [job EXCEPT ![on[w]] = r] \in [JobIds -> Job]
  OBVIOUS
<1>1. CASE LoadRows(w)
  <2>1. [viewer |-> viewer, bot |-> bot] \in [viewer : ViewerStatuses, bot : BOOLEAN]
    OBVIOUS
  <2>. QED  BY <1>1, <2>1 DEF LoadRows, PCs
<1>2. CASE StopEarly(w)
  <2>1. job' \in [JobIds -> Job]
    <3>. DEFINE over == [job EXCEPT ![on[w]] = mark_completed(@)]
    <3>1. job' = over \/ job' = mark_retrying(on[w])
      BY <1>2 DEF StopEarly
    <3>2. over \in [JobIds -> Job]
      BY <1>0, JobChanges, NoneNotJob
    <3>3. mark_retrying(on[w]) \in [JobIds -> Job]
      BY <1>0, RetryingType
    <3>. QED  BY <3>1, <3>2, <3>3, Zenon
  <2>. QED  BY <1>2, <2>1, ReleaseType DEF StopEarly
<1>3. CASE BeginItems(w)
  BY <1>3 DEF BeginItems, PCs
<1>4. CASE NextItem(w)
  <2>1. item[w] + 1 \in 0 .. N /\ item[w] + 1 \in Items
    BY <1>4, NType DEF NextItem, Items
  <2>2. item' \in [Workers -> 0 .. N]
    BY <1>4, <2>1 DEF NextItem
  <2>3. prior' \in [Workers -> Statuses \cup {"NONE"}] /\ pc' \in [Workers -> PCs]
    BY <1>4, <2>1 DEF NextItem, PCs
  <2>. QED  BY <1>4, <2>2, <2>3 DEF NextItem
<1>5. CASE InsertReceipt(w)
  BY <1>5 DEF InsertReceipt, PCs
<1>6. CASE InsertRaises(w)
  BY <1>6, ReleaseType DEF InsertRaises
<1>7. CASE Send(w)
  <2>1. got' \in [Items -> Nat]
    <3>1. \A i \in Items : got[i] + 1 \in Nat
      OBVIOUS
    <3>2. [got EXCEPT ![item[w]] = @ + 1] \in [Items -> Nat]
      BY <3>1
    <3>. QED  BY <1>7, <3>2 DEF Send
  <2>2. result' \in [Workers -> Statuses \cup {"NONE"}] /\ pc' \in [Workers -> PCs]
    BY <1>7 DEF Send, PCs, Statuses
  <2>3. faults' \in [Faults -> Nat]
    BY <1>7, SpendType DEF Send, Faults
  <2>4. told' \in {"NOTHING", "SENDING", "TOO_LATE"}
    BY <1>7 DEF Send
  <2>. QED  BY <1>7, <2>1, <2>2, <2>3, <2>4 DEF Send
<1>8. Stored(w) \in [Items -> Statuses \cup {"NONE"}]
  BY DEF Stored
<1>9. CASE CommitSent(w)
  <2>1. job' \in [JobIds -> Job]
    BY <1>0, <1>9, JobChanges, NoneNotJob DEF CommitSent
  <2>. QED  BY <1>8, <1>9, <2>1 DEF CommitSent, PCs
<1>10. CASE CommitBlocked(w)
  <2>1. job' \in [JobIds -> Job]
    BY <1>0, <1>10, JobChanges, NoneNotJob DEF CommitBlocked
  <2>. QED  BY <1>8, <1>10, <2>1, ReleaseType DEF CommitBlocked, ViewerStatuses
<1>11. CASE CommitFailed(w)
  <2>1. job' \in [JobIds -> Job]
    BY <1>0, <1>11, JobChanges, RetryingType, NoneNotJob DEF CommitFailed
  <2>. QED  BY <1>8, <1>11, <2>1, ReleaseType DEF CommitFailed
<1>12. CASE EndRun(w)
  <2>1. job' \in [JobIds -> Job]
    BY <1>0, <1>12, JobChanges, NoneNotJob DEF EndRun
  <2>. QED  BY <1>12, <2>1, ReleaseType DEF EndRun
<1>13. CASE Crash(w)
  <2>1. faults' \in [Faults -> Nat]
    BY <1>13, SpendType DEF Crash, Faults
  <2>. QED  BY <1>13, <2>1, ReleaseType DEF Crash
<1>. QED  BY <1>1, <1>2, <1>3, <1>4, <1>5, <1>6, <1>7, <1>9, <1>10, <1>11, <1>12, <1>13
          DEF Step

LEMMA ClaimType ==
  ASSUME TypeOK, NEW w \in Workers, NEW j \in JobIds, claim(w, j)
  PROVE  TypeOK'
<1>. USE DEF TypeOK, single, upkeep, history
<1>1. PICK n \in Nat :
        /\ job' = [job EXCEPT ![j] = [mark_running(job[j]) EXCEPT !.attempts = n]]
        /\ tries' = [tries EXCEPT ![w] = n]
  <2>1. mark_running(job[j]).attempts \in Nat
    BY JobChanges
  <2>. QED  BY <2>1, MaxAttemptsPositive DEF claim
<1>2. job' \in [JobIds -> Job]
  BY <1>1, JobChanges
<1>. QED  BY <1>1, <1>2 DEF claim, PCs

LEMMA StepType == TypeOK /\ [Next]_vars => TypeOK'
<1>. SUFFICES ASSUME TypeOK, [Next]_vars PROVE TypeOK'
  OBVIOUS
<1>1. CASE UNCHANGED vars
  BY <1>1 DEF vars, single, rows, work, upkeep, history, TypeOK
<1>2. CASE ViewerBlocks \/ BotStops \/ BotStarts
  <2>1. faults' \in [Faults -> Nat]
    BY <1>2, SpendType DEF ViewerBlocks, BotStops, BotStarts, Faults, TypeOK
  <2>. QED  BY <1>2, <2>1 DEF ViewerBlocks, BotStops, BotStarts, TypeOK, single, rows, work,
                              upkeep, history
<1>3. ASSUME NEW t \in Taps,
             \/ TapReads(t) \/ TapLocks(t) \/ TapCommits(t) \/ TapRaises(t)
             \/ create_delivery(t) \/ send_video(t) \/ deliver_unlocked_video(t)
      PROVE  TypeOK'
  BY <1>3, TapType
<1>4. ASSUME NEW w \in Workers, Step(w) \/ Crash(w) PROVE TypeOK'
  BY <1>4, WorkerType
<1>5. ASSUME NEW w \in Workers, NEW j \in JobIds, claim(w, j) PROVE TypeOK'
  BY <1>5, ClaimType
<1>6. ASSUME NEW j \in JobIds, HeartbeatAges(j) \/ DelayElapses(j) PROVE TypeOK'
  <2>1. faults' \in [Faults -> Nat]
    BY <1>6, SpendType DEF HeartbeatAges, DelayElapses, Faults, TypeOK
  <2>2. job[j] \in Job
    BY DEF TypeOK
  <2>3. job' \in [JobIds -> Job]
    BY <1>6, <2>2, JobChanges DEF HeartbeatAges, DelayElapses, TypeOK
  <2>. QED  BY <1>6, <2>1, <2>3 DEF HeartbeatAges, DelayElapses, TypeOK, single, work, upkeep,
                                   history
<1>7. CASE get_stale_running_jobs
  <2>1. \A j \in JobIds : job[j].attempts \in Nat
    BY DEF TypeOK, Job
  <2>2. scan' \in [JobIds -> Nat]
    BY <1>7, <2>1 DEF get_stale_running_jobs
  <2>. QED  BY <1>7, <2>2 DEF get_stale_running_jobs, TypeOK, single, rows, work, history
<1>8. CASE recover_stale_running_jobs
  <2>1. \A j \in JobIds : recover_stale(job[j], scan[j], MaxAttempts) \in Job
    <3>1. \A j \in JobIds : job[j] \in Job /\ scan[j] \in Nat
      BY DEF TypeOK
    <3>. QED  BY <3>1, JobChanges
  <2>2. job' \in [JobIds -> Job] /\ scan' \in [JobIds -> Nat]
    BY <1>8, <2>1 DEF recover_stale_running_jobs, TypeOK
  <2>3. handed' \subseteq JobIds
    BY <1>8 DEF recover_stale_running_jobs, Scanned, TypeOK
  <2>. QED  BY <1>8, <2>2, <2>3 DEF recover_stale_running_jobs, TypeOK, single, work
<1>9. ASSUME NEW j \in JobIds, RetryReads(j) \/ RetryWrites(j) PROVE TypeOK'
  <2>1. retry_job(job[j]) \in Job
    <3>1. job[j] \in Job /\ 0 \in Nat
      BY DEF TypeOK
    <3>. QED  BY <3>1, JobChanges
  <2>2. job' \in [JobIds -> Job] /\ pressed' \subseteq JobIds /\ handed' \subseteq JobIds
    BY <1>9, <2>1 DEF RetryReads, RetryWrites, TypeOK, rows, history
  <2>3. faults' \in [Faults -> Nat]
    BY <1>9, SpendType DEF RetryReads, RetryWrites, Faults, TypeOK
  <2>. QED  BY <1>9, <2>2, <2>3 DEF RetryReads, RetryWrites, TypeOK, single, rows, work,
                                   history
<1>. QED  BY <1>1, <1>2, <1>3, <1>4, <1>5, <1>6, <1>7, <1>8, <1>9 DEF Next

\* Every variable of the delivery always has its type.
THEOREM TypeCorrect == Spec => []TypeOK
BY InitType, StepType, PTL DEF Spec

----------------------------------------------------------------------------
(* One job.                                                                 *)

\* The viewer's row is locked by one request at a time.
OneHolder == \A t, u \in Taps : HoldsViewer(t) /\ HoldsViewer(u) => t = u

\* A request that has looked for the job under the lock still knows: there is
\* none, or the one it has found.
TapKnows(t) ==
  tap[t].at = "locked" =>
    IF tap[t].job = None THEN \A j \in JobIds : ~Exists(j)
                         ELSE tap[t].job \in JobIds /\ Exists(tap[t].job)

OneJobInv ==
  /\ OneJobPerUnlock
  /\ OneHolder
  /\ \A t \in Taps : TapKnows(t)
  /\ \A w \in Workers : on[w] \in JobIds => Exists(on[w])
  /\ \A j \in Scanned \cup pressed : Exists(j)

LEMMA InitOneJob == Init => OneJobInv
BY NoneNotJob DEF Init, OneJobInv, OneJobPerUnlock, OneHolder, HoldsViewer, TapKnows,
                  Exists, NoJob, NoTap, Scanned

JobsKept == \A j \in JobIds : Exists(j)' <=> Exists(j)

\* Only the commit of a request creates a job.
LEMMA NoNewJob ==
  ASSUME TypeOK, OneJobInv, JobsKept, OneHolder', \A t \in Taps : TapKnows(t)',
         \A w \in Workers : on'[w] \in {on[w], None} \/ Exists(on'[w]),
         \A j \in Scanned' \cup pressed' : j \in Scanned \cup pressed \/ Exists(j),
         Scanned' \cup pressed' \subseteq JobIds
  PROVE  OneJobInv'
<1>1. OneJobPerUnlock'
  BY DEF OneJobInv, OneJobPerUnlock, JobsKept
<1>2. \A w \in Workers : (on[w] \in JobIds => Exists(on[w]))'
  <2>. SUFFICES ASSUME NEW w \in Workers, NEW j \in JobIds, on'[w] = j PROVE Exists(j)'
    BY DEF Exists
  <2>1. Exists(j)
    BY NoneNotJob DEF OneJobInv
  <2>. QED  BY <2>1 DEF JobsKept
<1>3. \A j \in Scanned' \cup pressed' : Exists(j)'
  BY DEF OneJobInv, JobsKept
<1>. QED  BY <1>1, <1>2, <1>3 DEF OneJobInv

\* What no request does: the viewer's row and what they know stay as they are.
LEMMA OthersKeep ==
  ASSUME TypeOK, OneJobInv, JobsKept, UNCHANGED tap
  PROVE  OneHolder' /\ \A t \in Taps : TapKnows(t)'
BY DEF OneJobInv, OneHolder, HoldsViewer, TapKnows, JobsKept, Exists

\* The worker and the recovery write the status of jobs that are there.
LEMMA WritesExisting ==
  ASSUME TypeOK, NEW j \in JobIds, Exists(j), NEW r \in Job, r.status # "ABSENT",
         job' = [job EXCEPT ![j] = r]
  PROVE  JobsKept
BY DEF TypeOK, JobsKept, Exists

LEMMA WorkerOneJob ==
  ASSUME TypeOK, OneJobInv, NEW w \in Workers, Step(w) \/ Crash(w)
  PROVE  OneJobInv'
<1>1. /\ UNCHANGED <<tap, upkeep>>
      /\ \A u \in Workers : on'[u] \in {on[u], None}
  BY DEF Step, Crash, LoadRows, StopEarly, BeginItems, NextItem, InsertReceipt, InsertRaises,
         Send, CommitSent, CommitBlocked, CommitFailed, EndRun, Release, TypeOK
<1>2. JobsKept
  <2>1. CASE job' = job
    BY <2>1 DEF JobsKept, Exists
  <2>2. CASE on[w] \in JobIds
    <3>1. Exists(on[w]) /\ job[on[w]] \in Job
      BY <2>2 DEF OneJobInv, TypeOK
    <3>2. \A r \in Job :
            /\ mark_completed(r).status # "ABSENT" /\ mark_failed(r).status # "ABSENT"
            /\ update_heartbeat(r).status = r.status
      BY DEF mark_completed, mark_failed, update_heartbeat, Job
    <3>3. \A j \in JobIds : mark_retrying(on[w])[j].status = "ABSENT" => job[j].status = "ABSENT"
      BY <2>2 DEF mark_retrying, TypeOK, Job
    <3>4. \A j \in JobIds : j # on[w] => mark_retrying(on[w])[j] = job[j]
      BY <2>2 DEF mark_retrying, TypeOK
    <3>5. \/ job' = job
          \/ job' = [job EXCEPT ![on[w]] = mark_completed(job[on[w]])]
          \/ job' = [job EXCEPT ![on[w]] = mark_failed(job[on[w]])]
          \/ job' = [job EXCEPT ![on[w]] = update_heartbeat(job[on[w]])]
          \/ job' = mark_retrying(on[w])
      BY DEF Step, Crash, LoadRows, StopEarly, BeginItems, NextItem, InsertReceipt,
             InsertRaises, Send, CommitSent, CommitBlocked, CommitFailed, EndRun, rows
    <3>6. CASE job' = mark_retrying(on[w])
      BY <3>1, <3>3, <3>4, <3>6 DEF JobsKept, Exists
    <3>7. CASE job' # mark_retrying(on[w])
      BY <2>1, <2>2, <3>1, <3>2, <3>5, <3>7, JobChanges, WritesExisting DEF Exists
    <3>. QED  BY <3>6, <3>7
  <2>3. CASE on[w] = None
    <3>1. \A r : [job EXCEPT ![None] = r] = job
      BY NoneNotJob DEF TypeOK
    <3>2. mark_retrying(None) = job
      BY NoneNotJob DEF mark_retrying, TypeOK
    <3>3. job' = job
      BY <2>3, <3>1, <3>2 DEF Step, Crash, LoadRows, StopEarly, BeginItems, NextItem,
         InsertReceipt, InsertRaises, Send, CommitSent, CommitBlocked, CommitFailed, EndRun, rows
    <3>. QED  BY <2>1, <3>3
  <2>. QED  BY <2>2, <2>3 DEF TypeOK
<1>. QED  BY <1>1, <1>2, OthersKeep, NoNewJob DEF TypeOK, OneJobInv, Scanned, upkeep

\* The requests, but for the commit: nothing is written yet, and the lock is
\* only taken when it is free.
LEMMA TapOneJob ==
  ASSUME TypeOK, OneJobInv, NEW t \in Taps,
         \/ TapReads(t) \/ TapLocks(t) \/ TapRaises(t)
         \/ create_delivery(t) \/ send_video(t) \/ deliver_unlocked_video(t)
  PROVE  OneJobInv'
<1>1. UNCHANGED <<job, on, upkeep>> /\ \A u \in Taps \ {t} : tap'[u] = tap[u]
  BY DEF TapReads, TapLocks, TapRaises, create_delivery, send_video, deliver_unlocked_video,
         rows, work, TypeOK
<1>2. JobsKept
  BY <1>1 DEF JobsKept, Exists
<1>3. HoldsViewer(t)' => HoldsViewer(t) \/ Lockable(t)
  <2>1. CASE TapReads(t) \/ TapRaises(t) \/ deliver_unlocked_video(t)
    <3>1. tap'[t].at \in {"idle", "read"}
      BY <2>1 DEF TapReads, TapRaises, deliver_unlocked_video, NoTap, TypeOK
    <3>. QED  BY <3>1 DEF HoldsViewer
  <2>2. CASE TapLocks(t) \/ create_delivery(t)
    BY <2>2 DEF TapLocks, create_delivery, get_or_create_viewer
  <2>3. CASE send_video(t)
    BY <2>3 DEF send_video, HoldsViewer
  <2>. QED  BY <2>1, <2>2, <2>3
<1>4. OneHolder'
  BY <1>1, <1>3 DEF OneJobInv, OneHolder, Lockable, HoldsViewer
<1>5. ASSUME NEW u \in Taps \ {t} PROVE TapKnows(u)'
  BY <1>1 DEF OneJobInv, TapKnows, Exists
<1>6. TapKnows(t)'
  <2>1. CASE TapLocks(t)
    <3>1. PICK j \in JobIds \cup {None} :
            /\ IF \E k \in JobIds : Exists(k) THEN j # None /\ Exists(j) ELSE j = None
            /\ tap' = [tap EXCEPT
                 ![t].at = "locked", ![t].job = j,
                 ![t].status = IF j = None THEN "ABSENT" ELSE job[j].status,
                 ![t].complete = AllSent]
      BY <2>1, Zenon DEF TapLocks
    <3>2. tap'[t].at = "locked" /\ tap'[t].job = j
      BY <3>1 DEF TypeOK
    <3>. QED  BY <1>1, <3>1, <3>2 DEF TapKnows, Exists
  <2>2. CASE ~TapLocks(t)
    <3>1. tap'[t].at # "locked"
      BY <2>2 DEF TapReads, TapRaises, create_delivery, send_video, deliver_unlocked_video,
                  NoTap, TypeOK
    <3>. QED  BY <3>1 DEF TapKnows
  <2>. QED  BY <2>1, <2>2
<1>. QED  BY <1>1, <1>2, <1>4, <1>5, <1>6, NoNewJob DEF TypeOK, Scanned, upkeep

\* The commit creates a job if there was none when the lock was taken, and
\* that is so to the end of the request.
LEMMA CommitOneJob ==
  ASSUME TypeOK, OneJobInv, NEW t \in Taps, TapCommits(t)
  PROVE  OneJobInv'
<1>1. /\ UNCHANGED <<on, upkeep>> /\ tap[t].at = "locked"
      /\ \A u \in Taps \ {t} : tap'[u] = tap[u]
      /\ tap'[t] = NoTap
  BY DEF TapCommits, work, TypeOK
<1>2. \A u \in Taps : ~HoldsViewer(u)'
  BY <1>1 DEF OneJobInv, OneHolder, HoldsViewer, NoTap
<1>3. OneHolder' /\ \A u \in Taps : TapKnows(u)'
  BY <1>2 DEF OneHolder, TapKnows, HoldsViewer
<1>4. CASE tap[t].job = None
  <2>1. \A j \in JobIds : ~Exists(j)
    BY <1>1, <1>4 DEF OneJobInv, TapKnows
  <2>2. PICK k : job' = [job EXCEPT ![k] = create_job]
    BY <1>4 DEF TapCommits, NewJob
  <2>3. OneJobPerUnlock'
    BY <2>1, <2>2 DEF OneJobPerUnlock, Exists, TypeOK
  <2>4. \A w \in Workers : on[w] \notin JobIds
    BY <2>1 DEF OneJobInv
  <2>5. Scanned \cup pressed = {}
    BY <2>1 DEF OneJobInv, TypeOK, Scanned
  <2>. QED  BY <1>1, <1>3, <2>3, <2>4, <2>5 DEF OneJobInv, Scanned, upkeep
<1>5. CASE tap[t].job # None
  <2>1. tap[t].job \in JobIds /\ Exists(tap[t].job)
    BY <1>1, <1>5 DEF OneJobInv, TapKnows
  <2>2. \A j \in JobIds : RearmedJob(tap[t].job)[j].status = "ABSENT" <=> job[j].status = "ABSENT"
    BY <2>1 DEF RearmedJob, Exists, TypeOK, Job
  <2>3. job' = RearmedJob(tap[t].job) \/ job' = job
    BY <1>5 DEF TapCommits
  <2>4. JobsKept
    BY <2>2, <2>3 DEF JobsKept, Exists
  <2>. QED  BY <1>1, <1>3, <2>4, NoNewJob DEF TypeOK, Scanned, upkeep
<1>. QED  BY <1>4, <1>5

\* Time passes: no job changes its status.
LEMMA TimePasses ==
  ASSUME TypeOK, NEW j \in JobIds, HeartbeatAges(j) \/ DelayElapses(j)
  PROVE  /\ UNCHANGED <<receipt, got, tap, work, scan, pressed>>
         /\ \A k \in JobIds : job'[k].status = job[k].status
<1>1. PICK new : job' = [job EXCEPT ![j] = new] /\ new.status = job[j].status
  <2>1. [job[j] EXCEPT !.stale = TRUE].status = job[j].status
    BY DEF TypeOK, Job
  <2>2. [job[j] EXCEPT !.due = TRUE].status = job[j].status
    BY DEF TypeOK, Job
  <2>3. CASE HeartbeatAges(j)
    BY <2>1, <2>3 DEF HeartbeatAges
  <2>4. CASE DelayElapses(j)
    BY <2>2, <2>4 DEF DelayElapses
  <2>. QED  BY <2>3, <2>4
<1>2. \A k \in JobIds : job'[k].status = job[k].status
  BY <1>1 DEF TypeOK
<1>3. UNCHANGED <<receipt, got, tap, work, scan, pressed>>
  <2>1. CASE HeartbeatAges(j)
    BY <2>1 DEF HeartbeatAges, upkeep
  <2>2. CASE DelayElapses(j)
    BY <2>2 DEF DelayElapses, upkeep
  <2>. QED  BY <2>1, <2>2
<1>. QED  BY <1>2, <1>3

LEMMA StepOneJob == TypeOK /\ OneJobInv /\ [Next]_vars => OneJobInv'
<1>. SUFFICES ASSUME TypeOK, OneJobInv, [Next]_vars PROVE OneJobInv'
  OBVIOUS
<1>1. CASE UNCHANGED <<job, tap, on, upkeep>>
  <2>1. JobsKept
    BY <1>1 DEF JobsKept, Exists
  <2>. QED  BY <1>1, <2>1, OthersKeep, NoNewJob DEF TypeOK, Scanned, upkeep
<1>2. CASE UNCHANGED vars \/ ViewerBlocks \/ BotStops \/ BotStarts
  BY <1>1, <1>2 DEF vars, work, rows, ViewerBlocks, BotStops, BotStarts
<1>3. ASSUME NEW t \in Taps,
             \/ TapReads(t) \/ TapLocks(t) \/ TapCommits(t) \/ TapRaises(t)
             \/ create_delivery(t) \/ send_video(t) \/ deliver_unlocked_video(t)
      PROVE  OneJobInv'
  BY <1>3, TapOneJob, CommitOneJob
<1>4. ASSUME NEW w \in Workers, NEW j \in JobIds, claim(w, j) PROVE OneJobInv'
  <2>1. Exists(j) /\ mark_running(job[j]).status = "RUNNING"
    BY <1>4 DEF claim, IsClaimable, Exists, mark_running, TypeOK, Job
  <2>2. PICK n : job' = [job EXCEPT ![j] = [mark_running(job[j]) EXCEPT !.attempts = n]]
    BY <1>4 DEF claim
  <2>3. mark_running(job[j]) \in Job
    BY JobChanges DEF TypeOK
  <2>4. [mark_running(job[j]) EXCEPT !.attempts = n].status = "RUNNING"
    BY <2>1, <2>3 DEF Job
  <2>5. JobsKept
    BY <2>1, <2>2, <2>4 DEF JobsKept, Exists, TypeOK
  <2>6. UNCHANGED <<tap, upkeep>> /\ \A u \in Workers : on'[u] = on[u] \/ Exists(on'[u])
    BY <1>4, <2>1 DEF claim, TypeOK
  <2>. QED  BY <2>5, <2>6, OthersKeep, NoNewJob DEF TypeOK, Scanned, upkeep
<1>5. ASSUME NEW w \in Workers, Step(w) \/ Crash(w) PROVE OneJobInv'
  BY <1>5, WorkerOneJob
<1>6. ASSUME NEW j \in JobIds, HeartbeatAges(j) \/ DelayElapses(j) PROVE OneJobInv'
  <2>1. JobsKept
    BY <1>6, TimePasses DEF JobsKept, Exists
  <2>2. UNCHANGED <<tap, on, scan, pressed>>
    BY <1>6, TimePasses DEF work
  <2>. QED  BY <2>1, <2>2, OthersKeep, NoNewJob DEF TypeOK, Scanned, upkeep
<1>7. CASE get_stale_running_jobs
  <2>1. JobsKept
    BY <1>7 DEF get_stale_running_jobs, rows, JobsKept, Exists
  <2>2. \A j \in Scanned' : Exists(j)
    BY <1>7 DEF get_stale_running_jobs, IsStaleRunning, Exists, Scanned
  <2>. QED  BY <1>7, <2>1, <2>2, OthersKeep, NoNewJob
           DEF get_stale_running_jobs, work, TypeOK, Scanned
<1>8. CASE recover_stale_running_jobs
  <2>1. \A j \in JobIds : recover_stale(job[j], scan[j], MaxAttempts).status # "ABSENT"
    BY DEF recover_stale, TypeOK, Job
  <2>2. JobsKept
    BY <1>8, <2>1 DEF recover_stale_running_jobs, OneJobInv, JobsKept, Exists
  <2>. QED  BY <1>8, <2>2, OthersKeep, NoNewJob
           DEF recover_stale_running_jobs, work, TypeOK, Scanned
<1>9. ASSUME NEW j \in JobIds, RetryReads(j) \/ RetryWrites(j) PROVE OneJobInv'
  <2>1. JobsKept
    <3>1. \A k \in JobIds \ {j} : job'[k] = job[k]
      BY <1>9 DEF RetryReads, RetryWrites, TypeOK, rows
    <3>2. CASE RetryReads(j)
      BY <3>2 DEF RetryReads, JobsKept, Exists, rows
    <3>3. CASE RetryWrites(j)
      <4>1. job'[j].status = "PENDING" /\ Exists(j)
        BY <3>3 DEF RetryWrites, retry_job, OneJobInv, TypeOK, Job
      <4>. QED  BY <3>1, <4>1 DEF JobsKept, Exists
    <3>. QED  BY <1>9, <3>2, <3>3
  <2>2. pressed' \subseteq pressed \/ (pressed' = pressed \cup {j} /\ Exists(j))
    BY <1>9 DEF RetryReads, RetryWrites, CanRetry, Exists
  <2>. QED  BY <1>9, <2>1, <2>2, OthersKeep, NoNewJob
           DEF RetryReads, RetryWrites, work, TypeOK, Scanned
<1>. QED  BY <1>2, <1>3, <1>4, <1>5, <1>6, <1>7, <1>8, <1>9 DEF Next

\* The lock of the viewer's row serializes the unlocks: however many taps are
\* served at a time, a collection and a viewer have one job.
THEOREM AlwaysOneJob == Spec => []OneJobPerUnlock
<1>1. OneJobInv => OneJobPerUnlock
  BY DEF OneJobInv
<1>. QED  BY <1>1, InitType, StepType, InitOneJob, StepOneJob, PTL DEF Spec

----------------------------------------------------------------------------
(* The order of the items.                                                  *)

\* All items before i have arrived.
ArrivedBefore(i) == \A j \in Items : j < i => got[j] > 0

\* A worker is at an item only when those before it have arrived, whichever
\* worker has sent them.
WorkerOrder(w) ==
  /\ pc[w] \in {"claimed", "loaded"} => item[w] = 0
  /\ pc[w] = "items" => ArrivedBefore(item[w] + 1)
  /\ pc[w] \in {"inserting", "sending", "answered"} => ArrivedBefore(item[w])
  /\ pc[w] = "answered" /\ result[w] = "SENT" /\ item[w] \in Items => got[item[w]] > 0

OrderInv ==
  /\ ArriveInOrder
  /\ \A i \in Items : receipt[i] = "SENT" => got[i] > 0
  /\ \A w \in Workers : pc[w] = "idle" => item[w] = 0
  /\ \A w \in Workers : WorkerOrder(w)

LEMMA InitOrder == Init => OrderInv
BY NType DEF Init, OrderInv, ArriveInOrder, WorkerOrder, Items

\* What has arrived has arrived.
LEMMA StillArrived ==
  ASSUME NEW w \in Workers, WorkerOrder(w),
         \A i \in Items : got[i] > 0 => got'[i] > 0,
         pc'[w] = pc[w], item'[w] = item[w], result'[w] = result[w]
  PROVE  WorkerOrder(w)'
BY DEF WorkerOrder, ArrivedBefore

LEMMA OthersOrder ==
  ASSUME OrderInv, UNCHANGED <<got, receipt, pc, item, result>>
  PROVE  OrderInv'
BY StillArrived DEF OrderInv, ArriveInOrder

\* A step of worker w that sends nothing.
LEMMA OwnOrder ==
  ASSUME OrderInv, NEW w \in Workers, UNCHANGED got,
         \A i \in Items : receipt'[i] = "SENT" => got[i] > 0,
         \A u \in Workers \ {w} :
           pc'[u] = pc[u] /\ item'[u] = item[u] /\ result'[u] = result[u],
         pc'[w] = "idle" => item'[w] = 0,
         WorkerOrder(w)'
  PROVE  OrderInv'
<1>1. \A u \in Workers \ {w} : WorkerOrder(u)'
  BY StillArrived DEF OrderInv
<1>. QED  BY <1>1 DEF OrderInv, ArriveInOrder

LEMMA StoredArrived ==
  ASSUME TypeOK, OrderInv, NEW w \in Workers, pc[w] = "answered"
  PROVE  \A i \in Items : Stored(w)[i] = "SENT" => got[i] > 0
BY DEF TypeOK, OrderInv, WorkerOrder, Stored

LEMMA ReleaseOrder ==
  ASSUME TypeOK, OrderInv, NEW w \in Workers, Release(w), UNCHANGED got,
         \A i \in Items : receipt'[i] = "SENT" => got[i] > 0
  PROVE  OrderInv'
<1>1. pc'[w] = "idle" /\ item'[w] = 0
  BY DEF Release, TypeOK
<1>2. WorkerOrder(w)'
  BY <1>1 DEF WorkerOrder
<1>. QED  BY <1>1, <1>2, OwnOrder DEF Release, TypeOK

\* The next item is sent only now, when all before it have arrived.
LEMMA SendOrder ==
  ASSUME TypeOK, OrderInv, NEW w \in Workers, Send(w)
  PROVE  OrderInv'
<1>1. /\ UNCHANGED <<receipt, item>> /\ pc'[w] = "answered" /\ ArrivedBefore(item[w])
      /\ \A u \in Workers \ {w} : pc'[u] = pc[u] /\ result'[u] = result[u]
  BY DEF Send, rows, TypeOK, OrderInv, WorkerOrder
<1>2. got' = got \/ got' = [got EXCEPT ![item[w]] = @ + 1]
  BY DEF Send
<1>3. \A i \in Items : got'[i] = got[i] \/ (i = item[w] /\ got'[i] = got[i] + 1)
  BY <1>2 DEF TypeOK
<1>4. \A i \in Items : got[i] \in Nat
  BY DEF TypeOK
<1>5. \A i \in Items : got[i] > 0 => got'[i] > 0
  BY <1>3, <1>4
<1>6. ArriveInOrder'
  <2>. SUFFICES ASSUME NEW i \in Items, NEW j \in Items, i < j, got'[j] > 0
                PROVE  got'[i] > 0
    BY DEF ArriveInOrder
  <2>1. CASE got'[j] = got[j]
    BY <1>5, <2>1 DEF OrderInv, ArriveInOrder
  <2>2. CASE j = item[w]
    BY <1>1, <1>5, <2>2 DEF ArrivedBefore
  <2>. QED  BY <1>3, <2>1, <2>2
<1>7. ASSUME NEW u \in Workers \ {w} PROVE WorkerOrder(u)'
  BY <1>1, <1>5, StillArrived DEF OrderInv
<1>8. WorkerOrder(w)'
  <2>1. ArrivedBefore(item[w])'
    BY <1>1, <1>5 DEF ArrivedBefore
  <2>2. result'[w] = "SENT" /\ item[w] \in Items => got'[item[w]] > 0
    <3>. SUFFICES ASSUME result'[w] = "SENT", item[w] \in Items PROVE got'[item[w]] > 0
      OBVIOUS
    <3>1. got' = [got EXCEPT ![item[w]] = @ + 1]
      BY DEF Send, TypeOK
    <3>. QED  BY <1>4, <3>1 DEF TypeOK
  <2>. QED  BY <1>1, <2>1, <2>2 DEF WorkerOrder
<1>. QED  BY <1>1, <1>5, <1>6, <1>7, <1>8 DEF OrderInv

LEMMA WorkerStepOrder ==
  ASSUME TypeOK, OrderInv, NEW w \in Workers, Step(w) \/ Crash(w)
  PROVE  OrderInv'
<1>0. WorkerOrder(w)
  BY DEF OrderInv
<1>1. CASE LoadRows(w) \/ BeginItems(w) \/ InsertReceipt(w)
  <2>1. /\ UNCHANGED <<got, receipt, item, result>>
        /\ \A u \in Workers \ {w} : pc'[u] = pc[u]
        /\ \/ pc[w] = "claimed" /\ pc'[w] = "loaded"
           \/ pc[w] = "loaded" /\ pc'[w] = "items"
           \/ pc[w] = "inserting" /\ pc'[w] = "sending"
    BY <1>1 DEF LoadRows, BeginItems, InsertReceipt, rows, TypeOK
  <2>2. WorkerOrder(w)'
    BY <1>0, <2>1 DEF WorkerOrder, ArrivedBefore, Items
  <2>. QED  BY <2>1, <2>2, OwnOrder DEF OrderInv
<1>2. CASE NextItem(w)
  <2>1. PICK i \in Items :
          /\ i = item[w] + 1 /\ item'[w] = i /\ pc[w] = "items"
          /\ \/ receipt[i] = "SENT" /\ pc' = pc
             \/ pc'[w] \in {"inserting", "sending"}
    <3>1. item[w] + 1 \in Items
      BY <1>2, NType DEF NextItem, Items, TypeOK
    <3>. QED  BY <1>2, <3>1 DEF NextItem, HasItem, TypeOK
  <2>2. /\ UNCHANGED <<got, receipt, result>>
        /\ \A u \in Workers \ {w} : pc'[u] = pc[u] /\ item'[u] = item[u]
    BY <1>2 DEF NextItem, rows, TypeOK
  <2>3. ArrivedBefore(i)
    BY <1>0, <2>1 DEF WorkerOrder
  <2>4. receipt[i] = "SENT" => ArrivedBefore(i + 1)
    BY <2>3, NType DEF OrderInv, ArrivedBefore, Items
  <2>5. WorkerOrder(w)'
    BY <2>1, <2>2, <2>3, <2>4 DEF WorkerOrder, ArrivedBefore
  <2>. QED  BY <2>1, <2>2, <2>5, OwnOrder DEF OrderInv
<1>3. CASE Send(w)
  BY <1>3, SendOrder
<1>4. CASE CommitSent(w)
  <2>1. /\ UNCHANGED <<got, item>> /\ pc[w] = "answered" /\ result[w] = "SENT"
        /\ receipt' = Stored(w) /\ pc'[w] = "items"
        /\ \A u \in Workers \ {w} : pc'[u] = pc[u] /\ result'[u] = result[u]
    BY <1>4 DEF CommitSent, TypeOK
  <2>2. ArrivedBefore(item[w] + 1)
    <3>1. ArrivedBefore(item[w]) /\ (item[w] \in Items => got[item[w]] > 0)
      BY <1>0, <2>1 DEF WorkerOrder
    <3>2. item[w] \in Nat
      BY NType DEF TypeOK
    <3>. QED  BY <3>1, <3>2, NType DEF ArrivedBefore, Items
  <2>3. WorkerOrder(w)'
    BY <2>1, <2>2 DEF WorkerOrder, ArrivedBefore
  <2>. QED  BY <2>1, <2>3, StoredArrived, OwnOrder
<1>5. CASE StopEarly(w) \/ InsertRaises(w) \/ EndRun(w) \/ Crash(w)
  <2>1. Release(w) /\ UNCHANGED <<got, receipt>>
    BY <1>5 DEF StopEarly, InsertRaises, EndRun, Crash, rows
  <2>. QED  BY <2>1, ReleaseOrder DEF OrderInv
<1>6. CASE CommitBlocked(w) \/ CommitFailed(w)
  <2>1. Release(w) /\ UNCHANGED got /\ receipt' = Stored(w) /\ pc[w] = "answered"
    BY <1>6 DEF CommitBlocked, CommitFailed
  <2>. QED  BY <2>1, StoredArrived, ReleaseOrder
<1>. QED  BY <1>1, <1>2, <1>3, <1>4, <1>5, <1>6 DEF Step

LEMMA StepOrder == TypeOK /\ OrderInv /\ [Next]_vars => OrderInv'
<1>. SUFFICES ASSUME TypeOK, OrderInv, [Next]_vars PROVE OrderInv'
  OBVIOUS
<1>1. ASSUME NEW w \in Workers, Step(w) \/ Crash(w) PROVE OrderInv'
  BY <1>1, WorkerStepOrder
<1>2. ASSUME NEW w \in Workers, NEW j \in JobIds, claim(w, j) PROVE OrderInv'
  <2>1. /\ UNCHANGED <<got, receipt, item, result>> /\ pc[w] = "idle" /\ pc'[w] = "claimed"
        /\ \A u \in Workers \ {w} : pc'[u] = pc[u]
    BY <1>2 DEF claim, TypeOK
  <2>2. WorkerOrder(w)'
    BY <2>1 DEF OrderInv, WorkerOrder
  <2>. QED  BY <2>1, <2>2, OwnOrder DEF OrderInv
<1>3. ASSUME NEW t \in Taps,
             \/ TapReads(t) \/ TapLocks(t) \/ TapCommits(t) \/ TapRaises(t)
             \/ create_delivery(t) \/ send_video(t) \/ deliver_unlocked_video(t)
      PROVE  OrderInv'
  BY <1>3, OthersOrder DEF TapReads, TapLocks, TapCommits, TapRaises, create_delivery,
     send_video, deliver_unlocked_video, rows, work
<1>4. CASE \/ UNCHANGED vars \/ ViewerBlocks \/ BotStops \/ BotStarts
           \/ get_stale_running_jobs \/ recover_stale_running_jobs
           \/ \E j \in JobIds : \/ HeartbeatAges(j) \/ DelayElapses(j)
                               \/ RetryReads(j) \/ RetryWrites(j)
  BY <1>4, OthersOrder DEF vars, ViewerBlocks, BotStops, BotStarts, get_stale_running_jobs,
     recover_stale_running_jobs, HeartbeatAges, DelayElapses, RetryReads, RetryWrites, rows,
     work
<1>. QED  BY <1>1, <1>2, <1>3, <1>4 DEF Next

\* "Resumable, ordered delivery", for a collection of any length: an item arrives
\* for the first time only after all before it, whatever fails, dies or is taken
\* over on the way.
THEOREM AlwaysInOrder == Spec => []ArriveInOrder
<1>1. OrderInv => ArriveInOrder
  BY DEF OrderInv
<1>. QED  BY <1>1, InitType, StepType, InitOrder, StepOrder, PTL DEF Spec

----------------------------------------------------------------------------
(* The deliveries of a single video.                                        *)

IsOpen(t) == tap[t].at = "answered" /\ tap[t].result = "SENT"

\* Requests whose video has arrived and whose commit is still to come: one at most.
Open == IF \E t \in Taps : IsOpen(t) THEN 1 ELSE 0

LEMMA OpenCount ==
  ASSUME OneHolder
  PROVE  Cardinality({t \in Taps : tap[t].at = "answered" /\ tap[t].result = "SENT"}) = Open
<1>. DEFINE S == {t \in Taps : IsOpen(t)}
<1>1. CASE \E t \in Taps : IsOpen(t)
  <2>1. PICK t \in Taps : IsOpen(t)
    BY <1>1
  <2>2. S = {t}
    BY <2>1 DEF OneHolder, HoldsViewer, IsOpen
  <2>3. Cardinality(S) = 1
    BY <2>2, FS_Singleton
  <2>. QED  BY <1>1, <2>3 DEF Open, IsOpen
<1>2. CASE ~ \E t \in Taps : IsOpen(t)
  <2>1. S = {}
    BY <1>2
  <2>2. Cardinality(S) = 0
    BY <2>1, FS_EmptySet
  <2>. QED  BY <1>2, <2>2 DEF Open, IsOpen
<1>. QED  BY <1>1, <1>2

\* What a commit is still to record counts with what is recorded; what a request
\* that raised has sent, and what arrived without an answer, never is.
AccountInv ==
  /\ deliveries["SENT"] + Open <= received
  /\ received <= deliveries["SENT"] + Open + faults["raise"] + faults["lost"]

LEMMA AccountType ==
  ASSUME TypeOK
  PROVE  /\ deliveries["SENT"] \in Nat /\ received \in Nat /\ Open \in {0, 1}
         /\ faults["raise"] \in Nat /\ faults["lost"] \in Nat
BY DEF TypeOK, Open, Statuses, Faults

LEMMA InitAccount == Init => AccountInv
<1>. SUFFICES ASSUME Init PROVE AccountInv
  OBVIOUS
<1>1. Open = 0
  BY DEF Init, Open, IsOpen, NoTap
<1>. QED  BY <1>1 DEF Init, AccountInv, Statuses, Faults

FaultsGrow == \A k \in Faults : faults'[k] >= faults[k]

LEMMA SpendGrows ==
  ASSUME TypeOK, (\E k \in Faults : Spend(k)) \/ UNCHANGED faults
  PROVE  FaultsGrow
<1>1. \A k \in Faults : faults[k] \in Nat
  BY DEF TypeOK
<1>2. ASSUME NEW k \in Faults, Spend(k), NEW f \in Faults
      PROVE  faults'[f] >= faults[f]
  BY <1>1, <1>2 DEF Spend, TypeOK
<1>. QED  BY <1>1, <1>2 DEF FaultsGrow

LEMMA SameAccount ==
  ASSUME TypeOK, AccountInv, UNCHANGED <<deliveries, received>>, Open' = Open, FaultsGrow,
         TypeOK'
  PROVE  AccountInv'
BY AccountType DEF AccountInv, FaultsGrow, TypeOK, Faults

\* A request's steps.
LEMMA TapAccount ==
  ASSUME TypeOK, TypeOK', OneHolder, AccountInv, NEW t \in Taps,
         \/ TapReads(t) \/ TapLocks(t) \/ TapCommits(t) \/ TapRaises(t)
         \/ create_delivery(t) \/ send_video(t) \/ deliver_unlocked_video(t)
  PROVE  AccountInv'
<1>1. \A u \in Taps \ {t} : IsOpen(u)' <=> IsOpen(u)
  BY DEF TapReads, TapLocks, TapCommits, TapRaises, create_delivery, send_video,
         deliver_unlocked_video, TypeOK, IsOpen
<1>2. CASE \/ TapReads(t) \/ TapLocks(t) \/ TapCommits(t) \/ create_delivery(t)
           \/ (TapRaises(t) /\ ~IsOpen(t))
  <2>1. ~IsOpen(t) /\ UNCHANGED <<deliveries, received>>
    BY <1>2 DEF TapReads, TapLocks, TapCommits, TapRaises, create_delivery,
                get_or_create_viewer, IsOpen, single
  <2>2. tap'[t].at # "answered"
    <3>1. CASE TapLocks(t)
      <4>1. PICK j \in JobIds \cup {None} :
              tap' = [tap EXCEPT
                ![t].at = "locked", ![t].job = j,
                ![t].status = IF j = None THEN "ABSENT" ELSE job[j].status,
                ![t].complete = AllSent]
        BY <3>1, Zenon DEF TapLocks
      <4>. DEFINE x == IF j = None THEN "ABSENT" ELSE job[j].status
                  y == AllSent
      <4>2. tap' = [tap EXCEPT ![t].at = "locked", ![t].job = j, ![t].status = x,
                               ![t].complete = y]
        BY <4>1
      <4>. HIDE DEF x, y
      <4>. QED  BY <4>2 DEF TypeOK
    <3>2. CASE TapReads(t) \/ create_delivery(t)
      BY <3>2 DEF TapReads, create_delivery, TypeOK
    <3>3. CASE TapCommits(t) \/ TapRaises(t)
      BY <3>3 DEF TapCommits, TapRaises, NoTap, TypeOK
    <3>. QED  BY <1>2, <3>1, <3>2, <3>3
  <2>3. Open' = Open
    BY <1>1, <2>1, <2>2 DEF Open, IsOpen
  <2>4. FaultsGrow
    BY <1>2, SpendGrows DEF TapReads, TapLocks, TapCommits, TapRaises, create_delivery, Faults
  <2>. QED  BY <2>1, <2>3, <2>4, SameAccount
<1>3. CASE TapRaises(t) /\ IsOpen(t)
  <2>1. UNCHANGED <<deliveries, received>> /\ tap'[t] = NoTap /\ Spend("raise")
    BY <1>3 DEF TapRaises, IsOpen, single, TypeOK
  <2>2. \A u \in Taps \ {t} : ~IsOpen(u)
    BY <1>3 DEF OneHolder, HoldsViewer, IsOpen
  <2>3. Open = 1 /\ Open' = 0
    BY <1>1, <1>3, <2>1, <2>2 DEF Open, IsOpen, NoTap
  <2>4. faults'["raise"] = faults["raise"] + 1 /\ faults'["lost"] = faults["lost"]
    BY <2>1 DEF Spend, TypeOK, Faults
  <2>. QED  BY <2>1, <2>3, <2>4, AccountType DEF AccountInv
<1>4. CASE send_video(t)
  <2>1. /\ UNCHANGED deliveries /\ tap[t].at = "pending"
        /\ tap'[t].at = "answered"
        /\ \/ tap'[t].result = "SENT" /\ received' = received + 1 /\ UNCHANGED faults
           \/ tap'[t].result # "SENT" /\ received' = received + 1 /\ Spend("lost")
           \/ tap'[t].result # "SENT" /\ received' = received /\ Spend("error")
           \/ tap'[t].result # "SENT" /\ received' = received /\ UNCHANGED faults
    <3>1. PICK o \in Results :
            /\ tap' = [tap EXCEPT ![t] = [tap[t] EXCEPT !.at = "answered", !.result = o]]
            /\ \/ o = "SENT" /\ received' = received + 1 /\ UNCHANGED faults
               \/ o # "SENT" /\ received' = received + 1 /\ Spend("lost")
               \/ o # "SENT" /\ received' = received /\ Spend("error")
               \/ o # "SENT" /\ received' = received /\ UNCHANGED faults
      BY <1>4 DEF send_video
    <3>2. tap'[t].at = "answered" /\ tap'[t].result = o
      BY <3>1 DEF TypeOK
    <3>. QED  BY <1>4, <3>1, <3>2 DEF send_video
  <2>2. \A u \in Taps : ~IsOpen(u)
    BY <2>1 DEF OneHolder, HoldsViewer, IsOpen
  <2>3. Open = 0 /\ Open' = IF tap'[t].result = "SENT" THEN 1 ELSE 0
    BY <1>1, <2>1, <2>2 DEF Open, IsOpen
  <2>4. Spend("lost") => faults'["lost"] = faults["lost"] + 1 /\ faults'["raise"] = faults["raise"]
    BY DEF Spend, TypeOK, Faults
  <2>5. Spend("error") => faults'["lost"] = faults["lost"] /\ faults'["raise"] = faults["raise"]
    BY DEF Spend, TypeOK, Faults
  <2>. QED  BY <2>1, <2>3, <2>4, <2>5, AccountType DEF AccountInv
<1>5. CASE deliver_unlocked_video(t)
  <2>1. /\ UNCHANGED <<received, faults>> /\ tap[t].at = "answered" /\ tap'[t] = NoTap
        /\ deliveries' = [deliveries EXCEPT ![Marked(t)] = @ + 1]
    BY <1>5 DEF deliver_unlocked_video, TypeOK
  <2>2. \A u \in Taps \ {t} : ~IsOpen(u)
    BY <2>1 DEF OneHolder, HoldsViewer, IsOpen
  <2>3. Open = (IF tap[t].result = "SENT" THEN 1 ELSE 0) /\ Open' = 0
    BY <1>1, <2>1, <2>2 DEF Open, IsOpen, NoTap
  <2>4. deliveries'["SENT"] = IF tap[t].result = "SENT" THEN deliveries["SENT"] + 1
                                                       ELSE deliveries["SENT"]
    BY <2>1 DEF Marked, TypeOK, Statuses
  <2>. QED  BY <2>1, <2>3, <2>4, AccountType DEF AccountInv
<1>. QED  BY <1>2, <1>3, <1>4, <1>5

LEMMA StepAccount ==
  TypeOK /\ TypeOK' /\ OneHolder /\ AccountInv /\ [Next]_vars => AccountInv'
<1>. SUFFICES ASSUME TypeOK, TypeOK', OneHolder, AccountInv, [Next]_vars PROVE AccountInv'
  OBVIOUS
<1>1. ASSUME NEW t \in Taps,
             \/ TapReads(t) \/ TapLocks(t) \/ TapCommits(t) \/ TapRaises(t)
             \/ create_delivery(t) \/ send_video(t) \/ deliver_unlocked_video(t)
      PROVE  AccountInv'
  BY <1>1, TapAccount
<1>2. CASE UNCHANGED <<deliveries, received, tap>> /\ FaultsGrow
  <2>1. Open' = Open
    BY <1>2 DEF Open, IsOpen
  <2>. QED  BY <1>2, <2>1, SameAccount
<1>3. ASSUME NEW w \in Workers, Step(w) \/ Crash(w)
      PROVE  UNCHANGED <<deliveries, received, tap>> /\ FaultsGrow
  <2>1. UNCHANGED <<deliveries, received, tap>>
    BY <1>3 DEF Step, Crash, LoadRows, StopEarly, BeginItems, NextItem, InsertReceipt,
       InsertRaises, Send, CommitSent, CommitBlocked, CommitFailed, EndRun, single
  <2>2. (\E k \in Faults : Spend(k)) \/ UNCHANGED faults
    BY <1>3 DEF Step, Crash, LoadRows, StopEarly, BeginItems, NextItem, InsertReceipt,
       InsertRaises, Send, CommitSent, CommitBlocked, CommitFailed, EndRun, Faults
  <2>. QED  BY <2>1, <2>2, SpendGrows
<1>4. ASSUME NEW w \in Workers, NEW j \in JobIds, claim(w, j)
      PROVE  UNCHANGED <<deliveries, received, tap>> /\ FaultsGrow
  BY <1>4, SpendGrows DEF claim, single
<1>5. ASSUME NEW j \in JobIds,
             HeartbeatAges(j) \/ DelayElapses(j) \/ RetryReads(j) \/ RetryWrites(j)
      PROVE  UNCHANGED <<deliveries, received, tap>> /\ FaultsGrow
  BY <1>5, SpendGrows DEF HeartbeatAges, DelayElapses, RetryReads, RetryWrites, single, Faults
<1>6. ASSUME \/ UNCHANGED vars \/ ViewerBlocks \/ BotStops \/ BotStarts
             \/ get_stale_running_jobs \/ recover_stale_running_jobs
      PROVE  UNCHANGED <<deliveries, received, tap>> /\ FaultsGrow
  BY <1>6, SpendGrows DEF vars, ViewerBlocks, BotStops, BotStarts, get_stale_running_jobs,
     recover_stale_running_jobs, single, Faults
<1>. QED  BY <1>1, <1>2, <1>3, <1>4, <1>5, <1>6 DEF Next

\* For any number of taps: every single video received has a row of
\* video_deliveries that says so and no other row does, but for requests that
\* were rolled back after the send and answers that were lost.
THEOREM AlwaysAccounted == Spec => []DeliveriesAccounted
<1>1. OneJobInv => OneHolder
  BY DEF OneJobInv
<1>2. TypeOK /\ OneHolder /\ AccountInv => DeliveriesAccounted
  BY OpenCount, AccountType DEF AccountInv, DeliveriesAccounted
<1>. QED  BY <1>1, <1>2, InitType, StepType, InitOneJob, StepOneJob, InitAccount,
             StepAccount, PTL DEF Spec

----------------------------------------------------------------------------
(* An item arrives twice only for a run, or an answer, that was lost.       *)

OneRun == \A u, w \in Workers : pc[u] # "idle" /\ pc[w] # "idle" => u = w

\* The job a worker is on is its own as long as nobody makes it claimable, and the
\* receipt of the item it is at is as it found it, and not SENT.
RunInv(w) ==
  IF pc[w] = "idle" THEN result[w] = "NONE"
  ELSE
    /\ on[w] \in JobIds /\ job[on[w]].status = "RUNNING"
    /\ pc[w] # "answered" => result[w] = "NONE"
    /\ pc[w] \in {"inserting", "sending", "answered"} =>
         item[w] \in Items /\ prior[w] = receipt[item[w]] /\ receipt[item[w]] # "SENT"

\* The last arrival of the item is known to its receipt or to the worker that sent it.
Told(i) ==
  \/ receipt[i] = "SENT"
  \/ \E w \in Workers : item[w] = i /\ result[w] = "SENT"

\* Every arrival but that one is charged to a crash or a lost answer.
Charged(i) == got[i] <= faults["crash"] + faults["lost"] + (IF Told(i) THEN 1 ELSE 0)

Once ==
  /\ OneRun
  /\ \A w \in Workers : RunInv(w)
  /\ \A i \in Items : Charged(i)

OnceInv == handed = {} => Once

LEMMA InitOnce == Init => OnceInv
<1>. SUFFICES ASSUME Init PROVE Once
  BY DEF OnceInv
<1>1. OneRun /\ \A w \in Workers : RunInv(w)
  BY DEF Init, OneRun, RunInv
<1>3. \A i \in Items : Charged(i)
  BY DEF Init, Charged, Faults
<1>. QED  BY <1>1, <1>3 DEF Once

LEMMA NextGrows ==
  ASSUME TypeOK, [Next]_vars
  PROVE  FaultsGrow
<1>1. (\E k \in Faults : Spend(k)) \/ UNCHANGED faults
  <2>. USE DEF Faults
  <2>1. CASE UNCHANGED vars
    BY <2>1 DEF vars
  <2>2. ASSUME NEW w \in Workers, Step(w) \/ Crash(w)
        PROVE  (\E k \in Faults : Spend(k)) \/ UNCHANGED faults
    BY <2>2 DEF Step, Crash, LoadRows, StopEarly, BeginItems, NextItem, InsertReceipt,
       InsertRaises, Send, CommitSent, CommitBlocked, CommitFailed, EndRun
  <2>3. ASSUME NEW t \in Taps,
               \/ TapReads(t) \/ TapLocks(t) \/ TapCommits(t) \/ TapRaises(t)
               \/ create_delivery(t) \/ send_video(t) \/ deliver_unlocked_video(t)
        PROVE  (\E k \in Faults : Spend(k)) \/ UNCHANGED faults
    BY <2>3 DEF TapReads, TapLocks, TapCommits, TapRaises, create_delivery, send_video,
       deliver_unlocked_video
  <2>. QED  BY <2>1, <2>2, <2>3
            DEF Next, ViewerBlocks, BotStops, BotStarts, claim, HeartbeatAges, DelayElapses,
                RetryReads, RetryWrites, get_stale_running_jobs, recover_stale_running_jobs
<1>. QED  BY <1>1, SpendGrows

\* A step of one worker leaves the others.
Idles(u) ==
  /\ pc'[u] = pc[u] /\ on'[u] = on[u] /\ item'[u] = item[u] /\ prior'[u] = prior[u]
  /\ result'[u] = result[u]

LEMMA StepIdles ==
  ASSUME TypeOK, NEW w \in Workers, Step(w) \/ Crash(w)
  PROVE  \A u \in Workers \ {w} : Idles(u)
BY DEF TypeOK, Idles, Step, Crash, LoadRows, StopEarly, BeginItems, NextItem, InsertReceipt,
   InsertRaises, Send, CommitSent, CommitBlocked, CommitFailed, EndRun, Release

\* While one worker runs, the others are idle and know nothing, and stay so.
LEMMA Alone ==
  ASSUME Once, NEW w \in Workers, pc[w] # "idle", NEW i \in Items
  PROVE  Told(i) <=> receipt[i] = "SENT" \/ (item[w] = i /\ result[w] = "SENT")
BY DEF Once, OneRun, RunInv, Told

LEMMA AloneStays ==
  ASSUME Once, NEW w \in Workers, pc[w] # "idle", \A u \in Workers \ {w} : Idles(u),
         RunInv(w)'
  PROVE  /\ OneRun' /\ \A u \in Workers : RunInv(u)'
         /\ \A i \in Items :
              Told(i)' <=> receipt'[i] = "SENT" \/ (item'[w] = i /\ result'[w] = "SENT")
<1>1. \A u \in Workers \ {w} : pc'[u] = "idle" /\ result'[u] = "NONE"
  BY DEF Once, OneRun, RunInv, Idles
<1>2. OneRun'
  BY <1>1 DEF OneRun
<1>3. \A u \in Workers \ {w} : RunInv(u)'
  BY <1>1 DEF RunInv
<1>. QED  BY <1>1, <1>2, <1>3 DEF Told

LEMMA QuietRun ==
  ASSUME TypeOK, Once, NEW w \in Workers,
         LoadRows(w) \/ BeginItems(w) \/ NextItem(w) \/ InsertReceipt(w)
  PROVE  RunInv(w)' /\ \A i \in Items : Charged(i)'
<1>0. /\ RunInv(w) /\ pc[w] \notin {"idle", "answered"}
      /\ UNCHANGED <<receipt, job, on, result, got, faults>>
  BY DEF Once, LoadRows, BeginItems, NextItem, InsertReceipt, rows
<1>1. RunInv(w)'
  <2>. USE DEF TypeOK
  <2>1. CASE LoadRows(w) \/ BeginItems(w)
    <3>1. pc'[w] \in {"loaded", "items"}
      BY <2>1 DEF LoadRows, BeginItems
    <3>. QED  BY <1>0, <3>1 DEF RunInv
  <2>2. CASE NextItem(w)
    <3>1. PICK i \in Items :
            /\ item'[w] = i
            /\ \/ pc'[w] = "items"
               \/ /\ pc'[w] \in {"inserting", "sending"} /\ prior'[w] = receipt[i]
                  /\ receipt[i] # "SENT"
      <4>1. item[w] + 1 \in Items
        BY <2>2, NType DEF NextItem, Items
      <4>. QED  BY <2>2, <4>1 DEF NextItem, HasItem
    <3>. QED  BY <1>0, <3>1 DEF RunInv
  <2>3. CASE InsertReceipt(w)
    BY <1>0, <2>3 DEF InsertReceipt, RunInv
  <2>. QED  BY <2>1, <2>2, <2>3
<1>2. ASSUME NEW i \in Items PROVE Charged(i)'
  <2>1. Told(i) <=> receipt[i] = "SENT"
    BY <1>0, Alone DEF RunInv
  <2>2. Told(i)' <=> receipt[i] = "SENT"
    <3>1. \A u \in Workers \ {w} : Idles(u)
      BY StepIdles DEF Step
    <3>. QED  BY <1>0, <1>1, <3>1, AloneStays DEF RunInv
  <2>. QED  BY <1>0, <2>1, <2>2 DEF Once, Charged
<1>. QED  BY <1>1, <1>2

\* The viewer gets an item whose receipt is not SENT, and the worker knows; or it
\* does not know, and the answer was lost.
LEMMA SendOnce ==
  ASSUME TypeOK, Once, NEW w \in Workers, Send(w)
  PROVE  RunInv(w)' /\ \A i \in Items : Charged(i)'
<1>0. /\ RunInv(w) /\ pc[w] = "sending" /\ pc'[w] = "answered" /\ item[w] \in Items
      /\ receipt[item[w]] # "SENT" /\ result[w] = "NONE"
      /\ UNCHANGED <<receipt, job, on, item, prior>>
  BY DEF TypeOK, Once, RunInv, Send, rows
<1>1. RunInv(w)'
  BY <1>0 DEF RunInv
<1>2. \A u \in Workers \ {w} : Idles(u)
  BY StepIdles DEF Step
<1>. DEFINE k == item[w]
            arrives == [got EXCEPT ![k] = @ + 1]
<1>3. \/ got' = arrives /\ result'[w] = "SENT" /\ UNCHANGED faults
      \/ got' = arrives /\ result'[w] # "SENT" /\ Spend("lost")
      \/ got' = got /\ result'[w] # "SENT" /\ (UNCHANGED faults \/ Spend("error"))
  BY DEF Send, TypeOK
<1>4. \A i \in Items : got[i] \in Nat /\ arrives[i] = IF i = k THEN got[i] + 1 ELSE got[i]
  BY DEF TypeOK
<1>5. /\ faults["crash"] \in Nat /\ faults["lost"] \in Nat
      /\ Spend("lost") => faults'["crash"] = faults["crash"] /\ faults'["lost"] = faults["lost"] + 1
      /\ Spend("error") => faults'["crash"] = faults["crash"] /\ faults'["lost"] = faults["lost"]
  BY DEF TypeOK, Spend, Faults
<1>6. ASSUME NEW i \in Items PROVE Charged(i)'
  <2>1. Told(i) <=> receipt[i] = "SENT"
    BY <1>0, Alone
  <2>2. Told(i)' <=> receipt[i] = "SENT" \/ (i = k /\ result'[w] = "SENT")
    BY <1>0, <1>1, <1>2, AloneStays
  <2>3. Charged(i)
    BY DEF Once
  <2>4. CASE i = k
    <3>1. ~Told(i) /\ (Told(i)' <=> result'[w] = "SENT")
      BY <1>0, <2>1, <2>2, <2>4
    <3>. HIDE DEF arrives
    <3>. QED  BY <1>3, <1>4, <1>5, <2>3, <2>4, <3>1 DEF Charged
  <2>5. CASE i # k
    <3>1. got'[i] = got[i] /\ (Told(i)' <=> Told(i))
      BY <1>3, <1>4, <2>1, <2>2, <2>5
    <3>2. /\ faults'["crash"] = faults["crash"]
          /\ faults'["lost"] \in {faults["lost"], faults["lost"] + 1}
      BY <1>3, <1>5
    <3>3. got[i] \in Nat
      BY DEF TypeOK
    <3>. QED  BY <1>5, <2>3, <3>1, <3>2, <3>3 DEF Charged
  <2>. QED  BY <2>4, <2>5
<1>. QED  BY <1>1, <1>6

\* A commit stores the outcome of the item: who was told of it has a SENT receipt.
LEMMA CommitOnce ==
  ASSUME TypeOK, Once, NEW w \in Workers, CommitSent(w) \/ CommitBlocked(w) \/ CommitFailed(w)
  PROVE  RunInv(w)' /\ \A i \in Items : Charged(i)'
<1>0. /\ RunInv(w) /\ pc[w] = "answered" /\ item[w] \in Items
      /\ receipt[item[w]] # "SENT" /\ prior[w] = receipt[item[w]]
      /\ receipt' = Stored(w) /\ result'[w] = "NONE"
      /\ UNCHANGED <<got, faults>>
  BY DEF TypeOK, Once, RunInv, CommitSent, CommitBlocked, CommitFailed, Release
<1>1. RunInv(w)'
  <2>1. CASE CommitSent(w)
    <3>1. pc'[w] = "items" /\ on' = on /\ job'[on[w]] = update_heartbeat(job[on[w]])
      BY <1>0, <2>1 DEF CommitSent, RunInv, TypeOK
    <3>2. job[on[w]] \in Job /\ job[on[w]].status = "RUNNING"
      BY <1>0 DEF RunInv, TypeOK
    <3>3. job'[on[w]].status = "RUNNING"
      BY <3>1, <3>2 DEF update_heartbeat, Job
    <3>. QED  BY <1>0, <3>1, <3>3 DEF RunInv
  <2>2. CASE CommitBlocked(w) \/ CommitFailed(w)
    BY <1>0, <2>2 DEF CommitBlocked, CommitFailed, Release, RunInv, TypeOK
  <2>. QED  BY <2>1, <2>2
<1>2. \A u \in Workers \ {w} : Idles(u)
  BY StepIdles DEF Step
<1>3. ASSUME NEW i \in Items PROVE Charged(i)'
  <2>1. Told(i) <=> receipt[i] = "SENT" \/ (item[w] = i /\ result[w] = "SENT")
    BY <1>0, Alone
  <2>2. Told(i)' <=> receipt'[i] = "SENT"
    BY <1>0, <1>1, <1>2, AloneStays
  <2>3. receipt'[i] = IF i = item[w] /\ result[w] # prior[w] THEN result[w] ELSE receipt[i]
    BY <1>0 DEF Stored, TypeOK
  <2>. QED  BY <1>0, <2>1, <2>2, <2>3 DEF Once, Charged
<1>. QED  BY <1>1, <1>3

\* A run that ends before or after its items has nothing to store; a crash pays for
\* what it loses.
LEMMA ReleaseOnce ==
  ASSUME TypeOK, Once, NEW w \in Workers,
         StopEarly(w) \/ InsertRaises(w) \/ EndRun(w) \/ Crash(w)
  PROVE  RunInv(w)' /\ \A i \in Items : Charged(i)'
<1>0. /\ RunInv(w) /\ pc[w] # "idle" /\ pc'[w] = "idle" /\ result'[w] = "NONE"
      /\ UNCHANGED <<receipt, got>>
  BY DEF TypeOK, Once, StopEarly, InsertRaises, EndRun, Crash, Release, rows
<1>1. RunInv(w)'
  BY <1>0 DEF RunInv
<1>2. \A u \in Workers \ {w} : Idles(u)
  BY StepIdles DEF Step
<1>3. ASSUME NEW i \in Items PROVE Charged(i)'
  <2>1. Told(i) <=> receipt[i] = "SENT" \/ (item[w] = i /\ result[w] = "SENT")
    BY <1>0, Alone
  <2>2. Told(i)' <=> receipt[i] = "SENT"
    BY <1>0, <1>1, <1>2, AloneStays
  <2>3. Charged(i)
    BY DEF Once
  <2>4. CASE Crash(w)
    <3>1. /\ faults'["crash"] = faults["crash"] + 1 /\ faults'["lost"] = faults["lost"]
          /\ faults["crash"] \in Nat /\ faults["lost"] \in Nat /\ got[i] \in Nat
      BY <2>4 DEF Crash, Spend, TypeOK, Faults
    <3>. QED  BY <1>0, <2>1, <2>2, <2>3, <3>1 DEF Charged
  <2>5. CASE StopEarly(w) \/ InsertRaises(w) \/ EndRun(w)
    <3>1. result[w] = "NONE" /\ UNCHANGED faults
      BY <1>0, <2>5 DEF StopEarly, InsertRaises, EndRun, RunInv
    <3>. QED  BY <1>0, <2>1, <2>2, <2>3, <3>1 DEF Charged
  <2>. QED  BY <2>4, <2>5
<1>. QED  BY <1>1, <1>3

\* A worker writes the status of the job it holds, which is RUNNING.
LEMMA WorkerOnce ==
  ASSUME TypeOK, Once, NEW w \in Workers, Step(w) \/ Crash(w)
  PROVE  Once'
<1>0. RunInv(w) /\ pc[w] # "idle"
  BY DEF Once, Step, Crash, LoadRows, StopEarly, BeginItems, NextItem, InsertReceipt,
         InsertRaises, Send, CommitSent, CommitBlocked, CommitFailed, EndRun
<1>1. RunInv(w)' /\ \A i \in Items : Charged(i)'
  BY QuietRun, SendOnce, CommitOnce, ReleaseOnce DEF Step
<1>2. OneRun' /\ \A u \in Workers : RunInv(u)'
  BY <1>0, <1>1, StepIdles, AloneStays
<1>. QED  BY <1>1, <1>2 DEF Once

\* What leaves the runs, the items and their receipts.
LEMMA AroundOnce ==
  ASSUME TypeOK, TypeOK', Once, UNCHANGED <<receipt, got, work>>, FaultsGrow,
         \A w \in Workers : pc[w] # "idle" => job'[on[w]].status = job[on[w]].status
  PROVE  Once'
<1>1. OneRun'
  BY DEF Once, OneRun, work
<1>2. \A u \in Workers : RunInv(u)'
  BY DEF Once, RunInv, work
<1>3. \A i \in Items : Told(i)' <=> Told(i)
  BY DEF Told, work
<1>4. \A i \in Items : Charged(i)'
  <2>1. /\ faults["crash"] \in Nat /\ faults["lost"] \in Nat
        /\ faults'["crash"] \in Nat /\ faults'["lost"] \in Nat
        /\ faults'["crash"] >= faults["crash"] /\ faults'["lost"] >= faults["lost"]
    BY DEF TypeOK, FaultsGrow, Faults
  <2>2. \A i \in Items : got[i] \in Nat /\ got'[i] = got[i]
    BY DEF TypeOK
  <2>. QED  BY <1>3, <2>1, <2>2 DEF Once, Charged
<1>. QED  BY <1>1, <1>2, <1>4 DEF Once

\* A request creates the job when there is none, and arms one that is over: the job
\* of a worker only if a retry has made it claimable since the request read it.
LEMMA TapOnce ==
  ASSUME TypeOK, TypeOK', OneJobInv, Once, FaultsGrow, handed' = {}, NEW t \in Taps,
         \/ TapReads(t) \/ TapLocks(t) \/ TapCommits(t) \/ TapRaises(t)
         \/ create_delivery(t) \/ send_video(t) \/ deliver_unlocked_video(t)
  PROVE  Once'
<1>1. UNCHANGED <<receipt, got, work>>
  BY DEF TapReads, TapLocks, TapCommits, TapRaises, create_delivery, send_video,
         deliver_unlocked_video, rows
<1>2. CASE job' = job
  BY <1>1, <1>2, AroundOnce
<1>3. CASE TapCommits(t) /\ tap[t].job = None
  <2>1. \A j \in JobIds : ~Exists(j)
    BY <1>3 DEF TapCommits, OneJobInv, TapKnows
  <2>2. \A w \in Workers : pc[w] = "idle"
    BY <2>1 DEF Once, RunInv, Exists
  <2>. QED  BY <1>1, <2>2, AroundOnce
<1>4. CASE TapCommits(t) /\ tap[t].job # None /\ Rearms(t)
  <2>1. job' = RearmedJob(tap[t].job) /\ tap[t].job \in JobIds
    BY <1>4 DEF TapCommits, TypeOK
  <2>2. ~Held(tap[t].job)
    BY <1>4 DEF TapCommits
  <2>3. \A j \in JobIds : j # tap[t].job => job'[j] = job[j]
    BY <2>1 DEF RearmedJob, TypeOK
  <2>4. \A w \in Workers : pc[w] # "idle" => job'[on[w]] = job[on[w]]
    BY <2>2, <2>3 DEF Once, RunInv, Held
  <2>. QED  BY <1>1, <2>4, AroundOnce
<1>. QED  BY <1>2, <1>3, <1>4
          DEF TapReads, TapLocks, TapCommits, TapRaises, create_delivery, send_video,
              deliver_unlocked_video, rows

\* There is one job, and who works on it keeps it RUNNING: a claim finds all idle.
LEMMA ClaimOnce ==
  ASSUME TypeOK, OneJobInv, Once, NEW w \in Workers, NEW j \in JobIds, claim(w, j)
  PROVE  Once'
<1>1. job[j].status \in {"PENDING", "RETRYING"} /\ job[j] \in Job
  BY DEF claim, IsClaimable, TypeOK
<1>2. \A u \in Workers : pc[u] = "idle" /\ result[u] = "NONE"
  <2>1. \A u \in Workers : pc[u] # "idle" => on[u] = j
    BY <1>1 DEF Once, RunInv, OneJobInv, OneJobPerUnlock, Exists
  <2>. QED  BY <1>1, <2>1 DEF Once, RunInv
<1>3. /\ UNCHANGED <<receipt, got, item, prior, result, faults>>
      /\ \A u \in Workers : pc'[u] = IF u = w THEN "claimed" ELSE "idle"
      /\ on'[w] = j /\ \A k \in JobIds \ {j} : job'[k] = job[k]
  BY <1>2 DEF claim, TypeOK
<1>4. job'[j].status = "RUNNING"
  <2>1. PICK n : job' = [job EXCEPT ![j] = [mark_running(job[j]) EXCEPT !.attempts = n]]
    BY DEF claim
  <2>2. \A r \in Job : [r EXCEPT !.attempts = n].status = r.status
    BY DEF Job
  <2>3. mark_running(job[j]) \in Job
    BY <1>1, JobChanges
  <2>4. mark_running(job[j]).status = "RUNNING"
    BY <1>1 DEF mark_running, Job
  <2>. QED  BY <2>1, <2>2, <2>3, <2>4 DEF TypeOK
<1>5. \A u \in Workers : RunInv(u)'
  BY <1>2, <1>3, <1>4 DEF RunInv
<1>6. OneRun'
  BY <1>3 DEF OneRun
<1>7. \A i \in Items : Charged(i)'
  BY <1>3 DEF Once, Charged, Told
<1>. QED  BY <1>5, <1>6, <1>7 DEF Once

\* What is handed over once stays so.
LEMMA HandedGrows ==
  ASSUME [Next]_vars
  PROVE  handed \subseteq handed'
<1>1. CASE UNCHANGED vars \/ ViewerBlocks \/ BotStops \/ BotStarts
  BY <1>1 DEF vars, history, ViewerBlocks, BotStops, BotStarts
<1>2. ASSUME NEW t \in Taps,
             \/ TapReads(t) \/ TapLocks(t) \/ TapCommits(t) \/ TapRaises(t)
             \/ create_delivery(t) \/ send_video(t) \/ deliver_unlocked_video(t)
      PROVE  handed \subseteq handed'
  BY <1>2 DEF TapReads, TapLocks, TapCommits, TapRaises, create_delivery, send_video,
     deliver_unlocked_video, history
<1>3. ASSUME NEW w \in Workers, Step(w) \/ Crash(w) PROVE handed \subseteq handed'
  BY <1>3 DEF Step, Crash, LoadRows, StopEarly, BeginItems, NextItem, InsertReceipt,
     InsertRaises, Send, CommitSent, CommitBlocked, CommitFailed, EndRun, history
<1>. QED  BY <1>1, <1>2, <1>3
          DEF Next, claim, HeartbeatAges, DelayElapses, RetryReads, RetryWrites,
              get_stale_running_jobs, recover_stale_running_jobs, history

LEMMA StepOnce == TypeOK /\ TypeOK' /\ OneJobInv /\ OnceInv /\ [Next]_vars => OnceInv'
<1>. SUFFICES ASSUME TypeOK, TypeOK', OneJobInv, OnceInv, [Next]_vars, handed' = {}
              PROVE  Once'
  BY DEF OnceInv
<1>0. FaultsGrow
  BY NextGrows
<1>1. Once
  BY HandedGrows DEF OnceInv
<1>2. \A w \in Workers : pc[w] # "idle" =>
        on[w] \in JobIds /\ job[on[w]].status = "RUNNING" /\ Held(on[w])
  BY <1>1 DEF Once, RunInv, Held
<1>3. CASE UNCHANGED <<receipt, got, work, job>>
  BY <1>0, <1>1, <1>3, AroundOnce
<1>4. ASSUME NEW t \in Taps,
             \/ TapReads(t) \/ TapLocks(t) \/ TapCommits(t) \/ TapRaises(t)
             \/ create_delivery(t) \/ send_video(t) \/ deliver_unlocked_video(t)
      PROVE  Once'
  BY <1>0, <1>1, <1>4, TapOnce
<1>5. ASSUME NEW w \in Workers, NEW j \in JobIds, claim(w, j) PROVE Once'
  BY <1>1, <1>5, ClaimOnce
<1>6. ASSUME NEW w \in Workers, Step(w) \/ Crash(w) PROVE Once'
  BY <1>1, <1>6, WorkerOnce
<1>7. ASSUME NEW j \in JobIds, HeartbeatAges(j) \/ DelayElapses(j) PROVE Once'
  <2>1. /\ UNCHANGED <<receipt, got, work>>
        /\ \A k \in JobIds : job'[k].status = job[k].status
    BY <1>7, TimePasses
  <2>. QED  BY <1>0, <1>1, <1>2, <2>1, AroundOnce
<1>8. CASE recover_stale_running_jobs
  <2>1. /\ UNCHANGED <<receipt, got, work>>
        /\ \A j \in JobIds : Held(j) => job'[j] = job[j]
    BY <1>8 DEF recover_stale_running_jobs, TypeOK
  <2>. QED  BY <1>0, <1>1, <1>2, <2>1, AroundOnce
<1>9. ASSUME NEW j \in JobIds, RetryWrites(j) PROVE Once'
  <2>1. /\ UNCHANGED <<receipt, got, work>> /\ ~Held(j)
        /\ \A k \in JobIds \ {j} : job'[k] = job[k]
    BY <1>9 DEF RetryWrites, TypeOK
  <2>. QED  BY <1>0, <1>1, <1>2, <2>1, AroundOnce
<1>10. CASE \/ UNCHANGED vars \/ ViewerBlocks \/ BotStops \/ BotStarts
            \/ get_stale_running_jobs \/ \E j \in JobIds : RetryReads(j)
  BY <1>3, <1>10 DEF vars, ViewerBlocks, BotStops, BotStarts, get_stale_running_jobs,
     RetryReads, rows
<1>. QED  BY <1>4, <1>5, <1>6, <1>7, <1>8, <1>9, <1>10 DEF Next

\* While no job is made claimable under a worker an item arrives once, and once more
\* for each run that is lost with what it had sent, and each answer that is lost:
\* whatever taps and retries arm the job again meanwhile, and however often the
\* viewer blocks the bot.
THEOREM ResentForFaults == Spec => []ResentOnlyAfterFault
<1>1. TypeOK /\ OnceInv => ResentOnlyAfterFault
  <2>. SUFFICES ASSUME TypeOK, OnceInv, handed = {}, NEW i \in Items
                PROVE  got[i] <= 1 + faults["crash"] + faults["lost"]
    BY DEF ResentOnlyAfterFault
  <2>1. got[i] \in Nat /\ faults["crash"] \in Nat /\ faults["lost"] \in Nat
    BY DEF TypeOK, Faults
  <2>2. Charged(i)
    BY DEF OnceInv, Once
  <2>. QED  BY <2>1, <2>2 DEF Charged
<1>. QED  BY <1>1, InitType, StepType, InitOneJob, StepOneJob, InitOnce, StepOnce, PTL
          DEF Spec
=============================================================================
