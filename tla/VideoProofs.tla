---------------------------- MODULE VideoProofs ----------------------------
(***************************************************************************)
(* A video's way in, and what becomes of it.                               *)
(*                                                                         *)
(* For any videos, commands and handlers and any faults: an admin has one  *)
(* draft at most, because whoever begins one has locked the bot's row      *)
(* before it looks for the draft there is; and a video whose update is     *)
(* over was stored or collected in a mode that was open, or refused.  The  *)
(* invariant says what each handler has in hand, what a deduplication key  *)
(* that is left stands for, and which modes have been open (Upload).       *)
(*                                                                         *)
(* For any videos, any number of workers and of maintenance cycles, and    *)
(* any faults: a video never gets a second unlock link nor a published one *)
(* a second broadcast, although the worker decides by what it loaded       *)
(* before it took the lock, and the cycle reads without locks              *)
(* (VideoPipeline).                                                        *)
(***************************************************************************)
EXTENDS VideoPipeline, Upload, SequenceTheorems, FiniteSetTheorems, WellFoundedInduction,
        TLAPS

----------------------------------------------------------------------------
(* Processing: broadcasts and jobs.                                         *)

LEMMA Broadcasts ==
  ASSUME NEW s \in Seq(Broadcast)
  PROVE  /\ Len(s) \in Nat
         /\ s = <<>> <=> Len(s) = 0
         /\ Append(s, NewBroadcast) \in Seq(Broadcast)
         /\ Len(Append(s, NewBroadcast)) = Len(s) + 1
<1>1. NewBroadcast \in Broadcast
  BY DEF NewBroadcast, Broadcast
<1>. QED  BY <1>1, LenProperties, EmptySeq, AppendProperties

\* Giving the first broadcast a job again adds none.
LEMMA LiveAgain ==
  ASSUME NEW s \in Seq(Broadcast)
  PROVE  /\ [s EXCEPT ![1].live = TRUE] \in Seq(Broadcast)
         /\ Len([s EXCEPT ![1].live = TRUE]) = Len(s)
<1>1. CASE s = <<>>
  <2>1. [s EXCEPT ![1].live = TRUE] = s
    BY <1>1
  <2>. QED  BY <2>1
<1>2. CASE s # <<>>
  <2>1. 1 \in 1 .. Len(s)
    BY <1>2, LenProperties, EmptySeq
  <2>2. s[1] \in Broadcast
    BY <2>1, ElementOfSeq
  <2>3. [s[1] EXCEPT !.live = TRUE] \in Broadcast
    BY <2>2 DEF Broadcast
  <2>4. [s EXCEPT ![1].live = TRUE] = [s EXCEPT ![1] = [s[1] EXCEPT !.live = TRUE]]
    OBVIOUS
  <2>. QED  BY <2>1, <2>3, <2>4, ExceptSeq
<1>. QED  BY <1>1, <1>2

LEMMA JobChanges ==
  ASSUME NEW r \in Job, NEW n \in Nat
  PROVE  /\ create_job \in Job /\ mark_completed(r) \in Job /\ mark_failed(r) \in Job
         /\ retry_job(r) \in Job /\ [r EXCEPT !.stale = TRUE] \in Job
         /\ mark_running([r EXCEPT !.attempts = n]) \in Job
         /\ recover_stale(r, n, MaxAttempts) \in Job
<1>1. /\ create_job \in Job /\ mark_completed(r) \in Job /\ mark_failed(r) \in Job
      /\ retry_job(r) \in Job /\ [r EXCEPT !.stale = TRUE] \in Job
  BY DEF create_job, mark_completed, mark_failed, retry_job, Job, JobStatuses
<1>2. mark_running([r EXCEPT !.attempts = n]) \in Job
  <2>1. n + 1 \in Nat
    OBVIOUS
  <2>. DEFINE again == [r EXCEPT !.attempts = n]
  <2>2. again \in Job /\ again.attempts = n
    BY DEF Job
  <2>. HIDE DEF again
  <2>. QED  BY <2>1, <2>2 DEF mark_running, Job, JobStatuses
<1>3. recover_stale(r, n, MaxAttempts) \in Job
  BY DEF recover_stale, Job, JobStatuses
<1>. QED  BY <1>1, <1>2, <1>3

\* The jobs as a cycle leaves them.
LEMMA CycleJobs ==
  ASSUME TypeOK, NEW c \in Cycles, NEW S \in SUBSET Videos
  PROVE  create_video_processing_jobs(S, Recovered(c)) \in [JobIds -> Job]
<1>1. Recovered(c) \in [JobIds -> Job]
  <2>1. \A j \in DOMAIN stale[c] : stale[c][j] \in Nat
    BY DEF TypeOK, IsReading
  <2>. QED  BY <2>1, JobChanges DEF Recovered, TypeOK
<1>2. create_job \in Job
  BY DEF create_job, Job, JobStatuses
<1>. QED  BY <1>1, <1>2 DEF create_video_processing_jobs

\* What the end of a processing does to the broadcasts: at most one is added, to
\* the video that was processed.
LEMMA LiveBroadcast ==
  ASSUME TypeOK, NEW w \in Workers, VideoOf(w) \in Videos, create_live_broadcast(w)
  PROVE  /\ bc' \in [Videos -> Seq(Broadcast)]
         /\ \A v \in Videos \ {VideoOf(w)} : bc'[v] = bc[v]
         /\ Len(bc'[VideoOf(w)]) =
              IF ~IsLink(VideoOf(w)) /\ found[w].bc = <<>> THEN Len(bc[VideoOf(w)]) + 1
                                                           ELSE Len(bc[VideoOf(w)])
<1>. DEFINE v == VideoOf(w)  seen == found[w].bc
<1>0. bc[v] \in Seq(Broadcast) /\ bc \in [Videos -> Seq(Broadcast)]
  BY DEF TypeOK
<1>1. CASE IsLink(v) \/ LookupRaises(seen)
  <2>1. bc' = bc
    BY <1>1 DEF create_live_broadcast
  <2>2. LookupRaises(seen) => seen # <<>>
    BY DEF LookupRaises
  <2>. QED  BY <1>0, <1>1, <2>1, <2>2
<1>2. CASE ~IsLink(v) /\ ~LookupRaises(seen) /\ seen = <<>>
  <2>1. bc' = [bc EXCEPT ![v] = Append(@, NewBroadcast)]
    BY <1>2 DEF create_live_broadcast
  <2>. QED  BY <1>0, <1>2, <2>1, Broadcasts
<1>3. CASE ~IsLink(v) /\ ~LookupRaises(seen) /\ seen # <<>> /\ seen[1].live
  <2>1. bc' = bc
    BY <1>3 DEF create_live_broadcast
  <2>. QED  BY <1>0, <1>3, <2>1
<1>4. CASE ~IsLink(v) /\ ~LookupRaises(seen) /\ seen # <<>> /\ ~seen[1].live
  <2>1. bc' = [bc EXCEPT ![v][1].live = TRUE]
    BY <1>4 DEF create_live_broadcast
  <2>2. bc' = [bc EXCEPT ![v] = [bc[v] EXCEPT ![1].live = TRUE]]
    BY <2>1
  <2>. QED  BY <1>0, <1>4, <2>2, LiveAgain
<1>. QED  BY <1>1, <1>2, <1>3, <1>4

----------------------------------------------------------------------------
(* Types.                                                                   *)

PCs == {"idle", "listed", "begun", "loaded", "locked", "linked", "found"}
CyclePCs == {"idle", "scanned", "reconciling"}

\* At a job, and at one whose rows are loaded.
AtJob == {"begun", "loaded", "locked", "linked", "found"}
AtRows == AtJob \ {"begun"}

\* The types, and that a worker knows what it works on.
Typed ==
  /\ TypeOK
  /\ \A w \in Workers : pc[w] \in AtJob => on[w] \in JobIds
  /\ \A w \in Workers : pc[w] \in AtRows => copy[w] \in Copy

LEMMA InitTyped == Init => Typed
<1>. SUFFICES ASSUME Init PROVE Typed
  OBVIOUS
<1>1. NoJob \in Job /\ NotLooked \in Found /\ NoPlan \in Plan /\ IsReading(NoReading)
  BY EmptySeq DEF NoJob, Job, JobStatuses, NotLooked, Found, NoPlan, Plan, IsReading, NoReading
<1>2. <<>> \in Seq(Broadcast)
  BY EmptySeq
<1>3. TypeOK
  BY <1>1, <1>2 DEF Init, TypeOK, VideoStatuses, ProcessingStatuses
<1>. QED  BY <1>3 DEF Init, Typed, AtJob, AtRows

LEMMA SpendType ==
  ASSUME TypeOK, NEW k \in Faults, Spend(k)
  PROVE  faults' \in [Faults -> Nat]
BY DEF TypeOK, Spend

LEMMA EndJobTyped ==
  ASSUME Typed, NEW w \in Workers, NEW ok \in BOOLEAN, on[w] \in JobIds, EndJob(w, ok),
         UNCHANGED <<list, upkeep>>,
         video' \in [Videos -> VideoStatuses], proc' \in [Videos -> ProcessingStatuses],
         links' \in [Videos -> Nat], bc' \in [Videos -> Seq(Broadcast)],
         faults' \in [Faults -> Nat]
  PROVE  Typed'
<1>. USE DEF Typed, TypeOK, EndJob, upkeep
<1>1. job' \in [JobIds -> Job]
  <2>1. job[on[w]] \in Job
    OBVIOUS
  <2>2. (IF ok THEN mark_completed(job[on[w]]) ELSE mark_failed(job[on[w]])) \in Job
    BY <2>1 DEF mark_completed, mark_failed, Job, JobStatuses
  <2>. QED  BY <2>2
<1>2. pc' \in [Workers -> PCs] /\ pc'[w] \in {"idle", "listed"}
  BY DEF PCs
<1>3. NotLooked \in Found
  BY EmptySeq DEF NotLooked, Found
<1>4. /\ on' \in [Workers -> JobIds \cup {None}] /\ copy' \in [Workers -> Copy \cup {None}]
      /\ found' \in [Workers -> Found]
  BY <1>3
<1>5. TypeOK'
  BY <1>1, <1>2, <1>4 DEF PCs
<1>6. ASSUME NEW u \in Workers
      PROVE  /\ pc'[u] \in AtJob => on'[u] \in JobIds
             /\ pc'[u] \in AtRows => copy'[u] \in Copy
  <2>1. CASE u = w
    BY <1>2, <2>1 DEF AtJob, AtRows
  <2>2. CASE u # w
    BY <2>2
  <2>. QED  BY <2>1, <2>2
<1>. QED  BY <1>5, <1>6

\* The video a worker is at.
LEMMA VideoType ==
  ASSUME NEW w \in Workers, on[w] \in JobIds
  PROVE  VideoOf(w) \in Videos
BY DEF VideoOf, JobIds

LEMMA FinishTyped ==
  ASSUME Typed, NEW w \in Workers, Finish(w)
  PROVE  Typed'
<1>. DEFINE v == VideoOf(w)
            ok == IsLink(v) \/ ~LookupRaises(found[w].bc)
<1>. USE DEF Typed, TypeOK
<1>1. on[w] \in JobIds /\ v \in Videos
  BY VideoType DEF Finish, At, AtJob
<1>2. bc' \in [Videos -> Seq(Broadcast)]
  BY <1>1, LiveBroadcast DEF Finish
<1>3. /\ video' \in [Videos -> VideoStatuses] /\ proc' \in [Videos -> ProcessingStatuses]
      /\ links' \in [Videos -> Nat]
  <2>1. CASE AlreadyReady(w)
    BY <2>1 DEF Finish
  <2>2. CASE ~AlreadyReady(w)
    <3>1. PICK s \in {"READY", "FAILED"} :
            /\ video' = [video EXCEPT ![v] = s] /\ proc' = [proc EXCEPT ![v] = s]
            /\ links' = links \/ links' = [links EXCEPT ![v] = @ + 1]
      BY <2>2 DEF Finish
    <3>2. s \in VideoStatuses /\ s \in ProcessingStatuses
      BY DEF VideoStatuses, ProcessingStatuses
    <3>3. video' \in [Videos -> VideoStatuses] /\ proc' \in [Videos -> ProcessingStatuses]
      BY <1>1, <3>1, <3>2
    <3>4. links[v] + 1 \in Nat
      BY <1>1
    <3>5. links' \in [Videos -> Nat]
      BY <3>1, <3>4
    <3>. QED  BY <3>3, <3>5
  <2>. QED  BY <2>1, <2>2
<1>4. EndJob(w, ok) /\ ok \in BOOLEAN /\ UNCHANGED <<list, upkeep, faults>>
  BY DEF Finish, LookupRaises, IsLink
<1>. QED  BY <1>1, <1>2, <1>3, <1>4, EndJobTyped

LEMMA FailTyped ==
  ASSUME Typed, NEW w \in Workers, FailEarly(w) \/ Fail(w)
  PROVE  Typed'
<1>. DEFINE v == VideoOf(w)
<1>. USE DEF Typed, TypeOK
<1>1. on[w] \in JobIds /\ v \in Videos
  BY VideoType DEF FailEarly, Fail, At, AtJob
<1>2. video' \in [Videos -> VideoStatuses] /\ proc' \in [Videos -> ProcessingStatuses]
  BY <1>1 DEF FailEarly, Fail, VideoStatuses, ProcessingStatuses
<1>3. faults' \in [Faults -> Nat]
  BY SpendType DEF FailEarly, Fail, Faults
<1>4. EndJob(w, FALSE) /\ UNCHANGED <<links, bc, list, upkeep>>
  BY DEF FailEarly, Fail
<1>. QED  BY <1>1, <1>2, <1>3, <1>4, EndJobTyped

LEMMA BeginTyped ==
  ASSUME Typed, NEW w \in Workers, NEW j \in JobIds, BeginJob(w, j)
  PROVE  Typed'
<1>. USE DEF Typed, TypeOK, BeginJob
<1>1. job' \in [JobIds -> Job]
  <2>1. list[w][j] \in Nat
    BY DEF IsReading
  <2>2. mark_running([job[j] EXCEPT !.attempts = list[w][j]]) \in Job
    BY <2>1, JobChanges
  <2>. QED  BY <2>2
<1>2. DOMAIN list' = Workers /\ \A u \in Workers : IsReading(list'[u])
  <2>1. IsReading([i \in DOMAIN list[w] \ {j} |-> list[w][i]])
    BY DEF IsReading
  <2>. QED  BY <2>1
<1>3. pc' \in [Workers -> PCs] /\ on' \in [Workers -> JobIds \cup {None}]
  BY DEF PCs
<1>4. TypeOK'
  BY <1>1, <1>2, <1>3 DEF rows, upkeep, PCs
<1>. QED  BY <1>4 DEF AtJob, AtRows

\* The worker's other steps.
LEMMA WorkerTyped ==
  ASSUME Typed, NEW w \in Workers,
         \/ get_pending_jobs(w) \/ LoadVideo(w) \/ LockProcessing(w) \/ FindLink(w)
         \/ FindBroadcast(w)
  PROVE  Typed'
<1>. USE DEF Typed, TypeOK, rows, upkeep, At
<1>1. CASE get_pending_jobs(w)
  <2>1. IsReading([j \in Pending |-> job[j].attempts])
    BY DEF IsReading, Pending, Job
  <2>2. DOMAIN list' = Workers /\ \A u \in Workers : IsReading(list'[u])
    BY <1>1, <2>1 DEF get_pending_jobs
  <2>. QED  BY <1>1, <2>2 DEF get_pending_jobs, AtJob, AtRows
<1>2. CASE LoadVideo(w)
  <2>1. VideoOf(w) \in Videos
    BY <1>2, VideoType DEF LoadVideo, AtJob
  <2>2. [video |-> video[VideoOf(w)], proc |-> proc[VideoOf(w)]] \in Copy
    BY <2>1 DEF Copy
  <2>. QED  BY <1>2, <2>2 DEF LoadVideo, AtJob, AtRows
<1>3. CASE LockProcessing(w)
  BY <1>3 DEF LockProcessing, AtJob, AtRows
<1>4. CASE FindLink(w)
  <2>. DEFINE b == links[VideoOf(w)] > 0
  <2>0. b \in BOOLEAN /\ found' = [found EXCEPT ![w] = [found[w] EXCEPT !.link = b]]
    BY <1>4 DEF FindLink
  <2>. HIDE DEF b
  <2>1. found' \in [Workers -> Found]
    BY <2>0 DEF Found
  <2>. QED  BY <1>4, <2>1 DEF FindLink, AtJob, AtRows
<1>5. CASE FindBroadcast(w)
  <2>1. VideoOf(w) \in Videos
    BY <1>5, VideoType DEF FindBroadcast, AtJob
  <2>2. found' \in [Workers -> Found]
    BY <1>5, <2>1 DEF FindBroadcast, Found
  <2>. QED  BY <1>5, <2>2 DEF FindBroadcast, AtJob, AtRows
<1>. QED  BY <1>1, <1>2, <1>3, <1>4, <1>5

LEMMA CrashTyped ==
  ASSUME Typed, NEW w \in Workers, Crash(w)
  PROVE  Typed'
<1>. USE DEF Typed, TypeOK, Crash
<1>1. NotLooked \in Found /\ IsReading(NoReading)
  BY EmptySeq DEF NotLooked, Found, IsReading, NoReading
<1>2. DOMAIN list' = Workers /\ \A u \in Workers : IsReading(list'[u])
  BY <1>1
<1>3. faults' \in [Faults -> Nat]
  BY SpendType DEF Faults
<1>4. TypeOK'
  BY <1>1, <1>2, <1>3 DEF rows, upkeep
<1>. QED  BY <1>4 DEF AtJob, AtRows

LEMMA QueueTyped ==
  ASSUME Typed, NEW v \in Videos, NEW next \in Broadcast, NEW i \in DOMAIN bc[v],
         QueueStep(v, i, next)
  PROVE  Typed'
<1>. USE DEF Typed, TypeOK, QueueStep
<1>1. i \in 1 .. Len(bc[v])
  BY LenProperties
<1>2. [bc[v] EXCEPT ![i] = next] \in Seq(Broadcast)
  BY <1>1, ExceptSeq
<1>3. bc' \in [Videos -> Seq(Broadcast)]
  BY <1>2
<1>. QED  BY <1>3 DEF work, upkeep, AtJob, AtRows

LEMMA CycleTyped ==
  ASSUME Typed, NEW c \in Cycles, CycleStep(c) \/ CycleDies(c)
  PROVE  Typed'
<1>. USE DEF Typed, TypeOK, rows, work
<1>0. IsReading(NoReading) /\ NoPlan \in Plan
  BY DEF IsReading, NoReading, NoPlan, Plan
<1>1. CASE ScanStale(c)
  <2>. DEFINE S == {j \in JobIds : IsStaleRunning(job[j])}
  <2>1. IsReading([j \in S |-> job[j].attempts])
    BY DEF IsReading, Job
  <2>2. DOMAIN stale' = Cycles /\ \A d \in Cycles : IsReading(stale'[d])
    BY <1>1, <2>1 DEF ScanStale
  <2>. QED  BY <1>1, <2>2 DEF ScanStale
<1>2. CASE Reconcile(c)
  <2>1. [jobs |-> Unprocessed(c), broadcasts |-> MissingBroadcast,
         again |-> WaitingWithoutJob] \in Plan
    BY DEF Plan, Unprocessed, MissingBroadcast, WaitingWithoutJob
  <2>2. plan' \in [Cycles -> Plan]
    BY <1>2, <2>1 DEF Reconcile
  <2>3. DOMAIN stale' = Cycles /\ \A d \in Cycles : IsReading(stale'[d])
    BY <1>0, <1>2 DEF Reconcile
  <2>. QED  BY <1>2, <2>2, <2>3 DEF Reconcile
<1>3. CASE CommitCycle(c)
  <2>1. job' \in [JobIds -> Job]
    BY <1>3, CycleJobs DEF CommitCycle, Plan
  <2>2. bc' \in [Videos -> Seq(Broadcast)]
    BY <1>3, Broadcasts, LiveAgain DEF CommitCycle
  <2>3. DOMAIN stale' = Cycles /\ \A d \in Cycles : IsReading(stale'[d])
    BY <1>0, <1>3 DEF CommitCycle
  <2>. QED  BY <1>0, <1>3, <2>1, <2>2, <2>3 DEF CommitCycle
<1>4. CASE CycleDies(c)
  <2>1. faults' \in [Faults -> Nat]
    BY <1>4, SpendType DEF CycleDies, Faults
  <2>2. DOMAIN stale' = Cycles /\ \A d \in Cycles : IsReading(stale'[d])
    BY <1>0, <1>4 DEF CycleDies
  <2>. QED  BY <1>0, <1>4, <2>1, <2>2 DEF CycleDies
<1>. QED  BY <1>1, <1>2, <1>3, <1>4 DEF CycleStep

LEMMA StepTyped == Typed /\ [Next]_vars => Typed'
<1>. SUFFICES ASSUME Typed, [Next]_vars PROVE Typed'
  OBVIOUS
<1>1. CASE UNCHANGED vars
  BY <1>1 DEF vars, Typed, TypeOK
<1>2. ASSUME NEW v \in Videos, CreateVideo(v) PROVE Typed'
  <2>1. create_job \in Job
    BY DEF create_job, Job, JobStatuses
  <2>2. job' \in [JobIds -> Job]
    BY <1>2, <2>1 DEF CreateVideo, create_video_processing_jobs, Typed, TypeOK
  <2>. QED  BY <1>2, <2>2 DEF CreateVideo, Typed, TypeOK, work, upkeep, VideoStatuses,
                             ProcessingStatuses
<1>3. ASSUME NEW w \in Workers, WorkerStep(w) \/ Crash(w) PROVE Typed'
  BY <1>3, BeginTyped, WorkerTyped, FinishTyped, FailTyped, CrashTyped DEF WorkerStep
<1>4. ASSUME NEW j \in JobIds, HeartbeatAges(j) \/ OwnerRetries(j) PROVE Typed'
  <2>1. faults' \in [Faults -> Nat]
    BY <1>4, SpendType DEF HeartbeatAges, OwnerRetries, Faults, Typed, TypeOK
  <2>2. job[j] \in Job
    BY DEF Typed, TypeOK
  <2>3. job' \in [JobIds -> Job]
    BY <1>4, <2>2, JobChanges DEF HeartbeatAges, OwnerRetries, Typed, TypeOK
  <2>. QED  BY <1>4, <2>1, <2>3 DEF HeartbeatAges, OwnerRetries, Typed, TypeOK, rows, work,
                                   upkeep
<1>5. ASSUME NEW v \in Videos, NEW next \in Broadcast, NEW i \in DOMAIN bc[v],
             QueueStep(v, i, next)
      PROVE  Typed'
  BY <1>5, QueueTyped
<1>6. ASSUME NEW c \in Cycles, CycleStep(c) \/ CycleDies(c) PROVE Typed'
  BY <1>6, CycleTyped
<1>. QED  BY <1>1, <1>2, <1>3, <1>4, <1>5, <1>6 DEF Next

\* Every variable of the pipeline always has its type.
THEOREM TypeCorrect == Spec => []TypeOK
<1>1. Typed => TypeOK
  BY DEF Typed
<1>. QED  BY <1>1, InitTyped, StepTyped, PTL DEF Spec

----------------------------------------------------------------------------
(* One link and one broadcast.                                              *)

Published(v) == ~IsLink(v)

\* One worker at a time has written the processing row of a video.
OneHolder ==
  \A u, w \in Workers : HoldsLock(u) /\ HoldsLock(w) /\ VideoOf(u) = VideoOf(w) => u = w

\* What a worker decides by is still so: what it has looked up under the lock;
\* and a video it found READY has its broadcast.
Knows(w) ==
  LET v == VideoOf(w) IN
  /\ pc[w] \in {"locked", "linked"} => ~AlreadyReady(w)
  /\ pc[w] \in AtRows /\ AlreadyReady(w) /\ Published(v) => bc[v] # <<>>
  /\ pc[w] \in {"linked", "found"} /\ HoldsLock(w) => (found[w].link <=> links[v] > 0)
  /\ pc[w] = "found" /\ Published(v) => (found[w].bc = <<>> <=> bc[v] = <<>>)
  /\ pc[w] = "found" /\ Published(v) => Len(found[w].bc) <= 1

\* No cycle is about to give a published video a broadcast.
PlansOnlyLinks == \A c \in Cycles : \A v \in plan[c].broadcasts : IsLink(v)

OneInv ==
  /\ OneOfEach
  /\ OneHolder
  /\ PlansOnlyLinks
  /\ \A w \in Workers : Knows(w)

LEMMA InitOne == Init => OneInv
<1>. SUFFICES ASSUME Init PROVE OneInv
  OBVIOUS
<1>. USE DEF Init
<1>1. OneOfEach
  BY EmptySeq DEF OneOfEach
<1>2. OneHolder
  BY DEF OneHolder, HoldsLock
<1>3. PlansOnlyLinks
  BY DEF PlansOnlyLinks, NoPlan
<1>4. \A w \in Workers : Knows(w)
  BY DEF Knows, AtRows, AtJob
<1>. QED  BY <1>1, <1>2, <1>3, <1>4 DEF OneInv

\* A video keeps its broadcasts, its link and, unless it is READY already, its
\* status is not made READY.
Kept(v) ==
  /\ Len(bc'[v]) = Len(bc[v])
  /\ links'[v] = links[v]
  /\ video'[v] = "READY" => video[v] = "READY"

\* No variable of worker w changes.
Idle(w) ==
  /\ pc'[w] = pc[w] /\ on'[w] = on[w] /\ copy'[w] = copy[w] /\ found'[w] = found[w]

LEMMA KeptOne ==
  ASSUME Typed, Typed', OneInv, \A v \in Videos : Kept(v)
  PROVE  OneOfEach'
BY DEF OneInv, OneOfEach, Kept, IsLink

LEMMA KnowsStill ==
  ASSUME Typed, Typed', NEW w \in Workers, Knows(w), Idle(w),
         pc[w] \in AtJob => Kept(VideoOf(w))
  PROVE  Knows(w)'
<1>1. CASE pc[w] \in AtJob
  <2>. DEFINE v == VideoOf(w)
  <2>1. v \in Videos /\ VideoOf(w)' = v
    BY <1>1, VideoType DEF Typed, Idle, VideoOf
  <2>2. bc[v] = <<>> <=> bc'[v] = <<>>
    BY <1>1, <2>1, Broadcasts DEF Kept, Typed, TypeOK
  <2>. QED  BY <1>1, <2>1, <2>2 DEF Knows, Idle, Kept, AlreadyReady, HoldsLock, Published, IsLink
<1>2. CASE pc[w] \notin AtJob
  BY <1>2 DEF Knows, Idle, AtRows, AtJob
<1>. QED  BY <1>1, <1>2

\* A step of worker w that takes no lock and writes nothing that matters here,
\* nor looks it up.
LEMMA QuietStep ==
  ASSUME Typed, Typed', OneInv, NEW w \in Workers,
         \A u \in Workers \ {w} : Idle(u),
         \A v \in Videos : Kept(v),
         UNCHANGED plan,
         HoldsLock(w)' => HoldsLock(w) /\ on'[w] = on[w],
         Knows(w)'
  PROVE  OneInv'
<1>1. OneOfEach'
  BY KeptOne
<1>2. OneHolder'
  <2>1. \A u \in Workers : HoldsLock(u)' => HoldsLock(u) /\ VideoOf(u)' = VideoOf(u)
    BY DEF Idle, HoldsLock, AlreadyReady, VideoOf
  <2>. QED  BY <2>1 DEF OneInv, OneHolder
<1>3. \A u \in Workers : Knows(u)'
  <2>1. ASSUME NEW u \in Workers \ {w} PROVE Knows(u)'
    <3>1. pc[u] \in AtJob => VideoOf(u) \in Videos
      BY VideoType DEF Typed
    <3>. QED  BY <3>1, KnowsStill DEF OneInv
  <2>. QED  BY <2>1
<1>. QED  BY <1>1, <1>2, <1>3 DEF OneInv, PlansOnlyLinks

\* Steps no worker makes.
LEMMA OutsideStep ==
  ASSUME Typed, Typed', OneInv, UNCHANGED work, \A v \in Videos : Kept(v),
         PlansOnlyLinks'
  PROVE  OneInv'
<1>1. OneOfEach'
  BY KeptOne
<1>2. OneHolder'
  BY DEF OneInv, OneHolder, work, HoldsLock, AlreadyReady, VideoOf
<1>3. ASSUME NEW u \in Workers PROVE Knows(u)'
  <2>1. pc[u] \in AtJob => VideoOf(u) \in Videos
    BY VideoType DEF Typed
  <2>. QED  BY <2>1, KnowsStill DEF OneInv, work, Idle
<1>. QED  BY <1>1, <1>2, <1>3 DEF OneInv

\* The end of a job, when the video keeps its link and its broadcasts.
LEMMA EndOne ==
  ASSUME Typed, Typed', OneInv, NEW w \in Workers, NEW ok \in BOOLEAN, EndJob(w, ok),
         \A v \in Videos : Kept(v), UNCHANGED plan
  PROVE  OneInv'
<1>1. pc'[w] \in {"idle", "listed"} /\ \A u \in Workers \ {w} : Idle(u)
  BY DEF EndJob, Typed, TypeOK, Idle
<1>2. Knows(w)' /\ ~HoldsLock(w)'
  BY <1>1 DEF Knows, HoldsLock, AtRows, AtJob
<1>. QED  BY <1>1, <1>2, QuietStep

LEMMA FailOne ==
  ASSUME Typed, Typed', OneInv, NEW w \in Workers, FailEarly(w) \/ Fail(w)
  PROVE  OneInv'
<1>1. EndJob(w, FALSE) /\ UNCHANGED <<links, bc, plan>>
  BY DEF FailEarly, Fail, upkeep
<1>2. \A v \in Videos : video'[v] = "READY" => video[v] = "READY"
  BY DEF FailEarly, Fail, Typed, TypeOK
<1>. QED  BY <1>1, <1>2, EndOne DEF Kept

\* The end of a processing: the lookups were made under the lock, or the video
\* was READY and has everything.
LEMMA FinishOne ==
  ASSUME Typed, Typed', OneInv, NEW w \in Workers, Finish(w)
  PROVE  OneInv'
<1>0. VideoOf(w) \in Videos
  BY VideoType DEF Finish, At, Typed, AtJob
<1>1. PICK v \in Videos, ok \in BOOLEAN :
        /\ v = VideoOf(w) /\ pc[w] = "found" /\ EndJob(w, ok)
        /\ UNCHANGED <<list, upkeep>>
  <2>. DEFINE ok == IsLink(VideoOf(w)) \/ ~LookupRaises(found[w].bc)
  <2>1. pc[w] = "found" /\ EndJob(w, ok) /\ ok \in BOOLEAN /\ UNCHANGED <<list, upkeep>>
    BY DEF Finish, At, IsLink, LookupRaises
  <2>. QED  BY <1>0, <2>1
<1>2. /\ \A u \in Videos \ {v} : bc'[u] = bc[u]
      /\ Len(bc'[v]) = IF Published(v) /\ found[w].bc = <<>> THEN Len(bc[v]) + 1
                                                            ELSE Len(bc[v])
  BY <1>1, LiveBroadcast DEF Typed, Finish, Published
<1>3. ASSUME NEW u \in Videos \ {v} PROVE Kept(u)
  BY <1>1, <1>2, <1>3 DEF Finish, Typed, TypeOK, Kept
<1>4. links[v] \in Nat /\ bc[v] \in Seq(Broadcast) /\ bc'[v] \in Seq(Broadcast)
  BY <1>1 DEF Typed, TypeOK
<1>5. links'[v] <= 1
  <2>1. links[v] <= 1
    BY <1>1 DEF OneInv, OneOfEach
  <2>2. CASE AlreadyReady(w) \/ found[w].link
    BY <1>1, <2>1, <2>2 DEF Finish
  <2>3. CASE ~AlreadyReady(w) /\ ~found[w].link
    <3>1. links[v] = 0
      BY <1>1, <1>4, <2>3 DEF OneInv, Knows, HoldsLock
    <3>2. links'[v] = links[v] + 1
      BY <1>1, <2>3 DEF Finish, Typed, TypeOK
    <3>. QED  BY <3>1, <3>2
  <2>. QED  BY <2>2, <2>3
<1>6. Published(v) => Len(bc'[v]) = 1
  <2>. SUFFICES ASSUME Published(v) PROVE Len(bc'[v]) = 1
    OBVIOUS
  <2>1. found[w].bc = <<>> <=> bc[v] = <<>>
    BY <1>1 DEF OneInv, Knows
  <2>2. Len(bc[v]) <= 1 /\ Len(bc[v]) \in Nat /\ (bc[v] = <<>> <=> Len(bc[v]) = 0)
    BY <1>1, <1>4, Broadcasts DEF OneInv, OneOfEach, Published
  <2>3. CASE found[w].bc = <<>>
    <3>1. Len(bc[v]) = 0
      BY <2>1, <2>2, <2>3
    <3>2. Len(bc'[v]) = Len(bc[v]) + 1
      BY <1>2, <2>3
    <3>. QED  BY <3>1, <3>2
  <2>4. CASE found[w].bc # <<>>
    <3>1. Len(bc[v]) # 0
      BY <2>1, <2>2, <2>4
    <3>2. Len(bc'[v]) = Len(bc[v])
      BY <1>2, <2>4
    <3>3. \A n \in Nat : n <= 1 /\ n # 0 => n = 1
      OBVIOUS
    <3>4. Len(bc[v]) = 1
      BY <2>2, <3>1, <3>3, Zenon
    <3>. QED  BY <3>2, <3>4, Zenon
  <2>. QED  BY <2>3, <2>4
<1>7. OneOfEach'
  <2>. SUFFICES ASSUME NEW u \in Videos
                PROVE  /\ links'[u] <= 1
                       /\ Published(u) => /\ Len(bc'[u]) <= 1
                                          /\ video'[u] = "READY" => Len(bc'[u]) = 1
    BY DEF OneOfEach, Published, IsLink
  <2>1. CASE u # v
    BY <1>3, <2>1 DEF OneInv, OneOfEach, Kept, Published
  <2>2. CASE u = v
    <3>1. 1 <= 1
      OBVIOUS
    <3>. QED  BY <1>5, <1>6, <2>2, <3>1, Zenon
  <2>. QED  BY <2>1, <2>2
<1>8. pc'[w] \in {"idle", "listed"} /\ \A u \in Workers \ {w} : Idle(u)
  BY <1>1 DEF EndJob, Typed, TypeOK, Idle
<1>9. OneHolder'
  <2>1. \A u \in Workers : HoldsLock(u)' => HoldsLock(u) /\ VideoOf(u)' = VideoOf(u)
    BY <1>8 DEF Idle, HoldsLock, AlreadyReady, VideoOf
  <2>. QED  BY <2>1 DEF OneInv, OneHolder
<1>10. ASSUME NEW u \in Workers \ {w} PROVE Knows(u)'
  <2>1. CASE pc[u] \in AtJob /\ VideoOf(u) = v
    <3>1. pc'[u] = pc[u] /\ VideoOf(u)' = v /\ AlreadyReady(u)' = AlreadyReady(u)
          /\ HoldsLock(u)' = HoldsLock(u) /\ found'[u] = found[u]
      BY <1>8, <2>1 DEF Idle, VideoOf, AlreadyReady, HoldsLock
    <3>2. HoldsLock(u) => AlreadyReady(w)
      BY <1>1, <2>1 DEF OneInv, OneHolder, HoldsLock
    <3>3. HoldsLock(u) => links'[v] = links[v]
      BY <3>2 DEF Finish
    <3>4. Published(v) => bc'[v] # <<>>
      <4>1. bc'[v] = <<>> => Len(bc'[v]) = 0
        BY <1>4, Broadcasts
      <4>2. 0 # 1
        OBVIOUS
      <4>. QED  BY <1>6, <4>1, <4>2, Zenon
    <3>5. pc[u] = "found" /\ Published(v) => bc[v] # <<>>
      <4>. SUFFICES ASSUME pc[u] = "found", Published(v), bc[v] = <<>> PROVE FALSE
        OBVIOUS
      <4>1. ~AlreadyReady(u) /\ ~AlreadyReady(w)
        BY <1>1, <2>1 DEF OneInv, Knows, AtRows, AtJob
      <4>. QED  BY <1>1, <2>1, <4>1 DEF OneInv, OneHolder, HoldsLock
    <3>6. Knows(u)
      BY DEF OneInv
    <3>7. Published(v)' = Published(v)
      BY DEF Published, IsLink
    <3>. QED  BY <2>1, <3>1, <3>3, <3>4, <3>5, <3>6, <3>7 DEF Knows
  <2>2. CASE pc[u] \in AtJob /\ VideoOf(u) # v
    <3>1. VideoOf(u) \in Videos \ {v}
      BY <2>2, VideoType DEF Typed
    <3>. QED  BY <1>3, <1>8, <3>1, KnowsStill DEF OneInv
  <2>3. CASE pc[u] \notin AtJob
    BY <1>8, <2>3, KnowsStill DEF OneInv
  <2>. QED  BY <2>1, <2>2, <2>3
<1>11. Knows(w)'
  BY <1>8 DEF Knows, AtRows, AtJob
<1>12. PlansOnlyLinks'
  BY <1>1 DEF OneInv, PlansOnlyLinks, upkeep
<1>. QED  BY <1>7, <1>9, <1>10, <1>11, <1>12 DEF OneInv

\* The steps before the lock, and a crash: w has looked up nothing.
LEMMA UnlockedOne ==
  ASSUME Typed, Typed', OneInv, NEW w \in Workers,
         \/ get_pending_jobs(w) \/ LoadVideo(w) \/ Crash(w)
         \/ \E j \in JobIds : BeginJob(w, j)
  PROVE  OneInv'
<1>1. /\ \A u \in Workers \ {w} : Idle(u)
      /\ UNCHANGED <<rows, plan>>
      /\ pc'[w] \in {"idle", "listed", "begun", "loaded"}
  <2>1. CASE get_pending_jobs(w)
    BY <2>1 DEF get_pending_jobs, Typed, TypeOK, Idle, upkeep
  <2>2. CASE LoadVideo(w)
    BY <2>2 DEF LoadVideo, Typed, TypeOK, Idle, upkeep
  <2>3. CASE Crash(w)
    BY <2>3 DEF Crash, Typed, TypeOK, Idle, upkeep
  <2>4. ASSUME NEW j \in JobIds, BeginJob(w, j)
        PROVE  /\ \A u \in Workers \ {w} : Idle(u)
               /\ UNCHANGED <<rows, plan>>
               /\ pc'[w] = "begun"
    BY <2>4 DEF BeginJob, Typed, TypeOK, Idle, upkeep
  <2>. QED  BY <2>1, <2>2, <2>3, <2>4
<1>2. \A v \in Videos : Kept(v)
  BY <1>1 DEF Kept, rows
<1>3. ~HoldsLock(w)'
  BY <1>1 DEF HoldsLock
<1>4. Knows(w)'
  <2>1. CASE LoadVideo(w)
    <3>1. PICK v \in Videos : v = VideoOf(w) /\ VideoOf(w)' = v
      BY <2>1, VideoType DEF LoadVideo, At, Typed, AtJob, VideoOf
    <3>2. copy'[w].video = video[v] /\ pc'[w] = "loaded" /\ bc' = bc
      BY <2>1, <3>1 DEF LoadVideo, Typed, TypeOK, rows
    <3>3. bc[v] = <<>> => Len(bc[v]) = 0
      BY Broadcasts DEF Typed, TypeOK
    <3>4. 0 # 1
      OBVIOUS
    <3>5. video[v] = "READY" /\ Published(v) => bc[v] # <<>>
      BY <3>3, <3>4, Zenon DEF OneInv, OneOfEach, Published
    <3>6. AlreadyReady(w)' => video[v] = "READY"
      BY <3>2 DEF AlreadyReady
    <3>7. AlreadyReady(w)' /\ Published(v) => bc'[v] # <<>>
      BY <3>2, <3>5, <3>6
    <3>. QED  BY <3>1, <3>2, <3>7 DEF Knows, Published, IsLink
  <2>2. CASE ~LoadVideo(w)
    <3>1. pc'[w] \in {"idle", "listed", "begun"}
      BY <2>2 DEF get_pending_jobs, Crash, BeginJob, Typed, TypeOK
    <3>. QED  BY <3>1 DEF Knows, AtRows, AtJob
  <2>. QED  BY <2>1, <2>2
<1>. QED  BY <1>1, <1>2, <1>3, <1>4, QuietStep DEF rows

\* Nobody else holds the lock when it is taken.
LEMMA LockOne ==
  ASSUME Typed, Typed', OneInv, NEW w \in Workers, LockProcessing(w)
  PROVE  OneInv'
<1>1. /\ \A u \in Workers \ {w} : Idle(u)
      /\ UNCHANGED <<rows, plan, on, copy, found>>
      /\ pc'[w] = "locked" /\ ~AlreadyReady(w) /\ ~ProcLocked(VideoOf(w))
  BY DEF LockProcessing, Typed, TypeOK, Idle, upkeep
<1>2. \A v \in Videos : Kept(v)
  BY <1>1 DEF Kept, rows
<1>3. OneOfEach'
  BY <1>2, KeptOne
<1>4. OneHolder'
  <2>1. \A u \in Workers : VideoOf(u)' = VideoOf(u)
    BY <1>1 DEF VideoOf
  <2>2. \A u \in Workers \ {w} : HoldsLock(u)' <=> HoldsLock(u)
    BY <1>1 DEF Idle, HoldsLock, AlreadyReady
  <2>3. \A u \in Workers : HoldsLock(u) => VideoOf(u) # VideoOf(w)
    BY <1>1 DEF ProcLocked
  <2>. QED  BY <2>1, <2>2, <2>3 DEF OneInv, OneHolder
<1>5. Knows(w)'
  BY <1>1 DEF Knows, AlreadyReady, AtRows, AtJob
<1>6. ASSUME NEW u \in Workers \ {w} PROVE Knows(u)'
  <2>1. pc[u] \in AtJob => VideoOf(u) \in Videos
    BY VideoType DEF Typed
  <2>. QED  BY <1>1, <1>2, <2>1, KnowsStill DEF OneInv
<1>. QED  BY <1>1, <1>3, <1>4, <1>5, <1>6 DEF OneInv, PlansOnlyLinks

\* The lookups are made under the lock, or for a READY video.
LEMMA LookupOne ==
  ASSUME Typed, Typed', OneInv, NEW w \in Workers, FindLink(w) \/ FindBroadcast(w)
  PROVE  OneInv'
<1>1. /\ \A u \in Workers \ {w} : Idle(u)
      /\ UNCHANGED <<rows, plan, on, copy>>
  BY DEF FindLink, FindBroadcast, Typed, TypeOK, Idle, upkeep
<1>2. \A v \in Videos : Kept(v)
  BY <1>1 DEF Kept, rows
<1>3. PICK v \in Videos : v = VideoOf(w) /\ VideoOf(w)' = v
  BY <1>1, VideoType DEF FindLink, FindBroadcast, At, Typed, AtJob, VideoOf
<1>4. AlreadyReady(w)' = AlreadyReady(w)
  BY <1>1 DEF AlreadyReady
<1>5. CASE FindLink(w)
  <2>1. /\ pc[w] = "locked" /\ pc'[w] = "linked"
        /\ found'[w].link = (links[v] > 0)
    BY <1>3, <1>5 DEF FindLink, At, Typed, TypeOK, Found
  <2>2. ~AlreadyReady(w)
    BY <2>1 DEF OneInv, Knows
  <2>3. Knows(w)'
    BY <1>1, <1>3, <1>4, <2>1, <2>2 DEF Knows, rows, AtRows, AtJob
  <2>4. HoldsLock(w)' => HoldsLock(w)
    BY <1>4, <2>1 DEF HoldsLock
  <2>. QED  BY <1>1, <1>2, <2>3, <2>4, QuietStep
<1>6. CASE FindBroadcast(w)
  <2>1. /\ pc'[w] = "found"
        /\ pc[w] = "linked" \/ (pc[w] = "loaded" /\ AlreadyReady(w))
        /\ found'[w].bc = bc[v] /\ found'[w].link = found[w].link
    BY <1>3, <1>6 DEF FindBroadcast, At, Typed, TypeOK, Found
  <2>2. HoldsLock(w)' => HoldsLock(w)
    BY <1>4, <2>1 DEF HoldsLock
  <2>3. Published(v) => Len(found'[w].bc) <= 1
    BY <2>1 DEF OneInv, OneOfEach, Published
  <2>4. AlreadyReady(w) /\ Published(v) => bc[v] # <<>>
    BY <1>3, <2>1 DEF OneInv, Knows, AtRows, AtJob
  <2>5. HoldsLock(w)' => (found'[w].link <=> links[v] > 0)
    BY <1>3, <1>4, <2>1, <2>2 DEF OneInv, Knows, HoldsLock
  <2>6. Knows(w)'
    BY <1>1, <1>3, <1>4, <2>1, <2>3, <2>4, <2>5 DEF Knows, rows, Published, IsLink
  <2>. QED  BY <1>1, <1>2, <2>2, <2>6, QuietStep
<1>. QED  BY <1>5, <1>6

LEMMA QueueOne ==
  ASSUME Typed, Typed', OneInv, NEW v \in Videos, NEW next \in Broadcast,
         NEW i \in DOMAIN bc[v], QueueStep(v, i, next)
  PROVE  OneInv'
<1>1. bc' = [bc EXCEPT ![v] = [bc[v] EXCEPT ![i] = next]] /\ UNCHANGED <<video, links, work, plan>>
  BY DEF QueueStep, upkeep
<1>2. Len([bc[v] EXCEPT ![i] = next]) = Len(bc[v])
  BY LenProperties, ExceptSeq DEF Typed, TypeOK
<1>3. \A u \in Videos : Kept(u)
  BY <1>1, <1>2 DEF Kept, Typed, TypeOK
<1>. QED  BY <1>1, <1>3, OutsideStep DEF OneInv, PlansOnlyLinks

\* A cycle adds broadcasts for link-only videos, which have as many as they like.
LEMMA CycleOne ==
  ASSUME Typed, Typed', OneInv, NEW c \in Cycles, CycleStep(c) \/ CycleDies(c)
  PROVE  OneInv'
<1>1. UNCHANGED <<video, links, work>>
  BY DEF CycleStep, ScanStale, Reconcile, CommitCycle, CycleDies, rows
<1>2. PlansOnlyLinks'
  <2>1. \A v \in MissingBroadcast : IsLink(v)
    <3>. SUFFICES ASSUME NEW v \in Videos, video[v] = "READY", bc[v] = <<>>, ~IsLink(v)
                  PROVE  FALSE
      BY DEF MissingBroadcast
    <3>1. Len(bc[v]) = 0
      BY Broadcasts DEF Typed, TypeOK
    <3>2. 0 # 1
      OBVIOUS
    <3>. QED  BY <3>1, <3>2, Zenon DEF OneInv, OneOfEach
  <2>2. plan'[c] \in {plan[c], NoPlan} \/ plan'[c].broadcasts = MissingBroadcast
    BY DEF CycleStep, ScanStale, Reconcile, CommitCycle, CycleDies, Typed, TypeOK
  <2>3. \A d \in Cycles \ {c} : plan'[d] = plan[d]
    BY DEF CycleStep, ScanStale, Reconcile, CommitCycle, CycleDies, Typed, TypeOK
  <2>4. NoPlan.broadcasts = {}
    BY DEF NoPlan
  <2>. QED  BY <2>1, <2>2, <2>3, <2>4 DEF OneInv, PlansOnlyLinks, IsLink
<1>3. CASE ~CommitCycle(c)
  <2>1. bc' = bc
    BY <1>3 DEF CycleStep, ScanStale, Reconcile, CycleDies, rows
  <2>2. \A v \in Videos : Kept(v)
    BY <1>1, <2>1 DEF Kept
  <2>. QED  BY <1>1, <1>2, <2>2, OutsideStep
<1>4. CASE CommitCycle(c)
  <2>1. ASSUME NEW v \in Videos, Published(v) PROVE Kept(v)
    <3>1. v \notin plan[c].broadcasts
      BY <2>1 DEF OneInv, PlansOnlyLinks, Published
    <3>2. bc'[v] = bc[v] \/ bc'[v] = [bc[v] EXCEPT ![1].live = TRUE]
      BY <1>4, <3>1 DEF CommitCycle
    <3>3. Len(bc'[v]) = Len(bc[v])
      BY <3>2, LiveAgain DEF Typed, TypeOK
    <3>. QED  BY <1>1, <3>3 DEF Kept
  <2>2. OneOfEach'
    BY <1>1, <2>1 DEF OneInv, OneOfEach, Kept, Published, IsLink
  <2>3. OneHolder'
    BY <1>1 DEF OneInv, OneHolder, work, HoldsLock, AlreadyReady, VideoOf
  <2>4. ASSUME NEW w \in Workers PROVE Knows(w)'
    <3>1. CASE pc[w] \in AtJob /\ ~Published(VideoOf(w))
      BY <1>1, <3>1 DEF OneInv, Knows, work, HoldsLock, AlreadyReady, VideoOf, Published, IsLink
    <3>2. CASE pc[w] \in AtJob /\ Published(VideoOf(w))
      <4>1. Kept(VideoOf(w))
        BY <2>1, <3>2, VideoType DEF Typed
      <4>. QED  BY <1>1, <4>1, KnowsStill DEF OneInv, work, Idle
    <3>3. CASE pc[w] \notin AtJob
      BY <1>1, <3>3, KnowsStill DEF OneInv, work, Idle
    <3>. QED  BY <3>1, <3>2, <3>3
  <2>. QED  BY <1>2, <2>2, <2>3, <2>4 DEF OneInv
<1>. QED  BY <1>3, <1>4

LEMMA StepOne == Typed /\ Typed' /\ OneInv /\ [Next]_vars => OneInv'
<1>. SUFFICES ASSUME Typed, Typed', OneInv, [Next]_vars PROVE OneInv'
  OBVIOUS
<1>1. CASE UNCHANGED vars
  <2>1. \A v \in Videos : Kept(v)
    BY <1>1 DEF Kept, vars
  <2>. QED  BY <1>1, <2>1, OutsideStep DEF vars, work, OneInv, PlansOnlyLinks
<1>2. ASSUME NEW v \in Videos, CreateVideo(v) PROVE OneInv'
  <2>1. \A u \in Videos : Kept(u)
    BY <1>2 DEF CreateVideo, Kept, Typed, TypeOK
  <2>. QED  BY <1>2, <2>1, OutsideStep DEF CreateVideo, upkeep, OneInv, PlansOnlyLinks
<1>3. ASSUME NEW w \in Workers, WorkerStep(w) \/ Crash(w) PROVE OneInv'
  BY <1>3, UnlockedOne, LockOne, LookupOne, FailOne, FinishOne DEF WorkerStep
<1>4. ASSUME NEW j \in JobIds, HeartbeatAges(j) \/ OwnerRetries(j) PROVE OneInv'
  <2>1. UNCHANGED <<rows, work, upkeep>>
    BY <1>4 DEF HeartbeatAges, OwnerRetries
  <2>2. \A v \in Videos : Kept(v)
    BY <2>1 DEF Kept, rows
  <2>. QED  BY <2>1, <2>2, OutsideStep DEF upkeep, OneInv, PlansOnlyLinks
<1>5. ASSUME NEW v \in Videos, NEW next \in Broadcast, NEW i \in DOMAIN bc[v],
             QueueStep(v, i, next)
      PROVE  OneInv'
  BY <1>5, QueueOne
<1>6. ASSUME NEW c \in Cycles, CycleStep(c) \/ CycleDies(c) PROVE OneInv'
  BY <1>6, CycleOne
<1>. QED  BY <1>1, <1>2, <1>3, <1>4, <1>5, <1>6 DEF Next

\* However many of a video's jobs are processed at once, and whatever the cycles
\* create meanwhile: no second unlock link, no second broadcast of a published
\* video, and one when it is READY.
THEOREM AlwaysOneOfEach == Spec => []OneOfEach
<1>1. OneInv => OneOfEach
  BY DEF OneInv
<1>. QED  BY <1>1, InitTyped, StepTyped, InitOne, StepOne, PTL DEF Spec

----------------------------------------------------------------------------
(* Upload: drafts and handlers.                                             *)

\* A set of numbers up to n that is not empty has a least element and a greatest.
LEMMA Extremes ==
  ASSUME NEW n \in Nat, NEW S \in SUBSET (0 .. n), S # {}
  PROVE  /\ \E x \in S : \A y \in S : x <= y
         /\ \E x \in S : \A y \in S : y <= x
<1>. DEFINE Below(x) == {y \in S : y < x}
            Above(x) == {y \in S : x < y}
            R == StrictSubsetOrdering(0 .. n)
            B == {Below(x) : x \in S}
            A == {Above(x) : x \in S}
<1>1. IsWellFoundedOn(R, SUBSET (0 .. n))
  <2>1. IsFiniteSet(0 .. n)
    BY FS_Interval
  <2>. QED  BY <2>1, FS_StrictSubsetOrderingWellFounded, FS_FiniteSubsetsOfFinite
<1>2. /\ B \subseteq SUBSET (0 .. n) /\ B # {}
      /\ A \subseteq SUBSET (0 .. n) /\ A # {}
  OBVIOUS
<1>3. \E x \in B : \A y \in B : <<y, x>> \notin R
  <2>. HIDE DEF R, A, B
  <2>. QED  BY <1>1, <1>2, WFMin
<1>4. \E x \in A : \A y \in A : <<y, x>> \notin R
  <2>. HIDE DEF R, A, B
  <2>. QED  BY <1>1, <1>2, WFMin
<1>5. \E x \in S : \A y \in S : x <= y
  <2>1. PICK x \in S : \A y \in S : <<Below(y), Below(x)>> \notin R
    BY <1>3
  <2>2. ASSUME NEW y \in S, y < x PROVE FALSE
    <3>1. y \in Below(x) /\ y \notin Below(y)
      BY <2>2
    <3>2. Below(y) \subseteq Below(x)
      <4>1. ASSUME NEW z \in S, z < y PROVE z < x
        <5>1. z \in Int /\ y \in Int /\ x \in Int
          OBVIOUS
        <5>. QED  BY <2>2, <4>1, <5>1
      <4>. QED  BY <4>1
    <3>3. <<Below(y), Below(x)>> \in R
      BY <3>1, <3>2 DEF StrictSubsetOrdering
    <3>. QED  BY <2>1, <3>3
  <2>3. ASSUME NEW y \in S PROVE x <= y
    <3>1. x \in Int /\ y \in Int /\ ~(y < x)
      BY <2>2
    <3>. QED  BY <3>1
  <2>. QED  BY <2>3
<1>6. \E x \in S : \A y \in S : y <= x
  <2>1. PICK x \in S : \A y \in S : <<Above(y), Above(x)>> \notin R
    BY <1>4
  <2>2. ASSUME NEW y \in S, x < y PROVE FALSE
    <3>1. y \in Above(x) /\ y \notin Above(y)
      BY <2>2
    <3>2. Above(y) \subseteq Above(x)
      <4>1. ASSUME NEW z \in S, y < z PROVE x < z
        <5>1. z \in Int /\ y \in Int /\ x \in Int
          OBVIOUS
        <5>. QED  BY <2>2, <4>1, <5>1
      <4>. QED  BY <4>1
    <3>3. <<Above(y), Above(x)>> \in R
      BY <3>1, <3>2 DEF StrictSubsetOrdering
    <3>. QED  BY <2>1, <3>3
  <2>3. ASSUME NEW y \in S PROVE y <= x
    <3>1. x \in Int /\ y \in Int /\ ~(x < y)
      BY <2>2
    <3>. QED  BY <3>1
  <2>. QED  BY <2>3
<1>. QED  BY <1>5, <1>6

LEMMA NewestIs ==
  /\ Newest \in DraftIds \cup {Nothing}
  /\ Drafts # {} => Newest \in Drafts
<1>1. CASE Drafts = {}
  BY <1>1 DEF Newest
<1>2. CASE Drafts # {}
  <2>1. MaxDrafts \in Nat /\ Drafts \subseteq 0 .. MaxDrafts /\ Drafts \subseteq DraftIds
    BY BoundsType DEF Drafts, DraftIds
  <2>2. \E x \in Drafts : \A y \in Drafts : y <= x
    BY <1>2, <2>1, Extremes
  <2>. QED  BY <1>2, <2>1, <2>2 DEF Newest
<1>. QED  BY <1>1, <1>2

LEMMA FirstIs ==
  ASSUME UploadTypeOK, NEW d \in DraftIds, draft[d].items # {}
  PROVE  First(d) \in draft[d].items
<1>. DEFINE I == draft[d].items
<1>1. I \subseteq Nat
  BY VideosAreNumbers DEF UploadTypeOK, Draft
<1>2. PICK n : n \in I
  OBVIOUS
<1>. DEFINE L == {v \in I : v <= n}
<1>3. n \in Nat /\ L \subseteq 0 .. n /\ n \in L
  BY <1>1, <1>2
<1>4. PICK x \in L : \A y \in L : x <= y
  BY <1>3, Extremes
<1>5. ASSUME NEW y \in I PROVE x <= y
  <2>1. x \in Nat /\ y \in Nat /\ n \in Nat /\ x <= n
    BY <1>1, <1>3
  <2>2. CASE y <= n
    BY <1>4, <2>2
  <2>3. CASE ~(y <= n)
    BY <2>1, <2>3
  <2>. QED  BY <2>2, <2>3
<1>. QED  BY <1>4, <1>5 DEF First

LEMMA EmptyLen == Len(<<>>) = 0
OBVIOUS

\* The handler h becomes r, and no other changes.
Becomes(h, r) ==
  /\ r \in Handler
  /\ at' = [at EXCEPT ![h] = r]

LEMMA BecomesIs ==
  ASSUME UploadTypeOK, NEW h \in Handlers, NEW r, Becomes(h, r)
  PROVE  /\ at' \in [Handlers -> Handler] /\ at'[h] = r
         /\ \A g \in Handlers \ {h} : at'[g] = at[g]
BY DEF UploadTypeOK, Becomes

LEMMA HandlerIs ==
  ASSUME UploadTypeOK, NEW h \in Handlers
  PROVE  /\ at[h] \in Handler /\ at[h].todo \in Seq(Ops)
         /\ at[h].pc \in Places /\ at[h].u \in Updates \cup {Nothing}
         /\ at[h].draft \in DraftIds \cup {Nothing} /\ at[h].thumb \in BOOLEAN
         /\ at[h].target \in DraftIds \cup {Nothing}
BY DEF UploadTypeOK, Handler

LEMMA GoIs ==
  ASSUME UploadTypeOK, NEW h \in Handlers, NEW place \in Places, Go(h, place)
  PROVE  /\ at' \in [Handlers -> Handler]
         /\ \A g \in Handlers \ {h} : at'[g] = at[g]
         /\ at'[h].pc = place /\ at'[h].u = at[h].u /\ at'[h].todo = at[h].todo
         /\ at'[h].target = at[h].target
<1>1. at[h] \in Handler
  BY DEF UploadTypeOK
<1>2. LET r == [at[h] EXCEPT !.pc = place] IN
      r \in Handler /\ r.pc = place /\ r.u = at[h].u /\ r.todo = at[h].todo /\ r.target = at[h].target
  BY <1>1 DEF Handler
<1>3. Becomes(h, [at[h] EXCEPT !.pc = place])
  BY <1>2 DEF Becomes, Go
<1>. QED  BY <1>2, <1>3, BecomesIs

LEMMA DoIs ==
  ASSUME UploadTypeOK, NEW h \in Handlers, NEW ops \in Seq(Ops), Do(h, ops)
  PROVE  /\ at' \in [Handlers -> Handler]
         /\ \A g \in Handlers \ {h} : at'[g] = at[g]
         /\ at'[h].pc = "op" /\ at'[h].u = at[h].u /\ at'[h].todo = ops
<1>1. at[h] \in Handler
  BY DEF UploadTypeOK
<1>2. LET r == [at[h] EXCEPT !.pc = "op", !.todo = ops] IN
      r \in Handler /\ r.pc = "op" /\ r.u = at[h].u /\ r.todo = ops
  BY <1>1 DEF Handler, Places
<1>3. Becomes(h, [at[h] EXCEPT !.pc = "op", !.todo = ops])
  BY <1>2 DEF Becomes, Do
<1>. QED  BY <1>2, <1>3, BecomesIs

LEMMA ProceedIs ==
  ASSUME UploadTypeOK, NEW h \in Handlers, at[h].todo # <<>>, Proceed(h)
  PROVE  /\ at' \in [Handlers -> Handler]
         /\ \A g \in Handlers \ {h} : at'[g] = at[g]
         /\ at'[h].u = at[h].u
         /\ at'[h].pc = IF Len(at[h].todo) = 1 THEN "reply" ELSE "op"
         /\ at'[h].pc = "op" => at'[h].todo # <<>>
<1>. DEFINE place == IF Len(at[h].todo) = 1 THEN "reply" ELSE "op"
            ops == Tail(at[h].todo)
            r == [at[h] EXCEPT !.todo = ops, !.target = Nothing, !.pc = place]
<1>1. at[h].todo \in Seq(Ops)
  BY HandlerIs
<1>2. ops \in Seq(Ops) /\ Len(ops) = Len(at[h].todo) - 1
  BY <1>1, HeadTailProperties
<1>3. r \in Handler /\ r.pc = place /\ r.todo = ops /\ r.u = at[h].u
  <2>1. place \in Places
    BY DEF Places
  <2>2. Nothing \in DraftIds \cup {Nothing}
    OBVIOUS
  <2>. HIDE DEF place, ops
  <2>. QED  BY <1>2, <2>1, <2>2, HandlerIs DEF Handler
<1>4. Becomes(h, r)
  <2>1. at' = [at EXCEPT ![h] = [@ EXCEPT !.todo = Tail(at[h].todo), !.target = Nothing,
                                 !.pc = IF Len(at[h].todo) = 1 THEN "reply" ELSE "op"]]
    BY DEF Proceed
  <2>2. at' = [at EXCEPT ![h] = r]
    BY <2>1
  <2>. HIDE DEF r
  <2>. QED  BY <1>3, <2>2 DEF Becomes
<1>5. Len(at[h].todo) # 1 => ops # <<>>
  <2>1. Len(at[h].todo) \in Nat
    BY <1>1, LenProperties
  <2>2. ops = <<>> => Len(ops) = 0
    BY EmptyLen
  <2>. QED  BY <1>2, <2>1, <2>2
<1>6. /\ at' \in [Handlers -> Handler] /\ at'[h] = r
      /\ \A g \in Handlers \ {h} : at'[g] = at[g]
  <2>. HIDE DEF r
  <2>. QED  BY <1>4, BecomesIs
<1>. HIDE DEF r, ops
<1>. QED  BY <1>3, <1>5, <1>6

LEMMA FreedIs ==
  ASSUME UploadTypeOK, NEW h \in Handlers, at' = [at EXCEPT ![h] = NoUpdate]
  PROVE  /\ at' \in [Handlers -> Handler] /\ at'[h] = NoUpdate
         /\ \A g \in Handlers \ {h} : at'[g] = at[g]
         /\ at'[h].pc = "idle" /\ at'[h].u = Nothing
<1>1. NoUpdate \in Handler
  BY EmptySeq DEF NoUpdate, Handler, Places
<1>2. Becomes(h, NoUpdate)
  BY <1>1 DEF Becomes
<1>. QED  BY <1>2, BecomesIs DEF NoUpdate

LEMMA ServesIs ==
  ASSUME UploadTypeOK, NEW h \in Handlers, NEW u \in Updates,
         at' = [at EXCEPT ![h].pc = "new", ![h].u = u]
  PROVE  /\ at' \in [Handlers -> Handler]
         /\ \A g \in Handlers \ {h} : at'[g] = at[g]
         /\ at'[h].pc = "new" /\ at'[h].u = u
<1>1. LET r == [at[h] EXCEPT !.pc = "new", !.u = u] IN
      r \in Handler /\ r.pc = "new" /\ r.u = u
  BY HandlerIs DEF Handler, Places
<1>2. Becomes(h, [at[h] EXCEPT !.pc = "new", !.u = u])
  BY <1>1 DEF Becomes
<1>. QED  BY <1>1, <1>2, BecomesIs

LEMMA OpIs ==
  ASSUME UploadTypeOK, NEW h \in Handlers, at[h].todo # <<>>
  PROVE  Mode(h) \in Modes /\ Head(at[h].todo) \in Ops
<1>1. at[h].todo \in Seq(Ops)
  BY DEF UploadTypeOK, Handler
<1>2. Head(at[h].todo) \in Ops
  BY <1>1, HeadTailProperties
<1>. QED  BY <1>2 DEF Mode, Ops

LEMMA OneOp ==
  ASSUME NEW o \in Ops
  PROVE  /\ <<o>> \in Seq(Ops) /\ <<o>> # <<>> /\ Len(<<o>>) = 1
         /\ Head(<<o>>) = o
OBVIOUS

LEMMA OrdersAre ==
  ASSUME NEW k \in Begins \cup {"start"}
  PROVE  Orders(k) \in Seq(Ops) /\ Orders(k) # <<>>
<1>1. /\ Drop \in Ops
      /\ \A m \in Modes : /\ Op("close", m) \in Ops /\ Op("open", m) \in Ops
                          /\ Op("begin", m) \in Ops
  BY DEF Drop, Op, Ops, Modes
<1>. DEFINE P == "PUBLISHED"  L == "LINK_ONLY"
<1>2. P \in Modes /\ L \in Modes
  BY DEF Modes
<1>3. CloseBoth \in Seq(Ops) /\ Len(CloseBoth) = 2
  BY <1>1, <1>2 DEF CloseBoth
<1>4. CASE k = "createvideo"
  <2>1. Orders(k) = <<Drop, Op("close", L), Op("open", P)>>
    BY <1>4 DEF Orders
  <2>. QED  BY <1>1, <1>2, <2>1
<1>5. CASE k = "createlinkvideo"
  <2>1. Orders(k) = <<Drop, Op("close", P), Op("open", L)>>
    BY <1>5 DEF Orders
  <2>. QED  BY <1>1, <1>2, <2>1
<1>6. CASE k = "createcollection"
  <2>1. Orders(k) = CloseBoth \o <<Op("begin", P)>>
    BY <1>6 DEF Orders
  <2>2. <<Op("begin", P)>> \in Seq(Ops) /\ Len(<<Op("begin", P)>>) = 1
    BY <1>1, <1>2
  <2>. QED  BY <1>3, <2>1, <2>2, ConcatProperties, EmptyLen
<1>7. CASE k = "createlinkcollection"
  <2>1. Orders(k) = CloseBoth \o <<Drop, Op("begin", L)>>
    BY <1>7 DEF Orders
  <2>2. <<Drop, Op("begin", L)>> \in Seq(Ops) /\ Len(<<Drop, Op("begin", L)>>) = 2
    BY <1>1, <1>2
  <2>. QED  BY <1>3, <2>1, <2>2, ConcatProperties, EmptyLen
<1>8. CASE k = "createlinkcollection button"
  <2>1. Orders(k) = <<Drop>> \o CloseBoth \o <<Op("begin", L)>>
    BY <1>8 DEF Orders
  <2>2. /\ <<Drop>> \in Seq(Ops) /\ Len(<<Drop>>) = 1
        /\ <<Op("begin", L)>> \in Seq(Ops) /\ Len(<<Op("begin", L)>>) = 1
    BY <1>1, <1>2
  <2>3. <<Drop>> \o CloseBoth \in Seq(Ops) /\ Len(<<Drop>> \o CloseBoth) = 3
    <3>. DEFINE D == <<Drop>>
    <3>1. D \in Seq(Ops) /\ Len(D) = 1
      BY <2>2
    <3>. HIDE DEF D
    <3>2. D \o CloseBoth \in Seq(Ops) /\ Len(D \o CloseBoth) = Len(D) + Len(CloseBoth)
      BY <1>3, <3>1, ConcatProperties
    <3>3. Len(D \o CloseBoth) = 3
      BY <1>3, <3>1, <3>2
    <3>. QED  BY <3>2, <3>3 DEF D
  <2>. QED  BY <2>1, <2>2, <2>3, ConcatProperties, EmptyLen
<1>9. CASE k = "start"
  <2>1. Orders(k) = CloseBoth
    BY <1>9 DEF Orders
  <2>. QED  BY <1>3, <2>1, EmptyLen
<1>. QED  BY <1>4, <1>5, <1>6, <1>7, <1>8, <1>9 DEF Begins

----------------------------------------------------------------------------
(* What a handler in the middle of its list has in hand.                    *)

\* Inside of an operation: the list is not empty.
Within == {"op", "wait", "clear", "finish", "restart", "reset", "locked", "row",
           "holding", "look", "claimed", "stored", "counted"}

\* A video is sent to a session or to a draft, and nothing else is done for it.
Intake(h) ==
  LET r == at[h] IN
  /\ r.pc \in Within =>
       /\ Len(r.todo) = 1
       /\ \/ Doing(h) = "take" /\ r.pc \in {"op", "look", "claimed", "stored", "counted"}
          \/ Doing(h) = "collect" /\ r.pc \in {"op", "row"}
  /\ r.pc \in {"stored", "counted"} => row[r.u] # Nothing
  /\ r.pc = "claimed" => Mode(h) \in opened[r.u]
  /\ r.pc = "reply" => Taken(r.u)

Shape(h) ==
  LET r == at[h] IN
  /\ r.pc = "idle" => r.u = Nothing
  /\ r.pc # "idle" => r.u \in Updates /\ wire[r.u] # "unsent"
  /\ r.pc \in Within => r.todo # <<>>
  /\ r.pc \in {"look", "claimed", "stored", "counted", "refuse"} => r.u \in Clips
  /\ r.pc = "holding" => r.target # Nothing /\ draft[r.target].items # {}
  /\ r.u \in Clips => Intake(h)

Shapes == \A h \in Handlers : Shape(h)

----------------------------------------------------------------------------
(* Type correctness.                                                        *)

LEMMA Numbers ==
  /\ MaxDrafts \in Nat /\ MaxDrafts >= 1 /\ MaxMishaps \in Nat
  /\ 1 \in DraftIds
BY BoundsType DEF DraftIds

LEMMA WrongType ==
  ASSUME UploadTypeOK, GoesWrong
  PROVE  mishaps' \in 0 .. MaxMishaps
BY Numbers DEF UploadTypeOK, GoesWrong

LEMMA WaitType ==
  ASSUME UploadTypeOK, NEW m, WaitIsOver(m)
  PROVE  mishaps' \in 0 .. MaxMishaps
BY WrongType DEF UploadTypeOK, WaitIsOver

LEMMA NewRow ==
  /\ NoDraft \in Draft
  /\ \A m \in Modes : /\ NewDraft(m) \in Draft /\ NewDraft(m).items = {}
                      /\ NewDraft(m).mode = m /\ NewDraft(m).status = "DRAFT"
BY DEF NoDraft, NewDraft, Draft, DraftStatuses, Modes

LEMMA DraftIs ==
  ASSUME UploadTypeOK, NEW d \in DraftIds
  PROVE  /\ draft[d] \in Draft /\ draft[d].items \subseteq Clips
         /\ draft[d].mode \in Modes /\ draft[d].thumb \in BOOLEAN
BY DEF UploadTypeOK, Draft

\* The status of a draft changes.
LEMMA StatusIs ==
  ASSUME UploadTypeOK, NEW d \in DraftIds, NEW s \in DraftStatuses
  PROVE  LET after == [draft EXCEPT ![d].status = s] IN
         /\ after \in [DraftIds -> Draft]
         /\ \A e \in DraftIds : /\ after[e].items = draft[e].items
                                /\ after[e].mode = draft[e].mode
                                /\ after[e].status = IF e = d THEN s ELSE draft[e].status
BY DEF UploadTypeOK, Draft

LEMMA UploadInitTyped == UploadInit => UploadTypeOK
<1>. SUFFICES ASSUME UploadInit PROVE UploadTypeOK
  OBVIOUS
<1>1. NoUpdate \in Handler
  BY EmptySeq DEF NoUpdate, Handler, Places
<1>2. /\ wire \in [Updates -> {"unsent", "due", "done"}]
      /\ session \in [Modes -> States]
      /\ opened \in [Clips -> SUBSET Modes]
      /\ draft \in [DraftIds -> Draft]
  <2>1. CASE Fresh
    BY <2>1, NewRow DEF Fresh, NothingSent, Updates, States
  <2>2. CASE InSession
    BY <2>2, NewRow DEF InSession, NothingSent, Updates, States
  <2>3. CASE InCollection
    <3>. DEFINE items == {v \in Clips : \A x \in Clips : v <= x}
    <3>1. PICK m \in Modes :
            /\ draft = [d \in DraftIds |-> IF d = 1 THEN [NewDraft(m) EXCEPT !.items = items]
                                           ELSE NoDraft]
            /\ wire = [u \in Updates |-> IF u \in items THEN "done" ELSE "unsent"]
            /\ opened = [v \in Clips |-> IF v \in items THEN {m} ELSE {}]
      BY <2>3 DEF InCollection
    <3>2. [NewDraft(m) EXCEPT !.items = items] \in Draft
      <4>1. items \in SUBSET Clips /\ NewDraft(m) \in Draft
        BY NewRow
      <4>. HIDE DEF items
      <4>. QED  BY <4>1 DEF Draft
    <3>3. session \in [Modes -> States]
      BY <2>3 DEF InCollection, States
    <3>. HIDE DEF items
    <3>. QED  BY <3>1, <3>2, <3>3, NewRow
  <2>. QED  BY <2>1, <2>2, <2>3 DEF UploadInit
<1>. QED  BY <1>1, <1>2, Numbers DEF UploadInit, UploadTypeOK, MessageKinds, Begins

\* A handler at its operations.
LEMMA Busy ==
  ASSUME UploadTypeOK, Shapes, NEW h \in Handlers, at[h].pc \in Within
  PROVE  /\ at[h].todo # <<>> /\ Mode(h) \in Modes /\ Head(at[h].todo) \in Ops
         /\ at[h].u \in Updates
<1>1. Shape(h) /\ at[h].pc # "idle"
  BY DEF Shapes, Within
<1>2. at[h].todo # <<>> /\ at[h].u \in Updates
  BY <1>1 DEF Shape
<1>. QED  BY <1>2, OpIs

\* The handlers, after every step.
LEMMA RoutesTyped ==
  ASSUME UploadTypeOK, NEW h \in Handlers, Routes(h)
  PROVE  at' \in [Handlers -> Handler]
<1>. DEFINE k == Kind(at[h].u)
<1>1. CASE k \in Begins \cup {"start"}
  BY <1>1, OrdersAre, DoIs DEF Routes
<1>2. CASE k \notin Begins \cup {"start"} /\ Newest # Nothing
  <2>. DEFINE o == CASE k = "done" -> Op("publish", "PUBLISHED")
                     [] k = "cancel" -> Drop
                     [] OTHER -> Op("collect", "PUBLISHED")
              r == [at[h] EXCEPT !.pc = "op", !.draft = Newest, !.thumb = draft[Newest].thumb,
                                 !.todo = <<o>>]
  <2>1. o \in Ops
    BY DEF Op, Drop, Ops, Modes
  <2>2. Newest \in DraftIds /\ draft[Newest].thumb \in BOOLEAN
    BY <1>2, NewestIs, DraftIs
  <2>3. <<o>> \in Seq(Ops)
    <3>. HIDE DEF o
    <3>. QED  BY <2>1, OneOp
  <2>4. r \in Handler
    <3>. HIDE DEF o
    <3>. QED  BY <2>2, <2>3, HandlerIs DEF Handler, Places
  <2>5. at' = [at EXCEPT ![h] = r]
    BY <1>2 DEF Routes
  <2>. HIDE DEF r
  <2>. QED  BY <2>4, <2>5, BecomesIs DEF Becomes
<1>3. CASE k \notin Begins \cup {"start"} /\ Newest = Nothing
  <2>1. PICK place \in {"reply", "link"} : Go(h, place)
    BY <1>3 DEF Routes
  <2>. QED  BY <2>1, GoIs DEF Places
<1>. QED  BY <1>1, <1>2, <1>3

LEMMA RoutesToTyped ==
  ASSUME UploadTypeOK, NEW h \in Handlers, NEW m \in Modes, NEW place \in {"link", "normal"},
         RoutesTo(h, place, m)
  PROVE  at' \in [Handlers -> Handler]
<1>. DEFINE k == Kind(at[h].u)
<1>1. CASE Open(m)
  <2>1. PICK o \in Ops : Do(h, <<o>>)
    BY <1>1 DEF RoutesTo, Op, Ops
  <2>. QED  BY <2>1, OneOp, DoIs
<1>2. CASE ~Open(m) /\ place = "link"
  BY <1>2, GoIs DEF RoutesTo, Places
<1>3. CASE ~Open(m) /\ place = "normal"
  <2>1. CASE k = "cancel"
    <3>1. Do(h, CloseBoth) /\ Orders("start") = CloseBoth
      BY <1>3, <2>1 DEF RoutesTo, Orders
    <3>. QED  BY <3>1, OrdersAre, DoIs
  <2>2. CASE k # "cancel"
    <3>1. PICK q \in {"refuse", "reply"} : Go(h, q)
      BY <1>3, <2>2 DEF RoutesTo
    <3>. QED  BY <3>1, GoIs DEF Places
  <2>. QED  BY <2>1, <2>2
<1>. QED  BY <1>1, <1>2, <1>3

LEMMA DoneTyped ==
  ASSUME UploadTypeOK, NEW h \in Handlers, Done(h)
  PROVE  /\ at' \in [Handlers -> Handler]
         /\ wire' \in [Updates -> {"unsent", "due", "done"}]
BY FreedIs DEF UploadTypeOK, Done

LEMMA RaiseTyped ==
  ASSUME UploadTypeOK, NEW h \in Handlers, Raise(h)
  PROVE  at' \in [Handlers -> Handler] /\ dedup' \subseteq Updates
BY FreedIs DEF UploadTypeOK, Raise

LEMMA SessionsTyped ==
  ASSUME UploadTypeOK, Shapes, NEW h \in Handlers,
         \/ close_if_active(h) \/ cancel_create_video_session(h) \/ clear_creation_state(h)
         \/ FinishesFeedback(h) \/ start_create_video_session(h) \/ OpensSession(h)
         \/ HintsAtVideo(h) \/ claim_creation_state(h) \/ ClaimFails(h) \/ SavesVideo(h)
         \/ CountsVideo(h) \/ release_creation_state(h)
  PROVE  UploadTypeOK'
<1>1. at[h].pc \in Within
  BY DEF IsAt, close_if_active, cancel_create_video_session, clear_creation_state,
         FinishesFeedback, start_create_video_session, OpensSession, HintsAtVideo,
         claim_creation_state, ClaimFails, SavesVideo, CountsVideo,
         release_creation_state, Within
<1>2. at[h].todo # <<>> /\ Mode(h) \in Modes
  BY <1>1, Busy
<1>3. \A m \in Modes : ReleasesTo(m) \in States
  BY DEF UploadTypeOK, ReleasesTo, States
<1>4. CASE close_if_active(h)
  <2>1. at' \in [Handlers -> Handler]
    BY <1>2, <1>4, GoIs, ProceedIs DEF close_if_active, Places
  <2>. QED  BY <1>4, <2>1, <1>2 DEF UploadTypeOK, close_if_active, Quiet, data
<1>5. CASE cancel_create_video_session(h)
  <2>1. at' \in [Handlers -> Handler]
    BY <1>5, GoIs DEF cancel_create_video_session, Places
  <2>2. mishaps' \in 0 .. MaxMishaps
    BY <1>5, WaitType DEF cancel_create_video_session
  <2>. QED  BY <1>5, <2>1, <2>2, <1>2 DEF UploadTypeOK, cancel_create_video_session, Quiet, data
<1>6. CASE clear_creation_state(h)
  <2>1. at' \in [Handlers -> Handler]
    BY <1>6, GoIs DEF clear_creation_state, Places
  <2>. QED  BY <1>6, <2>1, <1>2 DEF UploadTypeOK, clear_creation_state, Quiet, data, States
<1>7. CASE FinishesFeedback(h)
  <2>1. at' \in [Handlers -> Handler]
    BY <1>2, <1>7, GoIs, ProceedIs DEF FinishesFeedback, Places
  <2>. QED  BY <1>7, <2>1, <1>2 DEF UploadTypeOK, FinishesFeedback, Quiet, data
<1>8. CASE start_create_video_session(h)
  <2>1. at' \in [Handlers -> Handler]
    BY <1>2, <1>8, GoIs, ProceedIs DEF start_create_video_session, Places
  <2>2. mishaps' \in 0 .. MaxMishaps
    BY <1>8, WaitType DEF UploadTypeOK, start_create_video_session
  <2>. QED  BY <1>8, <2>1, <2>2, <1>2 DEF UploadTypeOK, start_create_video_session, Quiet, data
<1>9. CASE OpensSession(h)
  <2>1. at' \in [Handlers -> Handler]
    BY <1>2, <1>9, ProceedIs DEF OpensSession
  <2>2. opened' \in [Clips -> SUBSET Modes]
    BY <1>2, <1>9 DEF UploadTypeOK, OpensSession, NowOpen
  <2>. QED  BY <1>9, <2>1, <2>2, <1>2 DEF UploadTypeOK, OpensSession, Quiet, data, States
<1>10. CASE HintsAtVideo(h)
  <2>1. at' \in [Handlers -> Handler]
    BY <1>2, <1>10, ProceedIs DEF HintsAtVideo
  <2>. QED  BY <1>10, <2>1, <1>2 DEF UploadTypeOK, HintsAtVideo, Quiet, data
<1>11. CASE claim_creation_state(h)
  <2>1. at' \in [Handlers -> Handler]
    BY <1>11, GoIs DEF claim_creation_state, Places
  <2>. QED  BY <1>11, <2>1, <1>2 DEF UploadTypeOK, claim_creation_state, Quiet, data, States
<1>12. CASE ClaimFails(h)
  <2>1. at' \in [Handlers -> Handler] /\ dedup' \subseteq Updates
    BY <1>12, GoIs, RaiseTyped DEF UploadTypeOK, ClaimFails, Places
  <2>2. mishaps' \in 0 .. MaxMishaps
    BY <1>12, WaitType DEF UploadTypeOK, ClaimFails
  <2>. QED  BY <1>12, <2>1, <2>2, <1>2 DEF UploadTypeOK, ClaimFails, Quiet, data
<1>13. CASE SavesVideo(h)
  <2>1. at' \in [Handlers -> Handler]
    BY <1>13, GoIs DEF SavesVideo, Places
  <2>2. mishaps' \in 0 .. MaxMishaps
    BY <1>13, WrongType DEF UploadTypeOK, SavesVideo
  <2>3. session' \in [Modes -> States]
    BY <1>2, <1>3, <1>13 DEF UploadTypeOK, SavesVideo, States
  <2>4. row' \in [Clips -> Modes \cup {Nothing}]
    BY <1>2, <1>13 DEF UploadTypeOK, SavesVideo
  <2>. QED  BY <1>13, <2>1, <2>2, <2>3, <2>4, <1>2 DEF UploadTypeOK, SavesVideo, Quiet, data
<1>14. CASE CountsVideo(h)
  <2>1. at' \in [Handlers -> Handler]
    BY <1>14, GoIs DEF CountsVideo, Places
  <2>. QED  BY <1>14, <2>1, <1>2 DEF UploadTypeOK, CountsVideo, Quiet, data
<1>15. CASE release_creation_state(h)
  <2>1. /\ at' \in [Handlers -> Handler]
        /\ wire' \in [Updates -> {"unsent", "due", "done"}]
    BY <1>15, DoneTyped DEF release_creation_state
  <2>2. session' \in [Modes -> States]
    BY <1>2, <1>3, <1>15 DEF UploadTypeOK, release_creation_state
  <2>. QED  BY <1>15, <2>1, <2>2, <1>2 DEF UploadTypeOK, release_creation_state, Quiet, data
<1>. QED  BY <1>4, <1>5, <1>6, <1>7, <1>8, <1>9, <1>10, <1>11, <1>12, <1>13, <1>14, <1>15

LEMMA ItemTyped ==
  ASSUME UploadTypeOK, NEW d \in DraftIds, NEW v \in Clips
  PROVE  LET after == [draft EXCEPT ![d].items = @ \cup {v}] IN
         /\ after \in [DraftIds -> Draft]
         /\ \A e \in DraftIds :
              /\ after[e].items = IF e = d THEN draft[e].items \cup {v} ELSE draft[e].items
              /\ after[e].mode = draft[e].mode /\ after[e].status = draft[e].status
<1>1. [draft[d] EXCEPT !.items = @ \cup {v}] \in Draft
  BY DraftIs DEF Draft
<1>. QED  BY <1>1 DEF UploadTypeOK, Draft

LEMMA ThumbTyped ==
  ASSUME UploadTypeOK, NEW d \in DraftIds, NEW b \in BOOLEAN
  PROVE  LET after == [draft EXCEPT ![d].thumb = b] IN
         /\ after \in [DraftIds -> Draft]
         /\ \A e \in DraftIds : /\ after[e].items = draft[e].items
                                /\ after[e].mode = draft[e].mode
                                /\ after[e].status = draft[e].status
<1>1. [draft[d] EXCEPT !.thumb = b] \in Draft
  BY DraftIs DEF Draft
<1>. QED  BY <1>1 DEF UploadTypeOK, Draft

\* What the row a message is received into keeps and gains.
LEMMA ReceivedIs ==
  ASSUME UploadTypeOK, NEW h \in Handlers, receive(h)
  PROVE  /\ StillDraft(h) => at[h].target \in DraftIds
         /\ draft' \in [DraftIds -> Draft]
         /\ \A e \in DraftIds :
              /\ draft'[e].items = IF StillDraft(h) /\ at[h].u \in Clips /\ e = at[h].target
                                   THEN draft[e].items \cup {at[h].u} ELSE draft[e].items
              /\ draft'[e].mode = draft[e].mode /\ draft'[e].status = draft[e].status
<1>. DEFINE d == at[h].target
<1>1. StillDraft(h) => d \in DraftIds
  BY HandlerIs DEF StillDraft
<1>2. CASE StillDraft(h) /\ at[h].u \in Clips
  <2>1. draft' = [draft EXCEPT ![d].items = @ \cup {at[h].u}]
    BY <1>2 DEF receive
  <2>2. PICK v \in Clips : v = at[h].u
    BY <1>2
  <2>3. draft' = [draft EXCEPT ![d].items = @ \cup {v}]
    BY <2>1, <2>2
  <2>4. PICK f \in DraftIds : f = d
    BY <1>1, <1>2
  <2>5. draft' = [draft EXCEPT ![f].items = @ \cup {v}]
    BY <2>3, <2>4
  <2>. HIDE DEF d
  <2>6. /\ draft' \in [DraftIds -> Draft]
        /\ \A e \in DraftIds :
             /\ draft'[e].items = IF e = f THEN draft[e].items \cup {v} ELSE draft[e].items
             /\ draft'[e].mode = draft[e].mode /\ draft'[e].status = draft[e].status
    BY <2>5, ItemTyped
  <2>7. \A e \in DraftIds :
          (StillDraft(h) /\ at[h].u \in Clips /\ e = d) <=> (e = f)
    BY <1>2, <2>4
  <2>. QED  BY <1>1, <2>2, <2>6, <2>7 DEF d
<1>3. CASE StillDraft(h) /\ at[h].u \notin Clips
  <2>. DEFINE b == draft[d].thumb \/ draft[d].mode = "PUBLISHED"
  <2>1. draft' = [draft EXCEPT ![d].thumb = b]
    BY <1>3 DEF receive
  <2>2. b \in BOOLEAN
    BY <1>1, <1>3, DraftIs
  <2>. HIDE DEF b
  <2>3. /\ draft' \in [DraftIds -> Draft]
        /\ \A e \in DraftIds :
             /\ draft'[e].items = draft[e].items
             /\ draft'[e].mode = draft[e].mode /\ draft'[e].status = draft[e].status
    BY <1>1, <1>3, <2>1, <2>2, ThumbTyped
  <2>. QED  BY <1>1, <1>3, <2>3
<1>4. CASE ~StillDraft(h)
  BY <1>4 DEF receive, UploadTypeOK
<1>. QED  BY <1>2, <1>3, <1>4

\* The draft a query has found, when its status changes to CANCELLED.
LEMMA CancelledIs ==
  ASSUME UploadTypeOK, NEW h \in Handlers
  PROVE  LET after == IF StillDraft(h) THEN Cancelled(at[h].target) ELSE draft IN
         /\ after \in [DraftIds -> Draft]
         /\ \A e \in DraftIds :
              /\ after[e].items = draft[e].items /\ after[e].mode = draft[e].mode
              /\ after[e].status = IF StillDraft(h) /\ e = at[h].target THEN "CANCELLED"
                                   ELSE draft[e].status
<1>1. StillDraft(h) => at[h].target \in DraftIds
  BY HandlerIs DEF StillDraft
<1>2. "CANCELLED" \in DraftStatuses
  BY DEF DraftStatuses
<1>3. CASE StillDraft(h)
  BY <1>1, <1>2, <1>3, StatusIs DEF Cancelled
<1>4. CASE ~StillDraft(h)
  BY <1>4 DEF UploadTypeOK
<1>. QED  BY <1>3, <1>4

\* What a new collection does to the drafts.
LEMMA BegunIs ==
  ASSUME UploadTypeOK, Shapes, NEW h \in Handlers, BeginsCollection(h)
  PROVE  /\ Mode(h) \in Modes /\ draft' \in [DraftIds -> Draft]
         /\ \E d \in DraftIds :
              /\ draft[d].status = "ABSENT"
              /\ draft'[d] = NewDraft(Mode(h))
              /\ \A e \in DraftIds \ {d} :
                   /\ draft'[e].items = draft[e].items /\ draft'[e].mode = draft[e].mode
                   /\ draft'[e].status = IF StillDraft(h) /\ e = at[h].target THEN "CANCELLED"
                                         ELSE draft[e].status
<1>1. at[h].pc \in Within
  BY DEF BeginsCollection, IsAt, Within
<1>2. Mode(h) \in Modes
  BY <1>1, Busy
<1>. DEFINE base == IF StillDraft(h) THEN Cancelled(at[h].target) ELSE draft
<1>3. PICK d \in DraftIds :
        draft[d].status = "ABSENT" /\ draft' = [base EXCEPT ![d] = NewDraft(Mode(h))]
  BY DEF BeginsCollection
<1>4. /\ base \in [DraftIds -> Draft]
      /\ \A e \in DraftIds :
           /\ base[e].items = draft[e].items /\ base[e].mode = draft[e].mode
           /\ base[e].status = IF StillDraft(h) /\ e = at[h].target THEN "CANCELLED"
                               ELSE draft[e].status
  BY CancelledIs
<1>. HIDE DEF base
<1>. QED  BY <1>2, <1>3, <1>4, NewRow

LEMMA CollectionsTyped ==
  ASSUME UploadTypeOK, Shapes, NEW h \in Handlers,
         \/ LocksBot(h) \/ ReadsTarget(h) \/ CancelsDraft(h) \/ BeginsCollection(h)
         \/ receive(h) \/ finish(h) \/ PublishesDraft(h) \/ DeadlockAborts(h)
  PROVE  UploadTypeOK'
<1>1. CASE LocksBot(h)
  <2>1. at[h].todo # <<>>
    BY <1>1, Busy DEF LocksBot, IsAt, Within
  <2>2. at' \in [Handlers -> Handler]
    BY <1>1, <2>1, GoIs, ProceedIs DEF LocksBot, Places
  <2>. QED  BY <1>1, <2>2 DEF UploadTypeOK, LocksBot, Quiet, data
<1>2. CASE ReadsTarget(h)
  <2>. DEFINE r == [at[h] EXCEPT !.pc = "row", !.target = Newest]
  <2>1. r \in Handler
    BY NewestIs, HandlerIs DEF Handler, Places
  <2>2. at' = [at EXCEPT ![h] = r]
    BY <1>2 DEF ReadsTarget
  <2>3. at' \in [Handlers -> Handler]
    BY <2>1, <2>2, BecomesIs DEF Becomes
  <2>. QED  BY <1>2, <2>3 DEF UploadTypeOK, ReadsTarget, Quiet, data
<1>3. CASE CancelsDraft(h)
  <2>1. at[h].todo # <<>>
    BY <1>3, Busy DEF CancelsDraft, IsAt, Within
  <2>2. at' \in [Handlers -> Handler]
    BY <1>3, <2>1, ProceedIs DEF CancelsDraft
  <2>3. draft' \in [DraftIds -> Draft]
    BY <1>3, CancelledIs DEF CancelsDraft
  <2>. QED  BY <1>3, <2>2, <2>3 DEF UploadTypeOK, CancelsDraft, Quiet
<1>4. CASE BeginsCollection(h)
  <2>1. at[h].todo # <<>>
    BY <1>4, Busy DEF BeginsCollection, IsAt, Within
  <2>2. at' \in [Handlers -> Handler]
    BY <1>4, <2>1, ProceedIs DEF BeginsCollection
  <2>3. Mode(h) \in Modes /\ draft' \in [DraftIds -> Draft]
    BY <1>4, BegunIs
  <2>4. opened' \in [Clips -> SUBSET Modes]
    BY <1>4, <2>3 DEF UploadTypeOK, BeginsCollection, NowOpen
  <2>. QED  BY <1>4, <2>2, <2>3, <2>4 DEF UploadTypeOK, BeginsCollection
<1>5. CASE receive(h)
  <2>1. at[h].todo # <<>> /\ at[h].u \in Updates
    BY <1>5, Busy DEF receive, IsAt, Within
  <2>2. at' \in [Handlers -> Handler]
    BY <1>5, <2>1, GoIs, ProceedIs DEF receive, Places
  <2>3. draft' \in [DraftIds -> Draft]
    BY <1>5, ReceivedIs
  <2>. QED  BY <1>5, <2>2, <2>3 DEF UploadTypeOK, receive, Quiet
<1>6. CASE finish(h)
  <2>1. at' \in [Handlers -> Handler]
    BY <1>6, GoIs DEF finish, Places
  <2>. QED  BY <1>6, <2>1 DEF UploadTypeOK, finish, Quiet, data
<1>7. CASE PublishesDraft(h)
  <2>. DEFINE d == at[h].target  v == First(d)
  <2>1. at[h].todo # <<>> /\ d \in DraftIds /\ draft[d].items # {}
    <3>1. at[h].pc = "holding" /\ Shape(h)
      BY <1>7 DEF PublishesDraft, Shapes
    <3>. QED  BY <3>1, Busy, HandlerIs DEF Within, Shape
  <2>2. v \in Clips /\ draft[d].mode \in Modes
    BY <2>1, FirstIs, DraftIs
  <2>3. CASE row[v] = Nothing
    <3>1. /\ row' = [row EXCEPT ![v] = draft[d].mode]
          /\ draft' = [draft EXCEPT ![d].status = "PUBLISHED"]
          /\ Proceed(h) /\ UNCHANGED dedup
      BY <1>7, <2>3 DEF PublishesDraft
    <3>2. draft' \in [DraftIds -> Draft]
      BY <2>1, <3>1, StatusIs DEF DraftStatuses
    <3>3. at' \in [Handlers -> Handler]
      BY <2>1, <3>1, ProceedIs
    <3>4. row' \in [Clips -> Modes \cup {Nothing}]
      BY <2>2, <3>1 DEF UploadTypeOK
    <3>. QED  BY <1>7, <3>1, <3>2, <3>3, <3>4 DEF UploadTypeOK, PublishesDraft
  <2>4. CASE row[v] # Nothing
    <3>1. Raise(h) /\ UNCHANGED <<row, draft>>
      BY <1>7, <2>4 DEF PublishesDraft
    <3>2. at' \in [Handlers -> Handler] /\ dedup' \subseteq Updates
      BY <3>1, RaiseTyped
    <3>. QED  BY <1>7, <3>1, <3>2 DEF UploadTypeOK, PublishesDraft
  <2>. QED  BY <2>3, <2>4
<1>8. CASE DeadlockAborts(h)
  <2>1. at' \in [Handlers -> Handler] /\ dedup' \subseteq Updates
    BY <1>8, RaiseTyped DEF DeadlockAborts
  <2>. QED  BY <1>8, <2>1 DEF UploadTypeOK, DeadlockAborts, data
<1>. QED  BY <1>1, <1>2, <1>3, <1>4, <1>5, <1>6, <1>7, <1>8

LEMMA RouterTyped ==
  ASSUME UploadTypeOK, Shapes, NEW h \in Handlers,
         \/ Routes(h) \/ RoutesTo(h, "link", "LINK_ONLY") \/ RoutesTo(h, "normal", "PUBLISHED")
         \/ Answers(h)
  PROVE  UploadTypeOK'
<1>1. Shape(h) /\ (at[h].pc # "idle" => at[h].u \in Updates)
  BY DEF Shapes, Shape
<1>2. CASE Routes(h)
  <2>1. at' \in [Handlers -> Handler]
    BY <1>2, RoutesTyped
  <2>. QED  BY <1>1, <1>2, <2>1 DEF UploadTypeOK, Routes, data
<1>3. ASSUME NEW place \in {"link", "normal"}, NEW m \in Modes, RoutesTo(h, place, m)
      PROVE  UploadTypeOK'
  <2>1. at' \in [Handlers -> Handler]
    BY <1>3, RoutesToTyped
  <2>. QED  BY <1>3, <2>1 DEF UploadTypeOK, RoutesTo, data
<1>4. CASE Answers(h)
  <2>1. /\ at' \in [Handlers -> Handler]
        /\ wire' \in [Updates -> {"unsent", "due", "done"}]
    BY <1>4, DoneTyped DEF Answers
  <2>2. at[h].pc = "refuse" => at[h].u \in Clips
    BY <1>1 DEF Shape
  <2>. QED  BY <1>4, <2>1, <2>2 DEF UploadTypeOK, Answers, data
<1>. QED  BY <1>2, <1>3, <1>4 DEF Modes

LEMMA TelegramTyped ==
  ASSUME UploadTypeOK, NEW h \in Handlers, NEW u \in Updates, Sends(h, u) \/ Resends(h, u)
  PROVE  UploadTypeOK'
<1>1. CASE Sends(h, u)
  <2>1. at' \in [Handlers -> Handler]
    BY <1>1, ServesIs DEF Sends
  <2>2. wire' \in [Updates -> {"unsent", "due", "done"}]
    BY <1>1 DEF UploadTypeOK, Sends
  <2>3. /\ opened' \in [Clips -> SUBSET Modes]
        /\ kind' \in [Commands -> MessageKinds]
    <3>1. OpenModes \in SUBSET Modes
      BY DEF OpenModes
    <3>2. CASE u \in Clips
      BY <1>1, <3>1, <3>2 DEF UploadTypeOK, Sends
    <3>3. CASE u \notin Clips
      <4>1. PICK k \in MessageKinds : kind' = [kind EXCEPT ![u] = k]
        BY <1>1, <3>3 DEF Sends
      <4>. QED  BY <1>1, <3>3, <4>1 DEF UploadTypeOK, Sends
    <3>. QED  BY <3>2, <3>3
  <2>. QED  BY <1>1, <2>1, <2>2, <2>3 DEF UploadTypeOK, Sends, data
<1>2. CASE Resends(h, u)
  <2>1. mishaps' \in 0 .. MaxMishaps
    BY <1>2, WrongType DEF UploadTypeOK, Resends
  <2>2. CASE u \in dedup
    BY <1>2, <2>1, <2>2 DEF UploadTypeOK, Resends, data
  <2>3. CASE u \notin dedup
    <3>1. at' \in [Handlers -> Handler]
      BY <1>2, <2>3, ServesIs DEF Resends
    <3>. QED  BY <1>2, <2>1, <2>3, <3>1 DEF UploadTypeOK, Resends, data
  <2>. QED  BY <2>2, <2>3
<1>. QED  BY <1>1, <1>2

LEMMA MishapsTyped ==
  ASSUME UploadTypeOK, Shapes,
         \/ \E h \in Handlers : RoleRaises(h) \/ HandlerRaises(h) \/ ProcessDies(h)
         \/ \E m \in Modes : SessionExpires(m)
         \/ \E d \in DraftIds : DraftExpires(d)
         \/ SponsorChanges
  PROVE  UploadTypeOK'
<1>1. ASSUME NEW h \in Handlers, HandlerRaises(h) PROVE UploadTypeOK'
  <2>1. at' \in [Handlers -> Handler] /\ dedup' \subseteq Updates
    BY <1>1, RaiseTyped DEF HandlerRaises
  <2>. QED  BY <1>1, <2>1, WrongType DEF UploadTypeOK, HandlerRaises, data
<1>2. ASSUME NEW h \in Handlers, RoleRaises(h) \/ ProcessDies(h) PROVE UploadTypeOK'
  <2>1. at' \in [Handlers -> Handler] /\ mishaps' \in 0 .. MaxMishaps
    BY <1>2, FreedIs, WrongType DEF UploadTypeOK, RoleRaises, ProcessDies
  <2>2. at[h].u \in Updates
    BY <1>2 DEF Shapes, Shape, RoleRaises, ProcessDies
  <2>3. dedup' \subseteq Updates /\ cutOff' \subseteq Updates
    BY <1>2, <2>2 DEF UploadTypeOK, RoleRaises, ProcessDies
  <2>4. UNCHANGED <<wire, kind, sponsor, opened, refused, session, draft, row>>
    BY <1>2 DEF RoleRaises, ProcessDies, data
  <2>. QED  BY <2>1, <2>3, <2>4 DEF UploadTypeOK
<1>3. ASSUME NEW m \in Modes, SessionExpires(m) PROVE UploadTypeOK'
  <2>1. mishaps' \in 0 .. MaxMishaps
    BY <1>3, WrongType DEF UploadTypeOK, SessionExpires
  <2>. QED  BY <1>3, <2>1 DEF UploadTypeOK, SessionExpires, Quiet, States
<1>4. ASSUME NEW d \in DraftIds, DraftExpires(d) PROVE UploadTypeOK'
  <2>1. draft' \in [DraftIds -> Draft]
    BY <1>4, StatusIs DEF DraftExpires, DraftStatuses
  <2>. QED  BY <1>4, <2>1, WrongType DEF UploadTypeOK, DraftExpires, Quiet
<1>5. CASE SponsorChanges
  BY <1>5, WrongType DEF UploadTypeOK, SponsorChanges, data
<1>. QED  BY <1>1, <1>2, <1>3, <1>4, <1>5

LEMMA UploadStepTyped == UploadTypeOK /\ Shapes /\ [UploadNext]_uploadVars => UploadTypeOK'
<1>. SUFFICES ASSUME UploadTypeOK, Shapes, [UploadNext]_uploadVars PROVE UploadTypeOK'
  OBVIOUS
<1>1. ASSUME NEW h \in Handlers, Step(h) PROVE UploadTypeOK'
  BY <1>1, SessionsTyped, CollectionsTyped, RouterTyped DEF Step
<1>2. CASE Rests \/ UNCHANGED uploadVars
  BY <1>2 DEF UploadTypeOK, Rests, uploadVars, data
<1>. QED  BY <1>1, <1>2, TelegramTyped, MishapsTyped DEF UploadNext

----------------------------------------------------------------------------
(* What a step keeps, and what the other handlers have in hand.             *)

\* A mode that is open was open since every video that was sent before; so was the
\* mode of a row and of a draft with a video.
OpenedInv ==
  /\ \A v \in Clips : wire[v] # "unsent" => OpenModes \subseteq opened[v]
  /\ \A v \in Clips : wire[v] = "unsent" => opened[v] = {}
  /\ \A d \in DraftIds : draft[d].status = "ABSENT" => draft[d].items = {}
  /\ \A d \in DraftIds : \A v \in draft[d].items : draft[d].mode \in opened[v]
  /\ \A v \in Clips : row[v] # Nothing => row[v] \in opened[v]

\* Nothing that was sent, stored or collected is lost.
Keeps ==
  /\ \A u \in Updates : wire[u] # "unsent" => wire'[u] # "unsent"
  /\ \A v \in Clips : opened[v] \subseteq opened'[v]
  /\ \A v \in Clips : row[v] # Nothing => row'[v] = row[v]
  /\ \A d \in DraftIds : /\ draft[d].items \subseteq draft'[d].items
                         /\ draft[d].items # {} => draft'[d].mode = draft[d].mode

LEMMA KeepsSame == UNCHANGED <<wire, opened, row, draft>> => Keeps
BY DEF Keeps

LEMMA DoneKeeps ==
  ASSUME UploadTypeOK, NEW h \in Handlers, Done(h), UNCHANGED <<opened, row, draft>>
  PROVE  Keeps
BY DEF UploadTypeOK, Done, Keeps

LEMMA RowKeeps ==
  ASSUME UploadTypeOK, NEW v \in Clips, row[v] = Nothing, NEW m,
         row' = [row EXCEPT ![v] = m], UNCHANGED <<wire, opened>>,
         \A d \in DraftIds : draft'[d].items = draft[d].items /\ draft'[d].mode = draft[d].mode
  PROVE  Keeps
BY DEF UploadTypeOK, Keeps

LEMMA SessionKeeps ==
  ASSUME UploadTypeOK, Shapes, OpenedInv, NEW h \in Handlers,
         \/ close_if_active(h) \/ cancel_create_video_session(h) \/ clear_creation_state(h)
         \/ FinishesFeedback(h) \/ start_create_video_session(h) \/ OpensSession(h)
         \/ HintsAtVideo(h) \/ claim_creation_state(h) \/ ClaimFails(h) \/ SavesVideo(h)
         \/ CountsVideo(h) \/ release_creation_state(h)
  PROVE  Keeps
<1>1. CASE OpensSession(h)
  BY <1>1 DEF UploadTypeOK, OpensSession, NowOpen, Keeps
<1>2. CASE SavesVideo(h)
  <2>1. at[h].u \in Clips
    BY <1>2 DEF Shapes, Shape, SavesVideo
  <2>2. UNCHANGED <<wire, opened, draft>>
    BY <1>2 DEF SavesVideo, Quiet
  <2>3. UNCHANGED row \/ (row[at[h].u] = Nothing /\ row' = [row EXCEPT ![at[h].u] = Mode(h)])
    BY <1>2 DEF SavesVideo
  <2>. QED  BY <2>1, <2>2, <2>3, KeepsSame, RowKeeps
<1>3. CASE release_creation_state(h)
  BY <1>3, DoneKeeps DEF release_creation_state
<1>4. CASE \/ close_if_active(h) \/ cancel_create_video_session(h) \/ clear_creation_state(h)
           \/ FinishesFeedback(h) \/ start_create_video_session(h)
           \/ HintsAtVideo(h) \/ claim_creation_state(h) \/ ClaimFails(h) \/ CountsVideo(h)
  <2>1. UNCHANGED <<wire, opened, row, draft>>
    BY <1>4 DEF close_if_active, cancel_create_video_session, clear_creation_state,
                FinishesFeedback, start_create_video_session, HintsAtVideo,
                claim_creation_state, ClaimFails, CountsVideo, Quiet, data
  <2>. QED  BY <2>1, KeepsSame
<1>. QED  BY <1>1, <1>2, <1>3, <1>4

LEMMA CollectionKeeps ==
  ASSUME UploadTypeOK, Shapes, OpenedInv, NEW h \in Handlers,
         \/ LocksBot(h) \/ ReadsTarget(h) \/ CancelsDraft(h) \/ BeginsCollection(h)
         \/ receive(h) \/ finish(h) \/ PublishesDraft(h) \/ DeadlockAborts(h)
  PROVE  Keeps
<1>1. CASE LocksBot(h) \/ ReadsTarget(h) \/ finish(h) \/ DeadlockAborts(h)
  <2>1. UNCHANGED <<wire, opened, row, draft>>
    BY <1>1 DEF LocksBot, ReadsTarget, finish, DeadlockAborts, Quiet, data
  <2>. QED  BY <2>1, KeepsSame
<1>2. CASE CancelsDraft(h)
  BY <1>2, CancelledIs DEF CancelsDraft, Quiet, Keeps
<1>3. CASE BeginsCollection(h)
  <2>1. \A d \in DraftIds : draft[d].status = "ABSENT" => draft[d].items = {}
    BY DEF OpenedInv
  <2>2. \A d \in DraftIds : /\ draft[d].items \subseteq draft'[d].items
                            /\ draft[d].items # {} => draft'[d].mode = draft[d].mode
    BY <1>3, <2>1, BegunIs
  <2>. QED  BY <1>3, <2>2 DEF UploadTypeOK, BeginsCollection, NowOpen, Keeps
<1>4. CASE receive(h)
  <2>1. \A e \in DraftIds : /\ draft[e].items \subseteq draft'[e].items
                            /\ draft'[e].mode = draft[e].mode
    BY <1>4, ReceivedIs
  <2>. QED  BY <1>4, <2>1 DEF receive, Quiet, Keeps
<1>5. CASE PublishesDraft(h)
  <2>. DEFINE d == at[h].target  v == First(d)
  <2>1. d \in DraftIds /\ draft[d].items # {}
    <3>1. at[h].pc = "holding" /\ Shape(h)
      BY <1>5 DEF PublishesDraft, Shapes
    <3>. QED  BY <3>1, HandlerIs DEF Shape
  <2>2. v \in Clips
    BY <2>1, FirstIs, DraftIs
  <2>3. UNCHANGED <<wire, opened>>
    BY <1>5 DEF PublishesDraft
  <2>4. CASE row[v] = Nothing
    <3>1. /\ row' = [row EXCEPT ![v] = draft[d].mode]
          /\ draft' = [draft EXCEPT ![d].status = "PUBLISHED"]
      BY <1>5, <2>4 DEF PublishesDraft
    <3>2. \A e \in DraftIds : draft'[e].items = draft[e].items /\ draft'[e].mode = draft[e].mode
      BY <2>1, <3>1, StatusIs DEF DraftStatuses
    <3>. HIDE DEF v
    <3>. QED  BY <2>2, <2>3, <2>4, <3>1, <3>2, RowKeeps
  <2>5. CASE row[v] # Nothing
    <3>1. UNCHANGED <<row, draft>>
      BY <1>5, <2>5 DEF PublishesDraft
    <3>. QED  BY <2>3, <3>1, KeepsSame
  <2>. QED  BY <2>4, <2>5
<1>. QED  BY <1>1, <1>2, <1>3, <1>4, <1>5

LEMMA OutsideKeeps ==
  ASSUME UploadTypeOK, OpenedInv,
         \/ \E h \in Handlers :
              \/ Routes(h) \/ RoutesTo(h, "link", "LINK_ONLY")
              \/ RoutesTo(h, "normal", "PUBLISHED") \/ Answers(h)
              \/ RoleRaises(h) \/ HandlerRaises(h) \/ ProcessDies(h)
              \/ \E u \in Updates : Sends(h, u) \/ Resends(h, u)
         \/ \E m \in Modes : SessionExpires(m)
         \/ \E d \in DraftIds : DraftExpires(d)
         \/ SponsorChanges \/ Rests \/ UNCHANGED uploadVars
  PROVE  Keeps
<1>1. ASSUME NEW h \in Handlers, Answers(h) PROVE Keeps
  BY <1>1, DoneKeeps DEF Answers, data
<1>2. ASSUME NEW h \in Handlers, NEW u \in Updates, Sends(h, u) PROVE Keeps
  <2>1. \A v \in Clips : opened[v] \subseteq opened'[v]
    <3>1. u \in Clips => opened[u] = {}
      BY <1>2 DEF OpenedInv, Sends
    <3>. QED  BY <1>2, <3>1 DEF UploadTypeOK, Sends
  <2>. QED  BY <1>2, <2>1 DEF UploadTypeOK, Sends, data, Keeps
<1>3. ASSUME NEW h \in Handlers, NEW u \in Updates, Resends(h, u) PROVE Keeps
  BY <1>3 DEF UploadTypeOK, Resends, data, Keeps
<1>4. ASSUME NEW d \in DraftIds, DraftExpires(d) PROVE Keeps
  BY <1>4, StatusIs DEF DraftExpires, DraftStatuses, Quiet, Keeps
<1>5. CASE \/ \E h \in Handlers :
                \/ Routes(h) \/ RoutesTo(h, "link", "LINK_ONLY")
                \/ RoutesTo(h, "normal", "PUBLISHED")
                \/ RoleRaises(h) \/ HandlerRaises(h) \/ ProcessDies(h)
           \/ \E m \in Modes : SessionExpires(m)
           \/ SponsorChanges \/ Rests \/ UNCHANGED uploadVars
  <2>1. UNCHANGED <<wire, opened, row, draft>>
    BY <1>5 DEF Routes, RoutesTo, RoleRaises, HandlerRaises, ProcessDies, SessionExpires,
                SponsorChanges, Rests, uploadVars, Quiet, data
  <2>. QED  BY <2>1, KeepsSame
<1>. QED  BY <1>1, <1>2, <1>3, <1>4, <1>5

LEMMA TakenStill ==
  ASSUME UploadTypeOK, Keeps, NEW v \in Clips, Taken(v)
  PROVE  Taken(v)'
<1>1. CASE row[v] \in opened[v]
  <2>1. row[v] # Nothing
    BY <1>1, Distinct DEF UploadTypeOK
  <2>. QED  BY <1>1, <2>1 DEF Keeps, Taken
<1>2. CASE \E d \in DraftIds : v \in draft[d].items /\ draft[d].mode \in opened[v]
  BY <1>2 DEF Keeps, Taken
<1>. QED  BY <1>1, <1>2 DEF Taken

LEMMA ShapeStill ==
  ASSUME UploadTypeOK, Keeps, NEW g \in Handlers, Shape(g), at'[g] = at[g]
  PROVE  Shape(g)'
<1>1. Doing(g)' = Doing(g) /\ Mode(g)' = Mode(g)
  BY DEF Doing, Mode
<1>2. at[g].u \in Clips => Intake(g)'
  <2>. SUFFICES ASSUME at[g].u \in Clips, Intake(g) PROVE Intake(g)'
    BY DEF Shape
  <2>1. Taken(at[g].u) => Taken(at[g].u)'
    BY TakenStill
  <2>2. row[at[g].u] # Nothing => row'[at[g].u] # Nothing
    BY DEF Keeps
  <2>3. opened[at[g].u] \subseteq opened'[at[g].u]
    BY DEF Keeps
  <2>. QED  BY <1>1, <2>1, <2>2, <2>3 DEF Intake, Taken
<1>3. at[g].pc = "holding" => draft'[at[g].target].items # {}
  <2>. SUFFICES ASSUME at[g].pc = "holding" PROVE draft'[at[g].target].items # {}
    OBVIOUS
  <2>1. at[g].target \in DraftIds /\ draft[at[g].target].items # {}
    BY HandlerIs DEF Shape
  <2>. QED  BY <2>1 DEF Keeps
<1>4. at[g].u \in Updates /\ wire[at[g].u] # "unsent" => wire'[at[g].u] # "unsent"
  BY DEF Keeps
<1>. QED  BY <1>2, <1>3, <1>4 DEF Shape

----------------------------------------------------------------------------
(* What the handler that moves has in hand afterwards.                      *)

LEMMA FreeShape ==
  ASSUME UploadTypeOK, NEW h \in Handlers, at' = [at EXCEPT ![h] = NoUpdate]
  PROVE  Shape(h)'
<1>1. at'[h].pc = "idle" /\ at'[h].u = Nothing
  BY FreedIs
<1>. QED  BY <1>1, Distinct DEF Shape, Within

\* A handler that is inside of an operation a video never has has no video.
LEMMA NotClip ==
  ASSUME UploadTypeOK, NEW h \in Handlers, Shape(h), at[h].pc \in Within,
         ~(Doing(h) = "take" /\ at[h].pc \in {"op", "look", "claimed", "stored", "counted"}),
         ~(Doing(h) = "collect" /\ at[h].pc \in {"op", "row"})
  PROVE  at[h].u \in Updates \ Clips /\ at[h].todo # <<>> /\ wire[at[h].u] # "unsent"
BY DEF Shape, Intake, Within

\* What is not a video goes on to the next operation, or inside of this one.
LEMMA ProceedShape ==
  ASSUME UploadTypeOK, Keeps, NEW h \in Handlers, at[h].u \in Updates \ Clips,
         at[h].todo # <<>>, wire[at[h].u] # "unsent", Proceed(h)
  PROVE  Shape(h)'
<1>1. /\ at'[h].u = at[h].u /\ at'[h].pc \in {"op", "reply"}
      /\ at'[h].pc = "op" => at'[h].todo # <<>>
  BY ProceedIs
<1>2. wire'[at[h].u] # "unsent"
  BY DEF Keeps
<1>. QED  BY <1>1, <1>2 DEF Shape, Within

LEMMA GoShape ==
  ASSUME UploadTypeOK, Keeps, NEW h \in Handlers, at[h].u \in Updates \ Clips,
         at[h].todo # <<>>, wire[at[h].u] # "unsent",
         NEW place \in {"op", "wait", "clear", "finish", "restart", "reset", "locked", "row",
                     "reply"}, Go(h, place)
  PROVE  Shape(h)'
<1>1. at'[h].u = at[h].u /\ at'[h].pc = place /\ at'[h].todo = at[h].todo
  BY GoIs DEF Places
<1>2. wire'[at[h].u] # "unsent"
  BY DEF Keeps
<1>. QED  BY <1>1, <1>2 DEF Shape, Within

\* A video goes on in its only operation.
LEMMA VideoShape ==
  ASSUME UploadTypeOK, Keeps, NEW h \in Handlers, Shape(h),
         at[h].u \in Clips, at[h].pc \in Within, Doing(h) = "take",
         NEW place \in {"op", "look", "claimed", "stored", "counted", "reply", "refuse"}, Go(h, place),
         place = "claimed" => Mode(h) \in opened[at[h].u],
         place \in {"stored", "counted"} => row'[at[h].u] # Nothing,
         NEW v, v = at[h].u, place = "reply" => Taken(v)'
  PROVE  Shape(h)'
<1>1. at'[h].u = at[h].u /\ at'[h].pc = place /\ at'[h].todo = at[h].todo
  BY GoIs DEF Places
<1>2. /\ wire[at[h].u] # "unsent" /\ at[h].u \in Updates
      /\ at[h].todo # <<>> /\ Len(at[h].todo) = 1
  BY DEF Shape, Intake, Within
<1>3. Doing(h)' = Doing(h) /\ Mode(h)' = Mode(h)
  BY <1>1 DEF Doing, Mode
<1>4. wire'[at[h].u] # "unsent" /\ opened[at[h].u] \subseteq opened'[at[h].u]
  BY <1>2 DEF Keeps
<1>5. place = "reply" => Taken(at[h].u)'
  BY <1>1 DEF Taken
<1>6. Intake(h)'
  BY <1>1, <1>2, <1>3, <1>4, <1>5 DEF Intake, Within
<1>. QED  BY <1>1, <1>2, <1>4, <1>6 DEF Shape

LEMMA SessionShape ==
  ASSUME UploadTypeOK, Shapes, OpenedInv, Keeps, NEW h \in Handlers,
         \/ close_if_active(h) \/ cancel_create_video_session(h) \/ clear_creation_state(h)
         \/ FinishesFeedback(h) \/ start_create_video_session(h) \/ OpensSession(h)
         \/ HintsAtVideo(h)
  PROVE  Shape(h)'
<1>1. Shape(h)
  BY DEF Shapes
<1>2. /\ at[h].pc \in Within
      /\ \/ at[h].pc \in {"wait", "clear", "finish", "restart", "reset"}
         \/ at[h].pc = "op" /\ Doing(h) \in {"close", "cancel", "open"}
         \/ at[h].pc = "op" /\ Doing(h) = "take" /\ at[h].u \notin Clips
  BY DEF IsAt, close_if_active, cancel_create_video_session, clear_creation_state,
         FinishesFeedback, start_create_video_session, OpensSession, HintsAtVideo, Within
<1>3. at[h].u \in Updates \ Clips /\ at[h].todo # <<>> /\ wire[at[h].u] # "unsent"
  <2>1. CASE at[h].u \notin Clips
    BY <1>1, <1>2, <2>1 DEF Shape, Within
  <2>2. CASE ~(at[h].pc = "op" /\ Doing(h) = "take")
    BY <1>1, <1>2, <2>2, NotClip
  <2>. QED  BY <1>2, <2>1, <2>2
<1>4. Proceed(h) \/ \E place \in {"wait", "clear", "finish", "restart", "reset"} : Go(h, place)
  BY DEF close_if_active, cancel_create_video_session, clear_creation_state,
         FinishesFeedback, start_create_video_session, OpensSession, HintsAtVideo
<1>. QED  BY <1>3, <1>4, ProceedShape, GoShape

LEMMA IntakeShape ==
  ASSUME UploadTypeOK, Shapes, OpenedInv, Keeps, NEW h \in Handlers,
         \/ claim_creation_state(h) \/ ClaimFails(h) \/ SavesVideo(h)
         \/ CountsVideo(h) \/ release_creation_state(h)
  PROVE  Shape(h)'
<1>0. PICK v : v = at[h].u
  OBVIOUS
<1>1. Shape(h)
  BY DEF Shapes
<1>2. /\ v \in Clips /\ at[h].pc \in Within /\ Doing(h) = "take" /\ wire[v] # "unsent"
      /\ Intake(h)
  <2>1. at[h].pc \in Within /\ v \in Clips
    BY <1>0, <1>1 DEF IsAt, claim_creation_state, ClaimFails, SavesVideo, CountsVideo,
                release_creation_state, Within, Shape
  <2>2. Intake(h) /\ wire[v] # "unsent"
    BY <1>0, <1>1, <2>1 DEF Shape, Within
  <2>3. Doing(h) = "take"
    BY <1>0, <2>1, <2>2 DEF IsAt, claim_creation_state, ClaimFails, SavesVideo, CountsVideo,
                      release_creation_state, Intake
  <2>. QED  BY <2>1, <2>2, <2>3
<1>3. Mode(h) \in Modes
  BY <1>2, Busy
<1>4. CASE claim_creation_state(h)
  <2>1. CASE session[Mode(h)] = "WAITING_FOR_VIDEO"
    <3>1. Mode(h) \in OpenModes
      BY <1>3, <2>1 DEF OpenModes, Open
    <3>2. Mode(h) \in opened[v]
      BY <1>2, <3>1 DEF OpenedInv
    <3>3. Go(h, "claimed")
      BY <1>4, <2>1 DEF claim_creation_state
    <3>. QED  BY <1>0, <1>1, <1>2, <3>2, <3>3, VideoShape
  <2>2. CASE session[Mode(h)] # "WAITING_FOR_VIDEO"
    <3>1. Go(h, "look")
      BY <1>4, <2>2 DEF claim_creation_state
    <3>. QED  BY <1>0, <1>1, <1>2, <3>1, VideoShape
  <2>. QED  BY <2>1, <2>2
<1>5. CASE ClaimFails(h)
  <2>1. Go(h, "refuse") \/ Go(h, "op") \/ at' = [at EXCEPT ![h] = NoUpdate]
    BY <1>5 DEF ClaimFails, Raise
  <2>. QED  BY <1>0, <1>1, <1>2, <2>1, VideoShape, FreeShape
<1>6. CASE SavesVideo(h)
  <2>1. CASE Go(h, "refuse")
    BY <1>0, <1>1, <1>2, <2>1, VideoShape
  <2>2. CASE Go(h, "reply") /\ row[v] # Nothing
    <3>1. Taken(v)
      BY <1>2, <2>2 DEF OpenedInv, Taken
    <3>2. Taken(v)'
      BY <1>2, <3>1, TakenStill
    <3>. QED  BY <1>0, <1>1, <1>2, <2>2, <3>2, VideoShape
  <2>3. CASE Go(h, "stored") /\ row' = [row EXCEPT ![v] = Mode(h)]
    <3>1. row'[v] # Nothing
      BY <1>2, <1>3, <2>3, Distinct DEF UploadTypeOK
    <3>. QED  BY <1>0, <1>1, <1>2, <2>3, <3>1, VideoShape
  <2>. QED  BY <1>0, <1>6, <2>1, <2>2, <2>3 DEF SavesVideo
<1>7. CASE CountsVideo(h)
  <2>1. row'[v] # Nothing
    BY <1>0, <1>2, <1>7 DEF CountsVideo, Intake, data
  <2>2. Go(h, "counted")
    BY <1>7 DEF CountsVideo
  <2>. QED  BY <1>0, <1>1, <1>2, <2>1, <2>2, VideoShape
<1>8. CASE release_creation_state(h)
  BY <1>8, FreeShape DEF release_creation_state, Done
<1>. QED  BY <1>4, <1>5, <1>6, <1>7, <1>8

LEMMA TargetIs ==
  ASSUME UploadTypeOK, NEW h \in Handlers, ReadsTarget(h)
  PROVE  /\ \A g \in Handlers \ {h} : at'[g] = at[g]
         /\ at'[h].pc = "row" /\ at'[h].u = at[h].u /\ at'[h].todo = at[h].todo
         /\ at'[h].target = Newest
<1>. DEFINE r == [at[h] EXCEPT !.pc = "row", !.target = Newest]
<1>1. /\ r \in Handler /\ r.pc = "row" /\ r.u = at[h].u /\ r.todo = at[h].todo
      /\ r.target = Newest
  BY NewestIs, HandlerIs DEF Handler, Places
<1>2. at' = [at EXCEPT ![h] = r]
  BY DEF ReadsTarget
<1>3. at'[h] = r /\ \A g \in Handlers \ {h} : at'[g] = at[g]
  <2>. HIDE DEF r
  <2>. QED  BY <1>1, <1>2, BecomesIs DEF Becomes
<1>. HIDE DEF r
<1>. QED  BY <1>1, <1>3

LEMMA CollectionShape ==
  ASSUME UploadTypeOK, Shapes, OpenedInv, Keeps, NEW h \in Handlers,
         \/ LocksBot(h) \/ ReadsTarget(h) \/ CancelsDraft(h) \/ BeginsCollection(h)
         \/ receive(h) \/ finish(h) \/ PublishesDraft(h) \/ DeadlockAborts(h)
  PROVE  Shape(h)'
<1>1. Shape(h)
  BY DEF Shapes
<1>2. CASE LocksBot(h) \/ CancelsDraft(h) \/ BeginsCollection(h)
  <2>1. at[h].pc \in {"op", "row"} /\ Doing(h) \in {"begin", "drop"}
    BY <1>2 DEF IsAt, LocksBot, CancelsDraft, BeginsCollection
  <2>2. at[h].u \in Updates \ Clips /\ at[h].todo # <<>> /\ wire[at[h].u] # "unsent"
    BY <1>1, <2>1, NotClip DEF Within
  <2>3. Proceed(h) \/ Go(h, "locked")
    BY <1>2 DEF LocksBot, CancelsDraft, BeginsCollection
  <2>. QED  BY <2>2, <2>3, ProceedShape, GoShape
<1>3. CASE ReadsTarget(h)
  <2>1. /\ at'[h].pc = "row" /\ at'[h].u = at[h].u /\ at'[h].todo = at[h].todo
    BY <1>3, TargetIs
  <2>2. at[h].pc \in Within /\ (at[h].pc = "op" => Doing(h) \in {"drop", "collect", "publish"})
        /\ at[h].pc \in {"op", "locked"}
    BY <1>3 DEF ReadsTarget, Within
  <2>3. /\ at[h].todo # <<>> /\ at[h].u \in Updates /\ wire[at[h].u] # "unsent"
        /\ at[h].u \in Clips => Len(at[h].todo) = 1 /\ Doing(h) = "collect"
    BY <1>1, <2>2 DEF Shape, Intake, Within
  <2>4. Doing(h)' = Doing(h)
    BY <2>1 DEF Doing
  <2>5. wire'[at[h].u] # "unsent"
    BY <2>3 DEF Keeps
  <2>6. at[h].u \in Clips => Intake(h)'
    BY <2>1, <2>3, <2>4 DEF Intake
  <2>. QED  BY <2>1, <2>3, <2>5, <2>6 DEF Shape
<1>4. CASE receive(h)
  <2>1. at[h].pc = "row" /\ Doing(h) = "collect" /\ at[h].pc \in Within
    BY <1>4 DEF receive, IsAt, Within
  <2>2. at[h].todo # <<>> /\ at[h].u \in Updates /\ wire[at[h].u] # "unsent"
    BY <1>1, <2>1 DEF Shape, Within
  <2>3. CASE at[h].u \notin Clips
    <3>1. Proceed(h) \/ Go(h, "reply")
      BY <1>4, <2>3 DEF receive
    <3>. QED  BY <2>2, <2>3, <3>1, ProceedShape, GoShape
  <2>4. CASE at[h].u \in Clips
    <3>1. PICK v \in Clips : v = at[h].u
      BY <2>4
    <3>2. Len(at[h].todo) = 1 /\ wire'[v] # "unsent"
      BY <1>1, <2>1, <2>2, <3>1 DEF Shape, Intake, Keeps
    <3>3. CASE StillDraft(h)
      <4>. DEFINE d == at[h].target
      <4>1. /\ d \in DraftIds /\ d \in Drafts /\ draft[d].mode \in Modes
        BY <3>3, HandlerIs, DraftIs DEF StillDraft, Drafts
      <4>2. draft[d].mode \in opened[v]
        BY <2>2, <3>1, <4>1 DEF OpenedInv, OpenModes
      <4>3. draft' = [draft EXCEPT ![d].items = @ \cup {v}] /\ Proceed(h)
        BY <1>4, <2>4, <3>1, <3>3 DEF receive
      <4>4. v \in draft'[d].items /\ draft'[d].mode = draft[d].mode
        <5>1. \A e \in DraftIds :
                /\ draft'[e].items = IF e = d THEN draft[e].items \cup {v} ELSE draft[e].items
                /\ draft'[e].mode = draft[e].mode
          BY <1>4, <2>4, <3>1, <3>3, ReceivedIs
        <5>. HIDE DEF d
        <5>. QED  BY <4>1, <5>1
      <4>5. draft[d].mode \in opened'[v]
        BY <4>2, <3>1 DEF Keeps
      <4>6. Taken(v)'
        BY <4>1, <4>4, <4>5 DEF Taken
      <4>7. at'[h].pc = "reply" /\ at'[h].u = v
        BY <2>2, <3>1, <3>2, <4>3, ProceedIs
      <4>8. Taken(at[h].u)'
        BY <4>6, <4>7 DEF Taken
      <4>9. Intake(h)'
        BY <4>7, <4>8 DEF Intake, Within
      <4>. QED  BY <2>2, <3>1, <3>2, <4>7, <4>9 DEF Shape, Within
    <3>4. CASE ~StillDraft(h)
      <4>1. Go(h, "refuse")
        BY <1>4, <2>4, <3>4 DEF receive
      <4>2. at'[h].pc = "refuse" /\ at'[h].u = v
        BY <3>1, <4>1, GoIs DEF Places
      <4>3. Intake(h)'
        BY <4>2 DEF Intake, Within
      <4>. QED  BY <2>2, <3>1, <3>2, <4>2, <4>3 DEF Shape, Within
    <3>. QED  BY <3>3, <3>4
  <2>. QED  BY <2>3, <2>4
<1>5. CASE finish(h)
  <2>1. at[h].pc = "row" /\ Doing(h) = "publish"
    BY <1>5 DEF finish, IsAt
  <2>2. at[h].u \in Updates \ Clips /\ at[h].todo # <<>> /\ wire[at[h].u] # "unsent"
    BY <1>1, <2>1, NotClip DEF Within
  <2>3. CASE StillDraft(h) /\ Complete(h)
    <3>1. Go(h, "holding")
      BY <1>5, <2>3 DEF finish
    <3>2. /\ at'[h].u = at[h].u /\ at'[h].pc = "holding" /\ at'[h].todo = at[h].todo
          /\ at'[h].target = at[h].target
      BY <3>1, GoIs DEF Places
    <3>3. at[h].target # Nothing /\ draft'[at[h].target].items # {}
      BY <1>5, <2>3 DEF finish, StillDraft, Complete, data
    <3>4. wire'[at[h].u] # "unsent"
      BY <2>2 DEF Keeps
    <3>. QED  BY <2>2, <3>2, <3>3, <3>4 DEF Shape, Within
  <2>4. CASE ~(StillDraft(h) /\ Complete(h))
    <3>1. Go(h, "reply")
      BY <1>5, <2>4 DEF finish
    <3>. QED  BY <2>2, <3>1, GoShape
  <2>. QED  BY <2>3, <2>4
<1>6. CASE PublishesDraft(h)
  <2>1. at[h].pc = "holding"
    BY <1>6 DEF PublishesDraft
  <2>2. at[h].u \in Updates \ Clips /\ at[h].todo # <<>> /\ wire[at[h].u] # "unsent"
    BY <1>1, <2>1, NotClip DEF Within
  <2>3. Proceed(h) \/ at' = [at EXCEPT ![h] = NoUpdate]
    BY <1>6 DEF PublishesDraft, Raise
  <2>. QED  BY <2>2, <2>3, ProceedShape, FreeShape
<1>7. CASE DeadlockAborts(h)
  BY <1>7, FreeShape DEF DeadlockAborts, Raise
<1>. QED  BY <1>2, <1>3, <1>4, <1>5, <1>6, <1>7

\* The first operation of a new list.
LEMMA DoShape ==
  ASSUME UploadTypeOK, Keeps, NEW h \in Handlers, at[h].u \in Updates, wire[at[h].u] # "unsent",
         NEW ops \in Seq(Ops), ops # <<>>, Do(h, ops),
         at[h].u \in Clips => Len(ops) = 1 /\ Head(ops).do \in {"take", "collect"}
  PROVE  Shape(h)'
<1>1. at'[h].pc = "op" /\ at'[h].u = at[h].u /\ at'[h].todo = ops
  BY DoIs
<1>2. wire'[at[h].u] # "unsent"
  BY DEF Keeps
<1>3. at[h].u \in Clips => Intake(h)'
  BY <1>1 DEF Intake, Doing
<1>. QED  BY <1>1, <1>2, <1>3 DEF Shape, Within

\* Outside of the operations.
LEMMA OutShape ==
  ASSUME UploadTypeOK, Keeps, NEW h \in Handlers, at[h].u \in Updates, wire[at[h].u] # "unsent",
         NEW place \in {"link", "normal", "refuse", "reply"}, Go(h, place),
         place = "refuse" => at[h].u \in Clips,
         place = "reply" => at[h].u \notin Clips
  PROVE  Shape(h)'
<1>1. at'[h].pc = place /\ at'[h].u = at[h].u
  BY GoIs DEF Places
<1>2. wire'[at[h].u] # "unsent"
  BY DEF Keeps
<1>3. at[h].u \in Clips => Intake(h)'
  BY <1>1 DEF Intake, Within
<1>. QED  BY <1>1, <1>2, <1>3 DEF Shape, Within

\* Only a video is of the kind of a video.
LEMMA KindIs ==
  ASSUME UploadTypeOK, NEW u \in Updates
  PROVE  /\ Kind(u) = "video" <=> u \in Clips
         /\ Kind(u) \in MessageKinds \cup {"video"}
<1>1. CASE u \in Clips
  BY <1>1 DEF Kind
<1>2. CASE u \notin Clips
  <2>1. u \in Commands /\ Kind(u) \in MessageKinds
    BY <1>2 DEF UploadTypeOK, Kind, Updates
  <2>2. "video" \notin MessageKinds
    BY DEF MessageKinds, Begins
  <2>. QED  BY <1>2, <2>1, <2>2
<1>. QED  BY <1>1, <1>2

LEMMA RouterShape ==
  ASSUME UploadTypeOK, Shapes, OpenedInv, Keeps, NEW h \in Handlers,
         \/ Routes(h) \/ RoutesTo(h, "link", "LINK_ONLY") \/ RoutesTo(h, "normal", "PUBLISHED")
         \/ Answers(h)
  PROVE  Shape(h)'
<1>. DEFINE k == Kind(at[h].u)
<1>1. Shape(h)
  BY DEF Shapes
<1>2. /\ at[h].u \in Updates /\ wire[at[h].u] # "unsent"
  BY <1>1 DEF Shape, Routes, RoutesTo, Answers
<1>3. k = "video" <=> at[h].u \in Clips
  BY <1>2, KindIs
<1>4. CASE Routes(h)
  <2>1. CASE k \in Begins \cup {"start"}
    <3>1. Do(h, Orders(k)) /\ at[h].u \notin Clips
      BY <1>3, <1>4, <2>1 DEF Routes, Begins
    <3>. QED  BY <1>2, <2>1, <3>1, OrdersAre, DoShape
  <2>2. CASE k \notin Begins \cup {"start"} /\ Newest # Nothing
    <3>. DEFINE o == CASE k = "done" -> Op("publish", "PUBLISHED")
                       [] k = "cancel" -> Drop
                       [] OTHER -> Op("collect", "PUBLISHED")
                r == [at[h] EXCEPT !.pc = "op", !.draft = Newest, !.thumb = draft[Newest].thumb,
                                   !.todo = <<o>>]
    <3>1. o \in Ops /\ (at[h].u \in Clips => o.do = "collect")
      BY <1>3 DEF Op, Drop, Ops, Modes
    <3>2. Newest \in DraftIds /\ draft[Newest].thumb \in BOOLEAN
      BY <2>2, NewestIs, DraftIs
    <3>3. <<o>> \in Seq(Ops) /\ <<o>> # <<>> /\ Len(<<o>>) = 1 /\ Head(<<o>>) = o
      <4>. HIDE DEF o
      <4>. QED  BY <3>1, OneOp
    <3>4. r \in Handler /\ r.pc = "op" /\ r.u = at[h].u /\ r.todo = <<o>>
      <4>. HIDE DEF o
      <4>. QED  BY <3>2, <3>3, HandlerIs DEF Handler, Places
    <3>5. at' = [at EXCEPT ![h] = r]
      BY <1>4, <2>2 DEF Routes
    <3>6. at'[h] = r
      <4>. HIDE DEF r
      <4>. QED  BY <3>4, <3>5, BecomesIs DEF Becomes
    <3>7. wire'[at[h].u] # "unsent"
      BY <1>2 DEF Keeps
    <3>. HIDE DEF r, o
    <3>8. at[h].u \in Clips => Intake(h)'
      BY <3>1, <3>3, <3>4, <3>6 DEF Intake, Doing
    <3>. QED  BY <1>2, <3>3, <3>4, <3>6, <3>7, <3>8 DEF Shape, Within
  <2>3. CASE k \notin Begins \cup {"start"} /\ Newest = Nothing
    <3>1. Go(h, IF k = "done" THEN "reply" ELSE "link")
      BY <1>4, <2>3 DEF Routes
    <3>2. \/ k = "done" /\ Go(h, "reply") /\ at[h].u \notin Clips
          \/ Go(h, "link")
      BY <1>3, <3>1
    <3>. QED  BY <1>2, <3>2, OutShape
  <2>. QED  BY <2>1, <2>2, <2>3
<1>5. ASSUME NEW place \in {"link", "normal"}, NEW m \in Modes, RoutesTo(h, place, m)
      PROVE  Shape(h)'
  <2>1. CASE Open(m)
    <3>. DEFINE o == Op(IF k = "cancel" THEN "cancel" ELSE "take", m)
    <3>1. o \in Ops /\ (at[h].u \in Clips => o.do = "take")
      BY <1>3 DEF Op, Ops
    <3>2. Do(h, <<o>>)
      BY <1>5, <2>1 DEF RoutesTo
    <3>. HIDE DEF o
    <3>. QED  BY <1>2, <3>1, <3>2, OneOp, DoShape
  <2>2. CASE ~Open(m) /\ place = "link"
    <3>1. Go(h, "normal")
      BY <1>5, <2>2 DEF RoutesTo
    <3>. QED  BY <1>2, <3>1, OutShape
  <2>3. CASE ~Open(m) /\ place = "normal" /\ k = "cancel"
    <3>1. Do(h, CloseBoth) /\ Orders("start") = CloseBoth /\ at[h].u \notin Clips
      BY <1>3, <1>5, <2>3 DEF RoutesTo, Orders
    <3>. QED  BY <1>2, <3>1, OrdersAre, DoShape
  <2>4. CASE ~Open(m) /\ place = "normal" /\ k # "cancel"
    <3>1. \/ Go(h, "refuse") /\ at[h].u \in Clips
          \/ Go(h, "reply") /\ at[h].u \notin Clips
      BY <1>3, <1>5, <2>4 DEF RoutesTo
    <3>. QED  BY <1>2, <3>1, OutShape
  <2>. QED  BY <2>1, <2>2, <2>3, <2>4
<1>6. CASE Answers(h)
  BY <1>6, FreeShape DEF Answers, Done
<1>. QED  BY <1>4, <1>5, <1>6 DEF Modes

\* An update that a handler has just been given.
LEMMA NewShape ==
  ASSUME UploadTypeOK, NEW h \in Handlers, NEW u \in Updates,
         at'[h].pc = "new", at'[h].u = u, wire'[u] # "unsent"
  PROVE  Shape(h)'
<1>1. Intake(h)'
  BY DEF Intake, Within
<1>. QED  BY <1>1 DEF Shape, Within

LEMMA Mover ==
  ASSUME UploadTypeOK, Shapes, Keeps, NEW h \in Handlers, Shape(h)',
         \A g \in Handlers \ {h} : at'[g] = at[g]
  PROVE  Shapes'
<1>1. ASSUME NEW g \in Handlers PROVE Shape(g)'
  BY ShapeStill DEF Shapes
<1>. QED  BY <1>1 DEF Shapes

\* How the handler that takes a step moves; no other does.
LEMMA HowItMoves ==
  ASSUME NEW h \in Handlers, Step(h)
  PROVE  \/ Proceed(h) \/ Raise(h) \/ Answers(h) \/ release_creation_state(h)
         \/ \E place : Go(h, place)
         \/ \E ops : Do(h, ops)
         \/ ReadsTarget(h)
         \/ \E o : at' = [at EXCEPT ![h] = [@ EXCEPT !.pc = "op", !.draft = Newest,
                                    !.thumb = draft[Newest].thumb, !.todo = <<o>>]]
<1>1. CASE \/ Routes(h) \/ RoutesTo(h, "link", "LINK_ONLY") \/ RoutesTo(h, "normal", "PUBLISHED")
           \/ Answers(h)
  <2>1. CASE Routes(h)
    <3>. DEFINE k == Kind(at[h].u)
    <3>1. CASE k \in Begins \cup {"start"}
      BY <2>1, <3>1 DEF Routes
    <3>2. CASE k \notin Begins \cup {"start"} /\ Newest # Nothing
      BY <2>1, <3>2 DEF Routes
    <3>3. CASE k \notin Begins \cup {"start"} /\ Newest = Nothing
      BY <2>1, <3>3 DEF Routes
    <3>. QED  BY <3>1, <3>2, <3>3
  <2>2. CASE RoutesTo(h, "link", "LINK_ONLY") \/ RoutesTo(h, "normal", "PUBLISHED")
    BY <2>2 DEF RoutesTo
  <2>. QED  BY <1>1, <2>1, <2>2
<1>2. CASE \/ close_if_active(h) \/ cancel_create_video_session(h) \/ clear_creation_state(h)
           \/ FinishesFeedback(h) \/ start_create_video_session(h) \/ OpensSession(h)
           \/ HintsAtVideo(h)
  BY <1>2 DEF close_if_active, cancel_create_video_session, clear_creation_state,
              FinishesFeedback, start_create_video_session, OpensSession, HintsAtVideo
<1>3. CASE \/ claim_creation_state(h) \/ ClaimFails(h) \/ SavesVideo(h)
           \/ CountsVideo(h) \/ release_creation_state(h)
  BY <1>3 DEF claim_creation_state, ClaimFails, SavesVideo, CountsVideo
<1>4. CASE \/ LocksBot(h) \/ ReadsTarget(h) \/ CancelsDraft(h) \/ BeginsCollection(h)
           \/ receive(h) \/ finish(h) \/ PublishesDraft(h) \/ DeadlockAborts(h)
  BY <1>4 DEF LocksBot, CancelsDraft, BeginsCollection, receive, finish, PublishesDraft,
              DeadlockAborts
<1>. QED  BY <1>1, <1>2, <1>3, <1>4 DEF Step

LEMMA OthersStay ==
  ASSUME UploadTypeOK, NEW h \in Handlers, NEW g \in Handlers \ {h},
         \/ Step(h) \/ RoleRaises(h) \/ HandlerRaises(h) \/ ProcessDies(h)
         \/ \E u \in Updates : Sends(h, u) \/ Resends(h, u)
  PROVE  at'[g] = at[g]
<1>1. at \in [Handlers -> Handler]
  BY DEF UploadTypeOK
<1>2. CASE Step(h)
  BY <1>1, <1>2, HowItMoves
      DEF Proceed, Go, Do, ReadsTarget, Raise, Answers, release_creation_state, Done
<1>3. CASE \/ RoleRaises(h) \/ HandlerRaises(h) \/ ProcessDies(h)
           \/ \E u \in Updates : Sends(h, u) \/ Resends(h, u)
  BY <1>1, <1>3 DEF RoleRaises, HandlerRaises, ProcessDies, Sends, Resends, Raise
<1>. QED  BY <1>2, <1>3

LEMMA StepKeeps ==
  ASSUME UploadTypeOK, Shapes, OpenedInv, [UploadNext]_uploadVars
  PROVE  Keeps
<1>1. ASSUME NEW h \in Handlers, Step(h) PROVE Keeps
  BY <1>1, SessionKeeps, CollectionKeeps, OutsideKeeps DEF Step
<1>. QED  BY <1>1, OutsideKeeps DEF UploadNext

LEMMA StepShapes ==
  ASSUME UploadTypeOK, Shapes, OpenedInv, [UploadNext]_uploadVars
  PROVE  Shapes'
<1>1. Keeps
  BY StepKeeps
<1>2. ASSUME NEW h \in Handlers,
             \/ Step(h) \/ RoleRaises(h) \/ HandlerRaises(h) \/ ProcessDies(h)
             \/ \E u \in Updates : Sends(h, u) \/ Resends(h, u)
      PROVE  Shapes'
  <2>1. \A g \in Handlers \ {h} : at'[g] = at[g]
    BY <1>2, OthersStay
  <2>2. CASE Step(h)
    <3>1. Shape(h)'
      BY <1>1, <2>2, SessionShape, IntakeShape, CollectionShape, RouterShape DEF Step
    <3>. QED  BY <1>1, <2>1, <3>1, Mover
  <2>3. CASE RoleRaises(h) \/ HandlerRaises(h) \/ ProcessDies(h)
    <3>1. Shape(h)'
      BY <2>3, FreeShape DEF RoleRaises, HandlerRaises, ProcessDies, Raise
    <3>. QED  BY <1>1, <2>1, <3>1, Mover
  <2>4. ASSUME NEW u \in Updates, Sends(h, u) \/ Resends(h, u) PROVE Shapes'
    <3>1. CASE UNCHANGED at
      <4>1. Shape(h)'
        BY <1>1, <3>1, ShapeStill DEF Shapes
      <4>. QED  BY <1>1, <2>1, <4>1, Mover
    <3>2. CASE at' = [at EXCEPT ![h].pc = "new", ![h].u = u]
      <4>1. at'[h].pc = "new" /\ at'[h].u = u
        BY <3>2, ServesIs
      <4>2. wire'[u] # "unsent"
        BY <2>4 DEF UploadTypeOK, Sends, Resends
      <4>3. Shape(h)'
        BY <4>1, <4>2, NewShape
      <4>. QED  BY <1>1, <2>1, <4>3, Mover
    <3>. QED  BY <2>4, <3>1, <3>2 DEF Sends, Resends
  <2>. QED  BY <1>2, <2>2, <2>3, <2>4
<1>3. CASE UNCHANGED at
  BY <1>1, <1>3, ShapeStill DEF Shapes
<1>. QED  BY <1>2, <1>3
     DEF UploadNext, SessionExpires, DraftExpires, SponsorChanges, Rests, uploadVars

----------------------------------------------------------------------------
(* The modes that have been open.                                           *)

LEMMA OpenedSame ==
  ASSUME OpenedInv, UNCHANGED <<wire, session, draft, row, opened>>
  PROVE  OpenedInv'
BY DEF OpenedInv, OpenModes, Open, Drafts

\* Nothing is opened, sent or stored.
LEMMA OpenedStill ==
  ASSUME UploadTypeOK, OpenedInv, UNCHANGED <<opened, row>>,
         \A v \in Clips : wire'[v] = "unsent" <=> wire[v] = "unsent",
         \A m \in Modes : session'[m] # "NONE" => session[m] # "NONE",
         \A d \in DraftIds :
           /\ draft'[d].items = draft[d].items /\ draft'[d].mode = draft[d].mode
           /\ draft'[d].status = "DRAFT" => draft[d].status = "DRAFT"
           /\ draft'[d].status = "ABSENT" => draft[d].status = "ABSENT"
  PROVE  OpenedInv'
<1>1. OpenModes' \subseteq OpenModes
  BY DEF OpenModes, Open, Drafts
<1>. QED  BY <1>1 DEF OpenedInv

\* A mode that is opened is noted for every video that was sent.
LEMMA OpenedMore ==
  ASSUME UploadTypeOK, OpenedInv, NEW m \in Modes, NowOpen(m), UNCHANGED <<wire, row>>,
         OpenModes' \subseteq OpenModes \cup {m},
         \A d \in DraftIds :
           /\ draft'[d].status = "ABSENT" => draft'[d].items = {}
           /\ draft'[d].items # {} => /\ draft'[d].items = draft[d].items
                                      /\ draft'[d].mode = draft[d].mode
  PROVE  OpenedInv'
<1>1. \A v \in Clips : /\ opened[v] \subseteq opened'[v]
                       /\ wire[v] # "unsent" => m \in opened'[v]
                       /\ wire[v] = "unsent" => opened'[v] = opened[v]
  BY DEF UploadTypeOK, NowOpen
<1>2. \A d \in DraftIds : \A v \in draft'[d].items : draft'[d].mode \in opened'[v]
  BY <1>1, DraftIs DEF OpenedInv
<1>. QED  BY <1>1, <1>2 DEF OpenedInv

LEMMA SessionOpened ==
  ASSUME UploadTypeOK, Shapes, OpenedInv, NEW h \in Handlers,
         \/ close_if_active(h) \/ cancel_create_video_session(h) \/ clear_creation_state(h)
         \/ FinishesFeedback(h) \/ start_create_video_session(h) \/ OpensSession(h)
         \/ HintsAtVideo(h) \/ claim_creation_state(h) \/ ClaimFails(h) \/ SavesVideo(h)
         \/ CountsVideo(h) \/ release_creation_state(h)
  PROVE  OpenedInv'
<1>1. CASE \/ close_if_active(h) \/ cancel_create_video_session(h) \/ FinishesFeedback(h)
           \/ start_create_video_session(h) \/ HintsAtVideo(h) \/ ClaimFails(h) \/ CountsVideo(h)
  <2>1. UNCHANGED <<wire, session, draft, row, opened>>
    BY <1>1 DEF close_if_active, cancel_create_video_session, FinishesFeedback,
                start_create_video_session, HintsAtVideo, ClaimFails, CountsVideo, Quiet, data
  <2>. QED  BY <2>1, OpenedSame
<1>2. CASE clear_creation_state(h)
  BY <1>2, OpenedStill DEF UploadTypeOK, clear_creation_state, Quiet
<1>3. CASE OpensSession(h)
  <2>1. Mode(h) \in Modes
    BY <1>3, Busy DEF OpensSession, Within
  <2>2. /\ UNCHANGED <<wire, row, draft>> /\ NowOpen(Mode(h))
        /\ session' = [session EXCEPT ![Mode(h)] = "WAITING_FOR_VIDEO"]
    BY <1>3 DEF OpensSession
  <2>3. OpenModes' \subseteq OpenModes \cup {Mode(h)}
    BY <2>1, <2>2 DEF UploadTypeOK, OpenModes, Open, Drafts
  <2>4. \A d \in DraftIds : draft[d].status = "ABSENT" => draft[d].items = {}
    BY DEF OpenedInv
  <2>. QED  BY <2>1, <2>2, <2>3, <2>4, OpenedMore
<1>4. CASE claim_creation_state(h)
  BY <1>4, OpenedStill DEF UploadTypeOK, claim_creation_state, Quiet
<1>5. CASE SavesVideo(h)
  <2>. DEFINE v == at[h].u  m == Mode(h)
  <2>1. at[h].pc = "claimed" /\ at[h].pc \in Within /\ Shape(h)
    BY <1>5 DEF SavesVideo, Within, Shapes
  <2>2. v \in Clips /\ m \in Modes /\ m \in opened[v]
    BY <2>1, Busy DEF Shape, Intake
  <2>3. CASE UNCHANGED row
    <3>1. \A x \in Modes : session'[x] # "NONE" => session[x] # "NONE"
      BY <1>5, <2>3 DEF UploadTypeOK, SavesVideo, ReleasesTo
    <3>. QED  BY <1>5, <2>3, <3>1, OpenedStill DEF SavesVideo, Quiet
  <2>4. CASE row' = [row EXCEPT ![v] = m] /\ UNCHANGED session
    <3>1. UNCHANGED <<wire, opened, draft, session>>
      BY <1>5, <2>4 DEF SavesVideo, Quiet
    <3>2. \A x \in Clips : row'[x] # Nothing => row'[x] \in opened'[x]
      BY <2>2, <2>4, <3>1 DEF UploadTypeOK, OpenedInv
    <3>3. OpenModes' = OpenModes
      BY <3>1 DEF OpenModes, Open, Drafts
    <3>. QED  BY <3>1, <3>2, <3>3 DEF OpenedInv
  <2>. QED  BY <1>5, <2>3, <2>4 DEF SavesVideo
<1>6. CASE CountsVideo(h) \/ release_creation_state(h)
  <2>1. CASE release_creation_state(h)
    <3>1. at[h].u \in Updates /\ wire[at[h].u] # "unsent"
      BY <2>1 DEF release_creation_state, Shapes, Shape
    <3>2. \A v \in Clips : wire'[v] = "unsent" <=> wire[v] = "unsent"
      BY <2>1, <3>1 DEF UploadTypeOK, release_creation_state, Done, Updates
    <3>3. \A x \in Modes : session'[x] # "NONE" => session[x] # "NONE"
      BY <2>1 DEF UploadTypeOK, release_creation_state, ReleasesTo
    <3>. QED  BY <2>1, <3>2, <3>3, OpenedStill DEF release_creation_state
  <2>. QED  BY <1>1, <1>6, <2>1
<1>. QED  BY <1>1, <1>2, <1>3, <1>4, <1>5, <1>6

LEMMA CollectionOpened ==
  ASSUME UploadTypeOK, Shapes, OpenedInv, NEW h \in Handlers,
         \/ LocksBot(h) \/ ReadsTarget(h) \/ CancelsDraft(h) \/ BeginsCollection(h)
         \/ receive(h) \/ finish(h) \/ PublishesDraft(h) \/ DeadlockAborts(h)
  PROVE  OpenedInv'
<1>1. CASE LocksBot(h) \/ ReadsTarget(h) \/ finish(h) \/ DeadlockAborts(h)
  <2>1. UNCHANGED <<wire, session, draft, row, opened>>
    BY <1>1 DEF LocksBot, ReadsTarget, finish, DeadlockAborts, Quiet, data
  <2>. QED  BY <2>1, OpenedSame
<1>2. CASE CancelsDraft(h)
  <2>1. \A d \in DraftIds :
          /\ draft'[d].items = draft[d].items /\ draft'[d].mode = draft[d].mode
          /\ draft'[d].status = "DRAFT" => draft[d].status = "DRAFT"
          /\ draft'[d].status = "ABSENT" => draft[d].status = "ABSENT"
    BY <1>2, CancelledIs DEF CancelsDraft
  <2>. QED  BY <1>2, <2>1, OpenedStill DEF CancelsDraft, Quiet
<1>3. CASE BeginsCollection(h)
  <2>1. PICK d \in DraftIds :
              /\ draft[d].status = "ABSENT"
              /\ draft'[d] = NewDraft(Mode(h))
              /\ \A e \in DraftIds \ {d} :
                   /\ draft'[e].items = draft[e].items /\ draft'[e].mode = draft[e].mode
                   /\ draft'[e].status = IF StillDraft(h) /\ e = at[h].target THEN "CANCELLED"
                                         ELSE draft[e].status
    BY <1>3, BegunIs
  <2>2. Mode(h) \in Modes
    BY <1>3, BegunIs
  <2>3. draft'[d].items = {} /\ draft'[d].mode = Mode(h) /\ draft'[d].status = "DRAFT"
    BY <2>1, <2>2, NewRow
  <2>4. OpenModes' \subseteq OpenModes \cup {Mode(h)}
    <3>1. UNCHANGED session
      BY <1>3 DEF BeginsCollection
    <3>2. \A e \in DraftIds \ {d} : draft'[e].status = "DRAFT" => draft[e].status = "DRAFT"
      BY <2>1
    <3>. QED  BY <2>1, <2>3, <3>1, <3>2 DEF OpenModes, Open, Drafts
  <2>5. \A e \in DraftIds :
          /\ draft'[e].status = "ABSENT" => draft'[e].items = {}
          /\ draft'[e].items # {} => /\ draft'[e].items = draft[e].items
                                     /\ draft'[e].mode = draft[e].mode
    BY <2>1, <2>3 DEF OpenedInv
  <2>. QED  BY <1>3, <2>2, <2>4, <2>5, OpenedMore DEF BeginsCollection
<1>4. CASE receive(h)
  <2>. DEFINE d == at[h].target
  <2>1. StillDraft(h) => d \in DraftIds
    BY HandlerIs DEF StillDraft
  <2>2. UNCHANGED <<wire, session, row, opened>>
    BY <1>4 DEF receive, Quiet
  <2>3. CASE StillDraft(h) /\ at[h].u \in Clips
    <3>1. PICK v \in Clips : v = at[h].u
      BY <2>3
    <3>3. \A e \in DraftIds :
            /\ draft'[e].items = IF e = d THEN draft[e].items \cup {v} ELSE draft[e].items
            /\ draft'[e].mode = draft[e].mode /\ draft'[e].status = draft[e].status
      BY <1>4, <2>3, <3>1, ReceivedIs
    <3>4. draft[d].mode \in opened[v] /\ draft[d].status = "DRAFT"
      <4>1. draft[d].status = "DRAFT" /\ draft[d].mode \in OpenModes
        BY <2>1, <2>3, DraftIs DEF StillDraft, Drafts, OpenModes
      <4>2. wire[v] # "unsent"
        BY <1>4, <3>1 DEF Shapes, Shape, receive, IsAt
      <4>3. OpenModes \subseteq opened[v]
        BY <3>1, <4>2 DEF OpenedInv
      <4>. QED  BY <4>1, <4>3
    <3>5. OpenModes' \subseteq OpenModes
      <4>1. /\ \A e \in DraftIds : /\ draft'[e].mode = draft[e].mode
                                    /\ draft'[e].status = draft[e].status
            /\ UNCHANGED session
        BY <2>2, <3>3
      <4>. QED  BY <4>1 DEF OpenModes, Open, Drafts
    <3>6. ASSUME NEW e \in DraftIds, NEW x \in draft'[e].items
          PROVE  draft'[e].mode \in opened'[x]
      <4>1. x \in draft[e].items \/ (e = d /\ x = v)
        BY <3>3
      <4>2. CASE x \in draft[e].items
        BY <2>2, <3>3, <4>2 DEF OpenedInv
      <4>3. CASE e = d /\ x = v
        <5>. HIDE DEF d
        <5>. QED  BY <2>2, <3>3, <3>4, <4>3
      <4>. QED  BY <4>1, <4>2, <4>3
    <3>7. \A e \in DraftIds : draft'[e].status = "ABSENT" => draft'[e].items = {}
      BY <3>3, <3>4 DEF OpenedInv
    <3>. QED  BY <2>2, <3>5, <3>6, <3>7 DEF OpenedInv
  <2>4. CASE StillDraft(h) /\ at[h].u \notin Clips
    <3>1. \A e \in DraftIds :
            /\ draft'[e].items = draft[e].items /\ draft'[e].mode = draft[e].mode
            /\ draft'[e].status = draft[e].status
      BY <1>4, <2>4, ReceivedIs
    <3>. QED  BY <2>2, <3>1, OpenedStill
  <2>5. CASE ~StillDraft(h)
    <3>1. UNCHANGED draft
      BY <1>4, <2>5 DEF receive
    <3>. QED  BY <2>2, <3>1, OpenedSame
  <2>. QED  BY <2>3, <2>4, <2>5
<1>5. CASE PublishesDraft(h)
  <2>. DEFINE d == at[h].target  v == First(d)
  <2>1. d \in DraftIds /\ draft[d].items # {}
    <3>1. at[h].pc = "holding" /\ Shape(h)
      BY <1>5 DEF PublishesDraft, Shapes
    <3>. QED  BY <3>1, HandlerIs DEF Shape
  <2>2. v \in Clips /\ draft[d].mode \in opened[v]
    BY <2>1, FirstIs, DraftIs DEF OpenedInv
  <2>3. UNCHANGED <<wire, session, opened>>
    BY <1>5 DEF PublishesDraft
  <2>4. CASE row[v] = Nothing
    <3>1. /\ row' = [row EXCEPT ![v] = draft[d].mode]
          /\ draft' = [draft EXCEPT ![d].status = "PUBLISHED"]
      BY <1>5, <2>4 DEF PublishesDraft
    <3>2. \A e \in DraftIds :
            /\ draft'[e].items = draft[e].items /\ draft'[e].mode = draft[e].mode
            /\ draft'[e].status = "DRAFT" => draft[e].status = "DRAFT"
            /\ draft'[e].status = "ABSENT" => draft[e].status = "ABSENT"
      BY <2>1, <3>1, StatusIs DEF DraftStatuses
    <3>3. \A x \in Clips : row'[x] # Nothing => row'[x] \in opened'[x]
      <4>. HIDE DEF v
      <4>. QED  BY <2>2, <2>3, <3>1 DEF UploadTypeOK, OpenedInv
    <3>4. OpenModes' \subseteq OpenModes
      BY <2>3, <3>2 DEF OpenModes, Open, Drafts
    <3>. QED  BY <2>3, <3>2, <3>3, <3>4 DEF OpenedInv
  <2>5. CASE row[v] # Nothing
    <3>1. UNCHANGED <<row, draft>>
      BY <1>5, <2>5 DEF PublishesDraft
    <3>. QED  BY <2>3, <3>1, OpenedSame
  <2>. QED  BY <2>4, <2>5
<1>. QED  BY <1>1, <1>2, <1>3, <1>4, <1>5

LEMMA OutsideOpened ==
  ASSUME UploadTypeOK, Shapes, OpenedInv,
         \/ \E h \in Handlers :
              \/ Routes(h) \/ RoutesTo(h, "link", "LINK_ONLY")
              \/ RoutesTo(h, "normal", "PUBLISHED") \/ Answers(h)
              \/ RoleRaises(h) \/ HandlerRaises(h) \/ ProcessDies(h)
              \/ \E u \in Updates : Sends(h, u) \/ Resends(h, u)
         \/ \E m \in Modes : SessionExpires(m)
         \/ \E d \in DraftIds : DraftExpires(d)
         \/ SponsorChanges \/ Rests \/ UNCHANGED uploadVars
  PROVE  OpenedInv'
<1>1. ASSUME NEW h \in Handlers, Answers(h) PROVE OpenedInv'
  <2>1. at[h].u \in Updates /\ wire[at[h].u] # "unsent"
    BY <1>1 DEF Answers, Shapes, Shape
  <2>2. \A v \in Clips : wire'[v] = "unsent" <=> wire[v] = "unsent"
    BY <1>1, <2>1 DEF UploadTypeOK, Answers, Done, Updates
  <2>. QED  BY <1>1, <2>2, OpenedStill DEF Answers, data
<1>2. ASSUME NEW h \in Handlers, NEW u \in Updates, Sends(h, u) PROVE OpenedInv'
  <2>1. /\ UNCHANGED <<session, draft, row>>
        /\ wire[u] = "unsent" /\ wire' = [wire EXCEPT ![u] = "due"]
    BY <1>2 DEF Sends, data
  <2>2. OpenModes' = OpenModes /\ OpenModes \subseteq Modes
    BY <2>1 DEF OpenModes, Open, Drafts
  <2>3. \A v \in Clips : opened'[v] = IF v = u THEN OpenModes ELSE opened[v]
    BY <1>2 DEF UploadTypeOK, Sends
  <2>4. \A v \in Clips : wire'[v] = IF v = u THEN "due" ELSE wire[v]
    BY <2>1 DEF UploadTypeOK, Updates
  <2>5. u \in Clips => opened[u] = {}
    BY <2>1 DEF OpenedInv
  <2>6. \A d \in DraftIds : \A v \in draft[d].items : draft[d].mode \in opened'[v]
    BY <2>3, <2>5, DraftIs DEF OpenedInv
  <2>. QED  BY <2>1, <2>2, <2>3, <2>4, <2>5, <2>6 DEF OpenedInv
<1>3. ASSUME NEW h \in Handlers, NEW u \in Updates, Resends(h, u) PROVE OpenedInv'
  <2>1. \A v \in Clips : wire'[v] = "unsent" <=> wire[v] = "unsent"
    BY <1>3 DEF UploadTypeOK, Resends, Updates
  <2>. QED  BY <1>3, <2>1, OpenedStill DEF Resends, data
<1>4. ASSUME NEW d \in DraftIds, DraftExpires(d) PROVE OpenedInv'
  <2>1. \A e \in DraftIds :
          /\ draft'[e].items = draft[e].items /\ draft'[e].mode = draft[e].mode
          /\ draft'[e].status = "DRAFT" => draft[e].status = "DRAFT"
          /\ draft'[e].status = "ABSENT" => draft[e].status = "ABSENT"
    BY <1>4, StatusIs DEF DraftExpires, DraftStatuses
  <2>. QED  BY <1>4, <2>1, OpenedStill DEF DraftExpires, Quiet
<1>5. ASSUME NEW m \in Modes, SessionExpires(m) PROVE OpenedInv'
  BY <1>5, OpenedStill DEF UploadTypeOK, SessionExpires, Quiet
<1>6. CASE \/ \E h \in Handlers :
                \/ Routes(h) \/ RoutesTo(h, "link", "LINK_ONLY")
                \/ RoutesTo(h, "normal", "PUBLISHED")
                \/ RoleRaises(h) \/ HandlerRaises(h) \/ ProcessDies(h)
           \/ SponsorChanges \/ Rests \/ UNCHANGED uploadVars
  <2>1. UNCHANGED <<wire, session, draft, row, opened>>
    BY <1>6 DEF Routes, RoutesTo, RoleRaises, HandlerRaises, ProcessDies, SponsorChanges,
                Rests, uploadVars, data
  <2>. QED  BY <2>1, OpenedSame
<1>. QED  BY <1>1, <1>2, <1>3, <1>4, <1>5, <1>6

LEMMA StepOpened ==
  ASSUME UploadTypeOK, Shapes, OpenedInv, [UploadNext]_uploadVars
  PROVE  OpenedInv'
<1>1. ASSUME NEW h \in Handlers, Step(h) PROVE OpenedInv'
  BY <1>1, SessionOpened, CollectionOpened, OutsideOpened DEF Step
<1>. QED  BY <1>1, OutsideOpened DEF UploadNext

----------------------------------------------------------------------------
(* What an update that is over has left behind.                             *)

\* A key that is set belongs to an update that is being served, that was answered, or
\* that was cut off.
KeyInv == \A u \in Updates : u \in dedup /\ ~Served(u) => wire[u] = "done" \/ u \in cutOff

\* What is known of a video whose update was answered.
DoneInv == \A v \in Clips : wire[v] = "done" => Taken(v) \/ v \in refused \/ v \in cutOff

LEMMA KeyFrom ==
  ASSUME KeyInv, cutOff \subseteq cutOff',
         \A u \in Updates :
           /\ u \in dedup' => u \in dedup \/ Served(u)'
           /\ wire[u] = "done" => wire'[u] = "done"
           /\ Served(u) => Served(u)' \/ u \notin dedup' \/ wire'[u] = "done" \/ u \in cutOff'
  PROVE  KeyInv'
BY DEF KeyInv

\* A handler that goes on serves its update still.
LEMMA ServedStill ==
  ASSUME UploadTypeOK, NEW h \in Handlers, at'[h].u = at[h].u,
         \A g \in Handlers \ {h} : at'[g] = at[g]
  PROVE  \A u \in Updates : Served(u)' <=> Served(u)
BY DEF Served

\* A handler that is through does not.
LEMMA ServedBut ==
  ASSUME UploadTypeOK, NEW h \in Handlers, \A g \in Handlers \ {h} : at'[g] = at[g]
  PROVE  \A u \in Updates : Served(u) /\ u # at[h].u => Served(u)'
BY DEF Served

\* A handler's step leaves it with its update, unless it is through or raises.
LEMMA GoesOn ==
  ASSUME UploadTypeOK, NEW h \in Handlers, Step(h)
  PROVE  at'[h].u = at[h].u \/ Raise(h) \/ Answers(h) \/ release_creation_state(h)
<1>1. at \in [Handlers -> Handler] /\ at[h] \in Handler
  BY DEF UploadTypeOK
<1>2. CASE Proceed(h)
  BY <1>1, <1>2 DEF Proceed, Handler
<1>3. ASSUME NEW place, Go(h, place) PROVE at'[h].u = at[h].u
  BY <1>1, <1>3 DEF Go, Handler
<1>4. ASSUME NEW ops, Do(h, ops) PROVE at'[h].u = at[h].u
  BY <1>1, <1>4 DEF Do, Handler
<1>5. CASE ReadsTarget(h)
  BY <1>1, <1>5 DEF ReadsTarget, Handler
<1>6. ASSUME NEW o, at' = [at EXCEPT ![h] = [@ EXCEPT !.pc = "op", !.draft = Newest,
                                    !.thumb = draft[Newest].thumb, !.todo = <<o>>]]
      PROVE  at'[h].u = at[h].u
  BY <1>1, <1>6 DEF Handler
<1>. QED  BY <1>2, <1>3, <1>4, <1>5, <1>6, HowItMoves

\* What a handler's step does to the key and to the answer of its update, and that it
\* touches no other.
LEMMA StepMarks ==
  ASSUME UploadTypeOK, Shapes, NEW h \in Handlers, Step(h)
  PROVE  /\ UNCHANGED cutOff /\ refused \subseteq refused'
         /\ \/ Raise(h) /\ UNCHANGED wire
            \/ Done(h) /\ UNCHANGED dedup
            \/ at'[h].u = at[h].u /\ UNCHANGED wire
               /\ dedup' \subseteq dedup \cup {at[h].u}
<1>1. CASE Answers(h)
  BY <1>1 DEF Answers
<1>2. CASE release_creation_state(h)
  BY <1>2 DEF release_creation_state
<1>3. CASE Raise(h) /\ ~Answers(h) /\ ~release_creation_state(h)
  <2>1. UNCHANGED <<wire, cutOff, refused>>
    BY <1>3 DEF Step, Routes, RoutesTo, close_if_active, cancel_create_video_session,
                clear_creation_state, FinishesFeedback, start_create_video_session, OpensSession,
                HintsAtVideo, claim_creation_state, ClaimFails, SavesVideo, CountsVideo,
                LocksBot, ReadsTarget, CancelsDraft, BeginsCollection, receive, finish,
                PublishesDraft, DeadlockAborts, Quiet
  <2>. QED  BY <1>3, <2>1
<1>4. CASE ~Raise(h) /\ ~Answers(h) /\ ~release_creation_state(h)
  <2>1. UNCHANGED <<wire, cutOff, refused>> /\ dedup' \subseteq dedup \cup {at[h].u}
    <3>1. CASE Routes(h) \/ RoutesTo(h, "link", "LINK_ONLY") \/ RoutesTo(h, "normal", "PUBLISHED")
      BY <3>1 DEF Routes, RoutesTo
    <3>2. CASE \/ close_if_active(h) \/ cancel_create_video_session(h) \/ clear_creation_state(h)
               \/ FinishesFeedback(h) \/ start_create_video_session(h) \/ OpensSession(h)
               \/ HintsAtVideo(h)
      BY <3>2 DEF close_if_active, cancel_create_video_session, clear_creation_state,
                  FinishesFeedback, start_create_video_session, OpensSession, HintsAtVideo, Quiet
    <3>3. CASE claim_creation_state(h) \/ ClaimFails(h) \/ SavesVideo(h) \/ CountsVideo(h)
      BY <1>4, <3>3 DEF claim_creation_state, ClaimFails, SavesVideo, CountsVideo, Quiet
    <3>4. CASE \/ LocksBot(h) \/ ReadsTarget(h) \/ CancelsDraft(h) \/ BeginsCollection(h)
               \/ receive(h) \/ finish(h)
      BY <3>4 DEF LocksBot, ReadsTarget, CancelsDraft, BeginsCollection, receive, finish, Quiet
    <3>5. CASE PublishesDraft(h) \/ DeadlockAborts(h)
      BY <1>4, <3>5 DEF PublishesDraft, DeadlockAborts
    <3>. QED  BY <1>4, <3>1, <3>2, <3>3, <3>4, <3>5 DEF Step
  <2>2. at'[h].u = at[h].u
    BY <1>4, GoesOn
  <2>. QED  BY <2>1, <2>2
<1>. QED  BY <1>1, <1>2, <1>3, <1>4

\* Only the end of a handler answers its update.
LEMMA StepWire ==
  ASSUME NEW h \in Handlers, Step(h)
  PROVE  UNCHANGED wire \/ (Done(h) /\ (Answers(h) \/ release_creation_state(h)))
BY DEF Step, Routes, RoutesTo, Answers, close_if_active, cancel_create_video_session,
       clear_creation_state, FinishesFeedback, start_create_video_session, OpensSession,
       HintsAtVideo, claim_creation_state, ClaimFails, SavesVideo, CountsVideo,
       release_creation_state, LocksBot, ReadsTarget, CancelsDraft, BeginsCollection, receive,
       finish, PublishesDraft, DeadlockAborts, Quiet

LEMMA StepKey ==
  ASSUME UploadTypeOK, Shapes, KeyInv, [UploadNext]_uploadVars
  PROVE  KeyInv'
<1>1. ASSUME NEW h \in Handlers, Step(h) PROVE KeyInv'
  <2>1. \A g \in Handlers \ {h} : at'[g] = at[g]
    BY <1>1, OthersStay
  <2>2. \A u \in Updates : Served(u) /\ u # at[h].u => Served(u)'
    BY <2>1, ServedBut
  <2>3. UNCHANGED cutOff
    BY <1>1, StepMarks
  <2>4. CASE Raise(h) /\ UNCHANGED wire
    BY <2>2, <2>3, <2>4, KeyFrom DEF Raise
  <2>5. CASE Done(h) /\ UNCHANGED dedup
    <3>1. \A u \in Updates : /\ u = at[h].u => wire'[u] = "done"
                             /\ wire[u] = "done" => wire'[u] = "done"
      BY <2>5 DEF UploadTypeOK, Done
    <3>. QED  BY <2>2, <2>3, <2>5, <3>1, KeyFrom
  <2>6. CASE at'[h].u = at[h].u /\ UNCHANGED wire /\ dedup' \subseteq dedup \cup {at[h].u}
    <3>1. \A u \in Updates : Served(u)' <=> Served(u)
      BY <2>1, <2>6, ServedStill
    <3>2. Served(at[h].u)'
      BY <2>6 DEF Served
    <3>3. \A u \in Updates : u \in dedup' => u \in dedup \/ Served(u)'
      BY <2>6, <3>2 DEF Served
    <3>. QED  BY <2>3, <2>6, <3>1, <3>3, KeyFrom
  <2>. QED  BY <1>1, <2>4, <2>5, <2>6, StepMarks
<1>2. ASSUME NEW h \in Handlers, HandlerRaises(h) PROVE KeyInv'
  <2>1. \A u \in Updates : Served(u) /\ u # at[h].u => Served(u)'
    BY <1>2, OthersStay, ServedBut
  <2>. QED  BY <1>2, <2>1, KeyFrom DEF HandlerRaises, Raise
<1>3. ASSUME NEW h \in Handlers, RoleRaises(h) \/ ProcessDies(h) PROVE KeyInv'
  <2>1. \A u \in Updates : Served(u) /\ u # at[h].u => Served(u)'
    BY <1>3, OthersStay, ServedBut
  <2>2. /\ dedup' \subseteq dedup \cup {at[h].u} /\ wire' = wire
        /\ cutOff' = cutOff \cup {at[h].u}
    BY <1>3 DEF RoleRaises, ProcessDies
  <2>. QED  BY <2>1, <2>2 DEF KeyInv
<1>4. ASSUME NEW h \in Handlers, NEW u \in Updates, Sends(h, u) \/ Resends(h, u)
      PROVE  KeyInv'
  <2>1. at[h].u \notin Updates
    <3>1. Nothing \notin Updates
      BY Distinct DEF Updates
    <3>. QED  BY <1>4, <3>1 DEF Sends, Resends, Shapes, Shape
  <2>2. \A x \in Updates : Served(x) => Served(x)'
    BY <1>4, <2>1, OthersStay, ServedBut
  <2>3. UNCHANGED dedup /\ cutOff \subseteq cutOff'
    BY <1>4 DEF Sends, Resends
  <2>4. \A x \in Updates : wire[x] = "done" => wire'[x] = "done"
    BY <1>4 DEF UploadTypeOK, Sends, Resends
  <2>. QED  BY <2>2, <2>3, <2>4, KeyFrom
<1>5. CASE UNCHANGED <<wire, dedup, at, cutOff>>
  BY <1>5 DEF KeyInv, Served
<1>. QED  BY <1>1, <1>2, <1>3, <1>4, <1>5
     DEF UploadNext, SessionExpires, DraftExpires, SponsorChanges, Rests, uploadVars, Quiet

LEMMA DoneFrom ==
  ASSUME UploadTypeOK, Keeps, DoneInv, refused \subseteq refused', cutOff \subseteq cutOff',
         \A v \in Clips : wire'[v] = "done" =>
           wire[v] = "done" \/ Taken(v) \/ v \in refused' \/ v \in cutOff'
  PROVE  DoneInv'
BY TakenStill DEF DoneInv

LEMMA StepDone ==
  ASSUME UploadTypeOK, Shapes, OpenedInv, KeyInv, DoneInv, [UploadNext]_uploadVars
  PROVE  DoneInv'
<1>1. Keeps
  BY StepKeeps
<1>2. ASSUME NEW h \in Handlers, Step(h) PROVE DoneInv'
  <2>1. UNCHANGED cutOff /\ refused \subseteq refused'
    BY <1>2, StepMarks
  <2>2. CASE UNCHANGED wire
    BY <1>1, <2>1, <2>2, DoneFrom
  <2>3. CASE Done(h) /\ (Answers(h) \/ release_creation_state(h))
    <3>1. /\ at[h].u \in Updates /\ Shape(h)
      BY <2>3 DEF Answers, release_creation_state, Shapes, Shape
    <3>2. \A v \in Clips : wire'[v] = "done" => wire[v] = "done" \/ v = at[h].u
      BY <2>3, <3>1 DEF UploadTypeOK, Done, Updates
    <3>3. at[h].u \in Clips => Taken(at[h].u) \/ at[h].u \in refused'
      <4>1. CASE at[h].pc = "reply"
        BY <3>1, <4>1 DEF Shape, Intake
      <4>2. CASE at[h].pc = "refuse"
        BY <2>3, <4>2 DEF Answers, release_creation_state
      <4>3. CASE at[h].pc = "counted"
        BY <3>1, <4>3 DEF Shape, Intake, OpenedInv, Taken
      <4>. QED  BY <2>3, <4>1, <4>2, <4>3 DEF Answers, release_creation_state
    <3>. QED  BY <1>1, <2>1, <3>2, <3>3, DoneFrom
  <2>. QED  BY <1>2, <2>2, <2>3, StepWire
<1>3. ASSUME NEW h \in Handlers, NEW u \in Updates, Sends(h, u) PROVE DoneInv'
  <2>1. \A v \in Clips : wire'[v] = "done" => wire[v] = "done"
    BY <1>3 DEF UploadTypeOK, Sends, Updates
  <2>. QED  BY <1>1, <1>3, <2>1, DoneFrom DEF Sends
<1>4. ASSUME NEW h \in Handlers, NEW u \in Updates, Resends(h, u) PROVE DoneInv'
  <2>1. CASE u \in dedup
    <3>1. u \in cutOff'
      BY <1>4, <2>1 DEF KeyInv, Resends
    <3>2. \A v \in Clips : wire'[v] = "done" => wire[v] = "done" \/ v = u
      BY <1>4, <2>1 DEF UploadTypeOK, Resends, Updates
    <3>3. refused' = refused /\ cutOff \subseteq cutOff'
      BY <1>4 DEF Resends
    <3>. QED  BY <1>1, <3>1, <3>2, <3>3, DoneFrom
  <2>2. CASE u \notin dedup
    BY <1>1, <1>4, <2>2, DoneFrom DEF Resends
  <2>. QED  BY <2>1, <2>2
<1>5. CASE UNCHANGED <<wire, refused>> /\ cutOff \subseteq cutOff'
  BY <1>1, <1>5, DoneFrom
<1>. QED  BY <1>2, <1>3, <1>4, <1>5
     DEF UploadNext, RoleRaises, HandlerRaises, ProcessDies, SessionExpires, DraftExpires, SponsorChanges,
         Rests, uploadVars, Quiet

----------------------------------------------------------------------------
(* The lock of the bot's row, and the only draft.                           *)

\* The bot's row is locked from the query for it until the new draft is committed.
LocksRow(h) == at[h].pc = "locked" \/ (at[h].pc = "row" /\ Doing(h) = "begin")

LockInv ==
  /\ \A g, h \in Handlers : LocksRow(g) /\ LocksRow(h) => g = h
  /\ \A h \in Handlers : at[h].pc = "row" /\ Doing(h) = "begin" => Drafts \subseteq {at[h].target}

OnlyDraft == \A d, e \in Drafts : d = e

LEMMA OnlyIsOne ==
  ASSUME OnlyDraft
  PROVE  OneDraft
<1>1. CASE Drafts = {}
  BY <1>1, FS_EmptySet DEF OneDraft
<1>2. CASE Drafts # {}
  <2>1. PICK d : Drafts = {d}
    BY <1>2 DEF OnlyDraft
  <2>2. Cardinality({d}) = 1
    BY FS_Singleton
  <2>. QED  BY <2>1, <2>2 DEF OneDraft
<1>. QED  BY <1>1, <1>2

\* A handler gets to the lock, and to the row of a draft, by one way each.
LEMMA ToRow ==
  ASSUME UploadTypeOK, Shapes, NEW h \in Handlers, Step(h)
  PROVE  /\ at'[h].pc = "locked" => LocksBot(h) /\ BotFree(h)
         /\ at'[h].pc = "row" => ReadsTarget(h)
<1>1. CASE ReadsTarget(h)
  BY <1>1, TargetIs
<1>2. CASE LocksBot(h)
  <2>1. at[h].todo # <<>>
    BY <1>2, Busy DEF LocksBot, IsAt, Within
  <2>2. CASE sponsor
    BY <1>2, <2>2, GoIs DEF LocksBot, Places
  <2>3. CASE ~sponsor
    BY <1>2, <2>1, <2>3, ProceedIs DEF LocksBot
  <2>. QED  BY <2>2, <2>3
<1>3. CASE ~ReadsTarget(h) /\ ~LocksBot(h)
  <2>1. at'[h].pc \notin {"locked", "row"}
    <3>. DEFINE Other == {"op", "wait", "clear", "finish", "restart", "reset", "look",
                          "claimed", "stored", "counted", "holding", "reply", "refuse",
                          "link", "normal"}
    <3>1. CASE Proceed(h) /\ at[h].pc \in Within
      BY <3>1, Busy, ProceedIs
    <3>2. ASSUME NEW place \in Other, Go(h, place) PROVE at'[h].pc \notin {"locked", "row"}
      BY <3>2, GoIs DEF Places
    <3>3. CASE at' = [at EXCEPT ![h] = NoUpdate]
      BY <3>3, FreedIs
    <3>4. at[h] \in Handler /\ at \in [Handlers -> Handler]
      BY DEF UploadTypeOK
    <3>5. ASSUME NEW ops, Do(h, ops) PROVE at'[h].pc = "op"
      BY <3>4, <3>5 DEF Do, Handler
    <3>6. CASE Routes(h)
      <4>1. at'[h].pc = "op" \/ \E place \in {"reply", "link"} : Go(h, place)
        <5>. DEFINE k == Kind(at[h].u)
        <5>1. CASE k \in Begins \cup {"start"}
          BY <3>5, <3>6, <5>1 DEF Routes
        <5>2. CASE k \notin Begins \cup {"start"} /\ Newest # Nothing
          <6>1. PICK o : at' = [at EXCEPT ![h] = [@ EXCEPT !.pc = "op", !.draft = Newest,
                                    !.thumb = draft[Newest].thumb, !.todo = <<o>>]]
            BY <3>6, <5>2 DEF Routes
          <6>. QED  BY <3>4, <6>1 DEF Handler
        <5>3. CASE k \notin Begins \cup {"start"} /\ Newest = Nothing
          BY <3>6, <5>3 DEF Routes
        <5>. QED  BY <5>1, <5>2, <5>3
      <4>. QED  BY <3>2, <4>1
    <3>7. CASE RoutesTo(h, "link", "LINK_ONLY") \/ RoutesTo(h, "normal", "PUBLISHED")
      <4>1. (\E ops : Do(h, ops)) \/ \E place \in {"normal", "refuse", "reply"} : Go(h, place)
        BY <3>7 DEF RoutesTo
      <4>. QED  BY <3>2, <3>5, <4>1
    <3>8. CASE \/ close_if_active(h) \/ cancel_create_video_session(h) \/ clear_creation_state(h)
               \/ FinishesFeedback(h) \/ start_create_video_session(h) \/ OpensSession(h)
               \/ HintsAtVideo(h)
      <4>1. at[h].pc \in Within
        BY <3>8 DEF IsAt, close_if_active, cancel_create_video_session, clear_creation_state,
                    FinishesFeedback, start_create_video_session, OpensSession, HintsAtVideo,
                    Within
      <4>2. Proceed(h) \/ \E place \in {"wait", "clear", "finish", "restart", "reset"} : Go(h, place)
        BY <3>8 DEF close_if_active, cancel_create_video_session, clear_creation_state,
                    FinishesFeedback, start_create_video_session, OpensSession, HintsAtVideo
      <4>. QED  BY <3>1, <3>2, <4>1, <4>2
    <3>9. CASE \/ claim_creation_state(h) \/ ClaimFails(h) \/ SavesVideo(h) \/ CountsVideo(h)
      <4>1. \/ at' = [at EXCEPT ![h] = NoUpdate]
            \/ \E place \in {"claimed", "look", "refuse", "op", "reply", "stored", "counted"} :
                 Go(h, place)
        BY <3>9 DEF claim_creation_state, ClaimFails, SavesVideo, CountsVideo, Raise
      <4>. QED  BY <3>2, <3>3, <4>1
    <3>10. CASE \/ CancelsDraft(h) \/ BeginsCollection(h) \/ receive(h) \/ finish(h)
                \/ PublishesDraft(h) \/ DeadlockAborts(h)
      <4>1. Proceed(h) => at[h].pc \in Within \/ DeadlockAborts(h)
        BY <3>10 DEF IsAt, CancelsDraft, BeginsCollection, receive, finish, PublishesDraft, Within
      <4>2. \/ Proceed(h) /\ at[h].pc \in Within
            \/ at' = [at EXCEPT ![h] = NoUpdate]
            \/ \E place \in {"refuse", "reply", "holding"} : Go(h, place)
        BY <3>10, <4>1 DEF CancelsDraft, BeginsCollection, receive, finish, PublishesDraft,
                           DeadlockAborts, Raise
      <4>. QED  BY <3>1, <3>2, <3>3, <4>2
    <3>11. CASE Answers(h) \/ release_creation_state(h)
      BY <3>3, <3>11 DEF Answers, release_creation_state, Done
    <3>. QED  BY <1>3, <3>6, <3>7, <3>8, <3>9, <3>10, <3>11 DEF Step
  <2>. QED  BY <2>1
<1>. QED  BY <1>1, <1>2, <1>3

\* A handler whose place is unchanged, or that is at no lock, has no lock it had not.
LEMMA LockStill ==
  ASSUME NEW g, at'[g] = at[g]
  PROVE  /\ LocksRow(g)' <=> LocksRow(g)
         /\ Doing(g)' = Doing(g)
BY DEF LocksRow, Doing

\* Drafts are only begun by the handler that has the lock.
LEMMA DraftsGrow ==
  ASSUME UploadTypeOK, Shapes, [UploadNext]_uploadVars
  PROVE  \/ Drafts' \subseteq Drafts
         \/ \E h \in Handlers : BeginsCollection(h)
<1>1. CASE UNCHANGED draft
  BY <1>1 DEF Drafts
<1>2. ASSUME NEW h \in Handlers, CancelsDraft(h) PROVE Drafts' \subseteq Drafts
  BY <1>2, CancelledIs DEF CancelsDraft, Drafts
<1>3. ASSUME NEW h \in Handlers, receive(h) PROVE Drafts' \subseteq Drafts
  <2>1. \A e \in DraftIds : draft'[e].status = draft[e].status
    BY <1>3, ReceivedIs
  <2>. QED  BY <2>1 DEF Drafts
<1>4. ASSUME NEW h \in Handlers, PublishesDraft(h) PROVE Drafts' \subseteq Drafts
  <2>1. PICK d \in DraftIds : d = at[h].target
    <3>1. at[h].pc = "holding" /\ Shape(h)
      BY <1>4 DEF PublishesDraft, Shapes
    <3>. QED  BY <3>1, HandlerIs DEF Shape
  <2>2. CASE draft' = [draft EXCEPT ![d].status = "PUBLISHED"]
    <3>1. \A e \in DraftIds : draft'[e].status = "DRAFT" => draft[e].status = "DRAFT"
      BY <2>2, StatusIs DEF DraftStatuses
    <3>. QED  BY <3>1 DEF Drafts
  <2>3. UNCHANGED draft \/ draft' = [draft EXCEPT ![d].status = "PUBLISHED"]
    BY <1>4, <2>1 DEF PublishesDraft
  <2>4. CASE UNCHANGED draft
    BY <2>4 DEF Drafts
  <2>. QED  BY <2>2, <2>3, <2>4
<1>5. ASSUME NEW d \in DraftIds, DraftExpires(d) PROVE Drafts' \subseteq Drafts
  BY <1>5, StatusIs DEF DraftExpires, DraftStatuses, Drafts
<1>6. ASSUME NEW h \in Handlers, Step(h)
      PROVE  \/ UNCHANGED draft \/ CancelsDraft(h) \/ receive(h) \/ PublishesDraft(h)
             \/ BeginsCollection(h)
  BY <1>6 DEF Step, Routes, RoutesTo, Answers, close_if_active, cancel_create_video_session,
              clear_creation_state, FinishesFeedback, start_create_video_session, OpensSession,
              HintsAtVideo, claim_creation_state, ClaimFails, SavesVideo, CountsVideo,
              release_creation_state, LocksBot, ReadsTarget, finish, DeadlockAborts, Quiet, data
<1>. QED  BY <1>1, <1>2, <1>3, <1>4, <1>5, <1>6
     DEF UploadNext, Sends, Resends, RoleRaises, HandlerRaises, ProcessDies, SessionExpires, SponsorChanges,
         Rests, uploadVars, data

\* A new draft is the only one: the handler that has the lock knew the draft there was,
\* and cancels it.
LEMMA BegunOnly ==
  ASSUME UploadTypeOK, Shapes, LockInv, NEW h \in Handlers, BeginsCollection(h)
  PROVE  OnlyDraft'
<1>1. PICK d \in DraftIds :
              /\ draft[d].status = "ABSENT"
              /\ draft'[d] = NewDraft(Mode(h))
              /\ \A e \in DraftIds \ {d} :
                   /\ draft'[e].items = draft[e].items /\ draft'[e].mode = draft[e].mode
                   /\ draft'[e].status = IF StillDraft(h) /\ e = at[h].target THEN "CANCELLED"
                                         ELSE draft[e].status
  BY BegunIs
<1>2. Drafts \subseteq {at[h].target}
  BY DEF LockInv, BeginsCollection, IsAt
<1>3. ASSUME NEW e \in DraftIds \ {d} PROVE draft'[e].status # "DRAFT"
  <2>1. CASE draft[e].status = "DRAFT"
    <3>1. e = at[h].target
      BY <1>2, <2>1 DEF Drafts
    <3>2. StillDraft(h)
      BY <2>1, <3>1, Distinct DEF StillDraft
    <3>. QED  BY <1>1, <3>1, <3>2
  <2>2. CASE draft[e].status # "DRAFT"
    BY <1>1, <2>2
  <2>. QED  BY <2>1, <2>2
<1>4. Drafts' \subseteq {d}
  BY <1>3 DEF Drafts
<1>. QED  BY <1>4 DEF OnlyDraft

LEMMA StepOnly ==
  ASSUME UploadTypeOK, Shapes, LockInv, OnlyDraft, [UploadNext]_uploadVars
  PROVE  OnlyDraft'
<1>1. CASE Drafts' \subseteq Drafts
  BY <1>1 DEF OnlyDraft
<1>. QED  BY <1>1, DraftsGrow, BegunOnly

LEMMA StepLock ==
  ASSUME UploadTypeOK, Shapes, LockInv, OnlyDraft, [UploadNext]_uploadVars
  PROVE  LockInv'
<1>1. ASSUME NEW h \in Handlers, Step(h) PROVE LockInv'
  <2>1. \A g \in Handlers \ {h} : at'[g] = at[g]
    BY <1>1, OthersStay
  <2>2. LocksRow(h)' => LocksRow(h) \/ BotFree(h)
    <3>1. CASE at'[h].pc = "locked"
      BY <1>1, <3>1, ToRow
    <3>2. CASE at'[h].pc = "row" /\ Doing(h)' = "begin"
      <4>1. ReadsTarget(h)
        BY <1>1, <3>2, ToRow
      <4>2. Doing(h)' = Doing(h)
        BY <4>1, TargetIs DEF Doing
      <4>. QED  BY <3>2, <4>1, <4>2 DEF ReadsTarget, LocksRow
    <3>. QED  BY <3>1, <3>2 DEF LocksRow
  <2>3. ASSUME NEW f \in Handlers, NEW g \in Handlers, LocksRow(f)', LocksRow(g)' PROVE f = g
    <3>1. ASSUME NEW x \in Handlers \ {h}, LocksRow(x)', LocksRow(h)' PROVE FALSE
      <4>1. LocksRow(x)
        BY <2>1, <3>1, LockStill
      <4>. QED  BY <2>2, <3>1, <4>1 DEF LockInv, BotFree, LocksRow
    <3>2. CASE f # h /\ g # h
      <4>1. LocksRow(f) /\ LocksRow(g)
        BY <2>1, <2>3, <3>2, LockStill
      <4>. QED  BY <4>1 DEF LockInv
    <3>. QED  BY <2>3, <3>1, <3>2
  <2>4. ASSUME NEW g \in Handlers, at'[g].pc = "row", Doing(g)' = "begin"
        PROVE  Drafts' \subseteq {at'[g].target}
    <3>1. CASE g = h
      <4>1. ReadsTarget(h)
        BY <1>1, <2>4, <3>1, ToRow
      <4>2. at'[h].target = Newest /\ Drafts' = Drafts
        BY <4>1, TargetIs DEF ReadsTarget, Drafts, data
      <4>3. Drafts \subseteq {Newest}
        BY NewestIs DEF OnlyDraft
      <4>. QED  BY <3>1, <4>2, <4>3
    <3>2. CASE g # h
      <4>1. at'[g] = at[g] /\ at[g].pc = "row" /\ Doing(g) = "begin"
        BY <2>1, <2>4, <3>2, LockStill
      <4>2. Drafts \subseteq {at[g].target}
        BY <4>1 DEF LockInv
      <4>3. ~ \E x \in Handlers : BeginsCollection(x)
        <5>. SUFFICES ASSUME NEW x \in Handlers, BeginsCollection(x) PROVE FALSE
          OBVIOUS
        <5>1. x = g
          BY <4>1 DEF BeginsCollection, IsAt, LockInv, LocksRow
        <5>2. at[g].todo # <<>> /\ Proceed(g)
          BY <4>1, <5>1, Busy DEF BeginsCollection, Within
        <5>3. at'[g].pc # "row"
          BY <5>2, ProceedIs
        <5>. QED  BY <4>1, <5>3
      <4>. QED  BY <4>1, <4>2, <4>3, DraftsGrow
    <3>. QED  BY <3>1, <3>2
  <2>. QED  BY <2>3, <2>4 DEF LockInv
<1>2. ASSUME NEW h \in Handlers,
             \/ RoleRaises(h) \/ HandlerRaises(h) \/ ProcessDies(h)
             \/ \E u \in Updates : Sends(h, u) \/ Resends(h, u)
      PROVE  LockInv'
  <2>1. \A g \in Handlers \ {h} : at'[g] = at[g]
    BY <1>2, OthersStay
  <2>2. UNCHANGED at \/ at'[h].pc \in {"idle", "new"}
    <3>1. CASE RoleRaises(h) \/ HandlerRaises(h) \/ ProcessDies(h)
      BY <3>1, FreedIs DEF RoleRaises, HandlerRaises, ProcessDies, Raise
    <3>2. ASSUME NEW u \in Updates, Sends(h, u) \/ Resends(h, u)
          PROVE  UNCHANGED at \/ at'[h].pc = "new"
      BY <3>2, ServesIs DEF Sends, Resends
    <3>. QED  BY <1>2, <3>1, <3>2
  <2>3. UNCHANGED draft
    BY <1>2 DEF RoleRaises, HandlerRaises, ProcessDies, Sends, Resends, data
  <2>4. \A g \in Handlers : at'[g] = at[g] \/ (~LocksRow(g)' /\ at'[g].pc # "row")
    BY <2>1, <2>2 DEF LocksRow
  <2>. QED  BY <2>3, <2>4, LockStill DEF LockInv, Drafts
<1>3. ASSUME UNCHANGED at, Drafts' \subseteq Drafts PROVE LockInv'
  BY <1>3, LockStill DEF LockInv
<1>4. ASSUME NEW d \in DraftIds, DraftExpires(d) PROVE Drafts' \subseteq Drafts
  BY <1>4, StatusIs DEF DraftExpires, DraftStatuses, Drafts
<1>5. CASE UNCHANGED <<at, draft>>
  BY <1>3, <1>5 DEF Drafts
<1>. QED  BY <1>1, <1>2, <1>3, <1>4, <1>5
     DEF UploadNext, SessionExpires, DraftExpires, SponsorChanges, Rests, uploadVars, Quiet, data

----------------------------------------------------------------------------
(* The theorems.                                                            *)

UploadInv ==
  UploadTypeOK /\ Shapes /\ OpenedInv /\ KeyInv /\ DoneInv /\ LockInv /\ OnlyDraft

LEMMA InitInv == UploadInit => UploadInv
<1>. SUFFICES ASSUME UploadInit PROVE UploadInv
  OBVIOUS
<1>1. UploadTypeOK
  BY UploadInitTyped
<1>2. \A h \in Handlers : at[h].pc = "idle" /\ at[h].u = Nothing
  BY DEF UploadInit, NoUpdate
<1>3. Shapes /\ LockInv
  BY <1>2, Distinct DEF Shapes, Shape, LockInv, LocksRow, Within
<1>4. KeyInv
  BY DEF UploadInit, KeyInv
<1>5. OpenedInv /\ DoneInv /\ OnlyDraft
  <2>0. \A v \in Clips : row[v] = Nothing
    BY DEF UploadInit
  <2>1. CASE Fresh \/ InSession
    <3>1. /\ \A v \in Clips : wire[v] = "unsent" /\ opened[v] = {}
          /\ \A d \in DraftIds : draft[d] = NoDraft
      BY <2>1 DEF Fresh, InSession, NothingSent, Updates
    <3>2. \A d \in DraftIds : draft[d].items = {} /\ draft[d].status = "ABSENT"
      BY <3>1 DEF NoDraft
    <3>. QED  BY <2>0, <3>1, <3>2 DEF OpenedInv, DoneInv, OnlyDraft, Drafts
  <2>2. CASE InCollection
    <3>. DEFINE items == {v \in Clips : \A x \in Clips : v <= x}
    <3>1. PICK m \in Modes :
            /\ draft = [d \in DraftIds |-> IF d = 1 THEN [NewDraft(m) EXCEPT !.items = items]
                                           ELSE NoDraft]
            /\ wire = [u \in Updates |-> IF u \in items THEN "done" ELSE "unsent"]
            /\ opened = [v \in Clips |-> IF v \in items THEN {m} ELSE {}]
      BY <2>2 DEF InCollection
    <3>2. \A x \in Modes : ~Open(x)
      BY <2>2 DEF InCollection, Open
    <3>. HIDE DEF items
    <3>3. /\ draft[1].items = items /\ draft[1].mode = m /\ draft[1].status = "DRAFT"
          /\ \A d \in DraftIds \ {1} : draft[d].items = {} /\ draft[d].status = "ABSENT"
      BY <3>1, Numbers DEF NewDraft, NoDraft
    <3>4. \A v \in Clips : /\ wire[v] = IF v \in items THEN "done" ELSE "unsent"
                           /\ opened[v] = IF v \in items THEN {m} ELSE {}
      BY <3>1 DEF Updates
    <3>5. Drafts \subseteq {1} /\ OpenModes \subseteq {m}
      BY <3>2, <3>3 DEF Drafts, OpenModes
    <3>6. items \subseteq Clips
      BY DEF items
    <3>7. OpenedInv
      BY <2>0, <3>3, <3>4, <3>5, <3>6 DEF OpenedInv
    <3>8. DoneInv
      BY <3>3, <3>4, Numbers DEF DoneInv, Taken
    <3>9. OnlyDraft
      BY <3>5 DEF OnlyDraft
    <3>. QED  BY <3>7, <3>8, <3>9
  <2>. QED  BY <2>1, <2>2 DEF UploadInit
<1>. QED  BY <1>1, <1>3, <1>4, <1>5 DEF UploadInv

LEMMA StepInv == UploadInv /\ [UploadNext]_uploadVars => UploadInv'
BY UploadStepTyped, StepShapes, StepOpened, StepKey, StepDone, StepLock, StepOnly DEF UploadInv

LEMMA UploadInvariant == UploadSpec => []UploadInv
<1>1. UploadInit => UploadInv
  BY InitInv
<1>2. UploadInv /\ [UploadNext]_uploadVars => UploadInv'
  BY StepInv
<1>. QED  BY <1>1, <1>2, PTL DEF UploadSpec

\* The state of the upload conversations is always of its type, for any videos,
\* commands, handlers and bounds.
THEOREM UploadTypeCorrect == UploadSpec => []UploadTypeOK
<1>1. UploadInv => UploadTypeOK
  BY DEF UploadInv
<1>. QED  BY <1>1, UploadInvariant, PTL

\* However the admin's commands overlap, and whatever fails, there is one draft of a
\* collection at most (OneDraft): the handler that has locked the bot's row knows the
\* draft there is, and nobody else begins one.
THEOREM AlwaysOneDraft == UploadSpec => []OneDraft
<1>1. UploadInv => OneDraft
  BY OnlyIsOne DEF UploadInv
<1>. QED  BY <1>1, UploadInvariant, PTL

\* Every video whose update is over was stored or collected in a mode that was open
\* since it was sent, or refused; unless its handler died or it was answered as a
\* duplicate while it was served (EveryVideoAccountedFor).
THEOREM VideosAccountedFor == UploadSpec => []EveryVideoAccountedFor
<1>1. UploadInv => EveryVideoAccountedFor
  BY DEF UploadInv, EveryVideoAccountedFor, OpenedInv, DoneInv
<1>. QED  BY <1>1, UploadInvariant, PTL
=============================================================================
