--------------------------- MODULE CatchupProofs ---------------------------
(***************************************************************************)
(* For any videos, batch size, attempts and faults: LIVE broadcasts have    *)
(* priority over the catch-up, and a viewer gets a video again only after a *)
(* crash, a rollback or an answer that was lost.                            *)
(***************************************************************************)
EXTENDS Catchup, FiniteSetTheorems, WellFoundedInduction, TLAPS

----------------------------------------------------------------------------
(* Types.                                                                   *)

LEMMA JobType ==
  /\ NoJob \in Job
  /\ \A due \in BOOLEAN : [create_job EXCEPT !.due = due] \in Job
  /\ \A r \in Job : /\ mark_running(r) \in Job
                    /\ recover_stale(r, r.attempts, MaxAttempts) \in Job
                    /\ mark_failed(r) \in Job /\ retry_job(r) \in Job
                    /\ [r EXCEPT !.stale = TRUE] \in Job
                    /\ [r EXCEPT !.due = TRUE] \in Job
<1>1. NoJob \in Job /\ \A due \in BOOLEAN : [create_job EXCEPT !.due = due] \in Job
  BY DEF NoJob, create_job, Job, JobStatuses
<1>2. ASSUME NEW r \in Job
      PROVE  /\ mark_running(r) \in Job
             /\ recover_stale(r, r.attempts, MaxAttempts) \in Job
             /\ mark_failed(r) \in Job /\ retry_job(r) \in Job
             /\ [r EXCEPT !.stale = TRUE] \in Job
             /\ [r EXCEPT !.due = TRUE] \in Job
  <2>1. r.attempts + 1 \in Nat
    BY DEF Job
  <2>2. mark_running(r) \in Job
    BY <2>1 DEF mark_running, Job, JobStatuses
  <2>3. recover_stale(r, r.attempts, MaxAttempts) \in Job
    BY DEF recover_stale, Job, JobStatuses
  <2>4. [r EXCEPT !.stale = TRUE] \in Job /\ [r EXCEPT !.due = TRUE] \in Job
    BY DEF Job
  <2>5. mark_failed(r) \in Job /\ retry_job(r) \in Job
    BY DEF mark_failed, retry_job, Job, JobStatuses
  <2>. QED  BY <2>2, <2>3, <2>4, <2>5
<1>. QED  BY <1>1, <1>2

LEMMA CreateType ==
  ASSUME NEW jobs \in [JobIds -> Job], NEW due \in BOOLEAN
  PROVE  create_catchup_job(jobs, due) \in [JobIds -> Job]
BY JobType DEF create_catchup_job

LEMMA RowType ==
  /\ NoRow \in Row
  /\ \A r \in Row, s \in CatchupStatuses : [r EXCEPT !.status = s] \in Row
BY NType DEF NoRow, Row, CatchupStatuses

\* Each column is the one of the row or the one to write.
LEMMA FlushType ==
  ASSUME row \in Row, NEW read \in Row, NEW new \in Row
  PROVE  Flushed(read, new) \in Row
<1>. DEFINE r == [k \in {"status", "last", "target"} |->
                    IF new[k] = read[k] THEN row[k] ELSE new[k]]
<1>1. DOMAIN new = {"status", "last", "target"}
  BY DEF Row
<1>2. Flushed(read, new) = r
  BY <1>1 DEF Flushed
<1>3. r \in Row
  <2>1. r = [status |-> r.status, last |-> r.last, target |-> r.target]
    OBVIOUS
  <2>2. r.status \in CatchupStatuses /\ r.last \in 0 .. N /\ r.target \in 0 .. N
    BY DEF Row
  <2>. HIDE DEF r
  <2>. QED  BY <2>1, <2>2 DEF Row
<1>. QED  BY <1>2, <1>3

\* A set of videos that is not empty has a greatest.
LEMMA GreatestVideo ==
  ASSUME NEW S \in SUBSET Videos, S # {}
  PROVE  \E m \in S : \A v \in S : m >= v
<1>. DEFINE Beyond(m) == {v \in S : m < v}
            R == StrictSubsetOrdering(Videos)
            T == {Beyond(m) : m \in S}
<1>1. IsWellFoundedOn(R, SUBSET Videos)
  <2>1. IsFiniteSet(Videos)
    BY FS_Interval, NType DEF Videos
  <2>. QED  BY <2>1, FS_StrictSubsetOrderingWellFounded, FS_FiniteSubsetsOfFinite
<1>2. T \subseteq SUBSET Videos /\ T # {}
  OBVIOUS
<1>3. PICK x \in T : \A y \in T : <<y, x>> \notin R
  <2>. HIDE DEF R, T
  <2>. QED  BY <1>1, <1>2, WFMin
<1>4. PICK m \in S : x = Beyond(m)
  OBVIOUS
<1>5. ASSUME NEW v \in S, m < v PROVE FALSE
  <2>1. v \in Beyond(m) /\ v \notin Beyond(v)
    BY <1>5 DEF Videos
  <2>2. Beyond(v) \subseteq Beyond(m)
    <3>1. ASSUME NEW u \in S, v < u PROVE m < u
      <4>1. u \in Int /\ v \in Int /\ m \in Int
        BY NType DEF Videos
      <4>. QED  BY <1>5, <3>1, <4>1
    <3>. QED  BY <3>1
  <2>3. <<Beyond(v), x>> \in R
    BY <1>4, <2>1, <2>2 DEF StrictSubsetOrdering
  <2>. QED  BY <1>3, <2>3
<1>6. ASSUME NEW v \in S PROVE m >= v
  <2>1. v \in Int /\ m \in Int /\ ~(m < v)
    BY <1>5, NType DEF Videos
  <2>. QED  BY <2>1
<1>. QED  BY <1>6

\* The boundary of a catch-up is a video or 0.
LEMMA BoundedType ==
  ASSUME TypeOK
  PROVE  Bounded \in Row
<1>. DEFINE new == [Existing EXCEPT !.target = IF ready = {} THEN @ ELSE MaxReady]
<1>1. Existing \in Row
  BY DEF TypeOK, Existing, Row, CatchupStatuses
<1>2. MaxReady \in 0 .. N
  <2>1. CASE ready = {}
    BY <2>1, NType DEF MaxReady
  <2>2. CASE ready # {}
    <3>1. \E m \in ready : \A v \in ready : m >= v
      BY <2>2, GreatestVideo DEF TypeOK
    <3>2. Max(ready) \in ready
      BY <3>1, Zenon DEF Max
    <3>3. Max(ready) \in 1 .. N /\ MaxReady = Max(ready)
      BY <2>2, <3>2 DEF MaxReady, TypeOK, Videos
    <3>4. \A m \in 1 .. N : m \in 0 .. N
      BY NType
    <3>. QED  BY <3>3, <3>4, Zenon
  <2>. QED  BY <2>1, <2>2
<1>3. new \in Row /\ [new EXCEPT !.status = "COMPLETED"] \in Row
  BY <1>1, <1>2 DEF Row, CatchupStatuses
<1>. QED  BY <1>1, <1>3 DEF Bounded

LEMMA SpendType ==
  ASSUME TypeOK, NEW k \in Faults, Spend(k)
  PROVE  /\ faults' \in [Faults -> Nat]
         /\ \A i \in Faults : faults'[i] = IF i = k THEN faults[i] + 1 ELSE faults[i]
<1>1. faults[k] + 1 \in Nat
  BY DEF TypeOK
<1>. QED  BY <1>1 DEF TypeOK, Spend

\* The broadcasts, the bot and the viewer who blocks it.
Outside ==
  \/ \E v \in Videos : VideoReady(v) \/ LiveStep(v) \/ LiveCrash(v)
  \/ BotStops \/ BotStarts \/ ViewerBlocks

Starting == StartReads \/ initialize_or_resume_catchup \/ StartCommits \/ StartFails

Working == WorkerStep \/ RunRaises \/ Crash

Passing ==
  \/ \E j \in JobIds : HeartbeatAges(j) \/ DelayElapses(j) \/ RetryReads(j) \/ RetryWrites(j)
  \/ CycleStep \/ CycleDies

LEMMA NextIs == Next <=> Outside \/ Starting \/ Working \/ Passing
BY Zenon DEF Next, Outside, Starting, Working, Passing

LEMMA FaultKinds ==
  /\ "crash" \in Faults /\ "raise" \in Faults /\ "stall" \in Faults /\ "error" \in Faults
  /\ "lost" \in Faults /\ "block" \in Faults /\ "start" \in Faults /\ "stop" \in Faults
  /\ "retry" \in Faults
BY DEF Faults

LEMMA OutsideType ==
  ASSUME TypeOK, Outside
  PROVE  TypeOK'
<1>. USE DEF TypeOK
<1>1. ASSUME NEW v \in Videos, VideoReady(v) PROVE TypeOK'
  <2>1. live' \in [Videos -> LiveStates] /\ ready' \subseteq Videos
    BY <1>1 DEF VideoReady, LiveStates
  <2>. QED  BY <1>1, <2>1 DEF VideoReady, telegram, batch, history
<1>2. CASE BotStops \/ BotStarts
  <2>1. faults' \in [Faults -> Nat]
    BY <1>2, SpendType, FaultKinds DEF BotStops, BotStarts
  <2>. QED  BY <1>2, <2>1 DEF BotStops, BotStarts, telegram, batch, history
<1>3. CASE ViewerBlocks
  <2>1. faults' \in [Faults -> Nat]
    BY <1>3, SpendType, FaultKinds DEF ViewerBlocks
  <2>. QED  BY <1>3, <2>1 DEF ViewerBlocks, broadcasts, batch, history
<1>4. ASSUME NEW v \in Videos, LiveStarts(v) PROVE TypeOK'
  <2>1. live' \in [Videos -> LiveStates] /\ excused' \subseteq Videos
    BY <1>4 DEF LiveStarts, LiveStates
  <2>. QED  BY <1>4, <2>1 DEF LiveStarts, telegram, batch
<1>5. ASSUME NEW v \in Videos, LiveDelivers(v) PROVE TypeOK'
  <2>1. faults' \in [Faults -> Nat]
    BY <1>5, SpendType, FaultKinds DEF LiveDelivers
  <2>2. got[v] + 1 \in Nat
    OBVIOUS
  <2>3. live' \in [Videos -> LiveStates] /\ got' \in [Videos -> Nat]
    BY <1>5, <2>2 DEF LiveDelivers, LiveStates
  <2>4. excused' \subseteq Videos /\ viewer' \in {"ABSENT", "ACTIVE", "BLOCKED"}
    BY <1>5 DEF LiveDelivers
  <2>. QED  BY <1>5, <2>1, <2>3, <2>4 DEF LiveDelivers, batch
<1>6. ASSUME NEW v \in Videos, LiveEnds(v) PROVE TypeOK'
  <2>1. /\ live' \in [Videos -> LiveStates] /\ during' \in Nat
        /\ liveSent' \subseteq Videos
    BY <1>6 DEF LiveEnds, LiveOver, LiveStates
  <2>. QED  BY <1>6, <2>1 DEF LiveEnds, telegram, batch
<1>7. ASSUME NEW v \in Videos, LiveFails(v) PROVE TypeOK'
  <2>1. /\ live' \in [Videos -> LiveStates] /\ during' \in Nat
        /\ excused' \subseteq Videos
    BY <1>7 DEF LiveFails, LiveOver, LiveStates
  <2>. QED  BY <1>7, <2>1 DEF LiveFails, telegram, batch
<1>8. ASSUME NEW v \in Videos, LiveCrash(v) PROVE TypeOK'
  <2>1. live' \in [Videos -> LiveStates] /\ faults' \in [Faults -> Nat]
    BY <1>8, SpendType, FaultKinds DEF LiveCrash, LiveStates
  <2>. QED  BY <1>8, <2>1 DEF LiveCrash, telegram, batch, history
<1>. QED  BY <1>1, <1>2, <1>3, <1>4, <1>5, <1>6, <1>7, <1>8 DEF Outside, LiveStep

StartType == [at : {"idle", "read", "drafted"}, saw : {"ABSENT", "ACTIVE", "BLOCKED"},
              read : Row, row : Row, seen : SUBSET Videos, job : BOOLEAN]

LEMMA StartingType ==
  ASSUME TypeOK, Starting
  PROVE  TypeOK'
<1>. USE DEF TypeOK
<1>0. start \in StartType /\ NoStart \in StartType
  BY RowType DEF StartType, NoStart
<1>1. CASE StartReads
  <2>1. start' \in StartType
    BY <1>0, <1>1 DEF StartReads, StartType
  <2>2. faults' \in [Faults -> Nat]
    BY <1>1, SpendType, FaultKinds DEF StartReads
  <2>. QED  BY <1>1, <2>1, <2>2 DEF StartReads, StartType, broadcasts, batch, history
<1>2. CASE initialize_or_resume_catchup
  <2>1. start' \in StartType
    <3>. DEFINE more == ~HasActiveJob(job) /\ Bounded.status \in {"PENDING", "PAUSED"}
    <3>1. more \in BOOLEAN
      OBVIOUS
    <3>2. start' = [start EXCEPT !.at = "drafted", !.read = row, !.row = Bounded,
                                 !.seen = ready, !.job = more]
      BY <1>2 DEF initialize_or_resume_catchup
    <3>. HIDE DEF more
    <3>. QED  BY <1>0, <3>1, <3>2, BoundedType DEF StartType
  <2>. QED  BY <1>2, <2>1 DEF initialize_or_resume_catchup, StartType, broadcasts, telegram, batch,
                              history
<1>3. CASE StartCommits
  <2>1. row' \in Row
    BY <1>0, <1>3, FlushType DEF StartCommits, StartType
  <2>2. job' \in [JobIds -> Job]
    BY <1>3, CreateType DEF StartCommits
  <2>3. viewer' \in {"ABSENT", "ACTIVE", "BLOCKED"} /\ start' \in StartType
    BY <1>0, <1>3 DEF StartCommits
  <2>. QED  BY <1>3, <2>1, <2>2, <2>3 DEF StartCommits, StartType, broadcasts, telegram, batch,
                                          history
<1>4. CASE StartFails
  <2>1. faults' \in [Faults -> Nat]
    BY <1>4, SpendType, FaultKinds DEF StartFails
  <2>2. start' \in StartType
    BY <1>0, <1>4 DEF StartFails
  <2>. QED  BY <1>4, <2>1, <2>2 DEF StartFails, StartType, broadcasts, telegram, batch, history
<1>. QED  BY <1>1, <1>2, <1>3, <1>4 DEF Starting

LEMMA WorkingType ==
  ASSUME TypeOK, Working
  PROVE  TypeOK'
<1>. USE DEF TypeOK
<1>0. /\ copy.row \in Row /\ copy.bot \in BOOLEAN
      /\ \A r \in Row, b \in BOOLEAN : [row |-> r, bot |-> b] \in [row : Row, bot : BOOLEAN]
      /\ \A r \in Row : [copy EXCEPT !.row = r] \in [row : Row, bot : BOOLEAN]
  OBVIOUS
<1>1. ASSUME NEW j \in JobIds, BeginJob(j) PROVE TypeOK'
  <2>1. job' \in [JobIds -> Job]
    BY <1>1, JobType DEF BeginJob
  <2>. QED  BY <1>1, <2>1 DEF BeginJob, PCs, broadcasts, telegram, batch, history
<1>2. CASE LoadCatchup
  <2>1. copy' \in [row : Row, bot : BOOLEAN]
    BY <1>0, <1>2 DEF LoadCatchup
  <2>2. pc' \in PCs
    BY <1>2 DEF LoadCatchup, PCs
  <2>. QED  BY <1>2, <2>1, <2>2 DEF LoadCatchup, broadcasts, telegram, history
<1>3. ASSUME NEW s \in CatchupStatuses, Set(s)
      PROVE  row' \in Row /\ copy' \in [row : Row, bot : BOOLEAN]
  <2>1. [copy.row EXCEPT !.status = s] \in Row
    BY <1>0, RowType
  <2>2. row' \in Row
    BY <1>0, <1>3, <2>1, FlushType DEF Set
  <2>3. copy' \in [row : Row, bot : BOOLEAN]
    BY <1>0, <1>3, <2>1 DEF Set
  <2>. QED  BY <2>2, <2>3
<1>4. CASE Halt \/ YieldToLive \/ StartBatch
  <2>1. row' \in Row /\ copy' \in [row : Row, bot : BOOLEAN]
    BY <1>3, <1>4 DEF Halt, YieldToLive, StartBatch, CatchupStatuses
  <2>2. pc' \in PCs /\ cursor' \in 0 .. N
    BY <1>0, <1>4 DEF Halt, YieldToLive, StartBatch, PCs, Row
  <2>. QED  BY <1>4, <2>1, <2>2 DEF Halt, YieldToLive, StartBatch, broadcasts, telegram, history
<1>5. CASE get_next_eligible_videos
  <2>1. row' \in Row /\ copy' \in [row : Row, bot : BOOLEAN]
    BY <1>3, <1>5 DEF get_next_eligible_videos, CatchupStatuses
  <2>2. pc' \in PCs
    BY <1>5 DEF get_next_eligible_videos, PCs
  <2>3. page' \subseteq Videos
    BY <1>5 DEF get_next_eligible_videos, Ahead, Unseen
  <2>. QED  BY <1>5, <2>1, <2>2, <2>3 DEF get_next_eligible_videos, broadcasts, telegram, history
<1>6. CASE CheckVideo
  <2>1. PICK v \in Videos :
          IF PauseMidBatch THEN page' = {} /\ UNCHANGED <<pc, cursor>>
          ELSE IF v \in Delivered(receipt)
            THEN page' = page \ {v} /\ cursor' = v /\ UNCHANGED pc
          ELSE pc' = "checked" /\ UNCHANGED <<page, cursor>>
    BY <1>6 DEF CheckVideo
  <2>2. \A n \in Videos : n \in 0 .. N
    BY NType DEF Videos
  <2>3. page' \subseteq Videos /\ cursor' \in 0 .. N /\ pc' \in PCs
    BY <2>1, <2>2 DEF PCs
  <2>. QED  BY <1>6, <2>3 DEF CheckVideo, broadcasts, telegram, history
<1>7. CASE send_catchup_preview_to_viewer
  <2>1. PICK v \in Videos :
          /\ Answer(v) /\ page' = page \ {v} /\ cursor' = v
          /\ pc' = IF result'[v] = "BLOCKED" THEN "forbidden" ELSE "paging"
          /\ during' = IF has_live_broadcast_in_progress THEN during + 1 ELSE during
    BY <1>7 DEF send_catchup_preview_to_viewer
  <2>2. got[v] + 1 \in Nat /\ during + 1 \in Nat
    OBVIOUS
  <2>3. /\ result' \in [Videos -> Outcomes \cup {"NONE"}] /\ got' \in [Videos -> Nat]
        /\ excused' \subseteq Videos
    BY <2>1, <2>2 DEF Answer, Outcomes
  <2>4. faults' \in [Faults -> Nat]
    BY <2>1, SpendType, FaultKinds DEF Answer
  <2>5. cursor' \in 0 .. N /\ pc' \in PCs /\ during' \in Nat /\ page' \subseteq Videos
    BY <2>1, <2>2, NType DEF PCs, Videos
  <2>. QED  BY <1>7, <2>3, <2>4, <2>5 DEF send_catchup_preview_to_viewer, broadcasts
<1>8. CASE CommitBatch
  <2>. DEFINE new == [copy.row EXCEPT !.last = LastProcessed, !.status = EndStatus]
  <2>1. EndStatus \in CatchupStatuses
    BY DEF EndStatus, CatchupStatuses
  <2>2. new \in Row
    BY <1>0, <2>1 DEF LastProcessed, Row
  <2>3. row' = Flushed(copy.row, new)
    BY <1>8 DEF CommitBatch
  <2>4. copy' \in [row : Row, bot : BOOLEAN]
    <3>1. copy' = [copy EXCEPT !.row = new]
      BY <1>8 DEF CommitBatch
    <3>. HIDE DEF new
    <3>. QED  BY <1>0, <2>2, <3>1
  <2>. HIDE DEF new
  <2>5. row' \in Row
    BY <1>0, <2>2, <2>3, FlushType
  <2>6. /\ receipt' \in [Videos -> Outcomes \cup {"NONE"}]
        /\ result' \in [Videos -> Outcomes \cup {"NONE"}]
    BY <1>8 DEF CommitBatch, Receipts, NoResult
  <2>7. pc' \in PCs /\ viewer' \in {"ABSENT", "ACTIVE", "BLOCKED"} /\ page' \subseteq Videos
    BY <1>8 DEF CommitBatch, PCs
  <2>. QED  BY <1>8, <2>4, <2>5, <2>6, <2>7 DEF CommitBatch, broadcasts, telegram, history
<1>9. ASSUME Release
      PROVE  /\ pc' \in PCs /\ on' \in JobIds \cup {None} /\ page' \subseteq Videos
             /\ cursor' \in 0 .. N /\ copy' \in [row : Row, bot : BOOLEAN]
             /\ result' \in [Videos -> Outcomes \cup {"NONE"}]
  BY <1>9, RowType, NType DEF Release, PCs, NoCopy, NoResult
<1>10. \A jobs \in [JobIds -> Job] : End(jobs, on) \in [JobIds -> Job]
  BY JobType DEF End
<1>13. [job EXCEPT ![on] = mark_failed(@)] \in [JobIds -> Job]
  <2>1. \A j \in JobIds : mark_failed(job[j]) \in Job
    BY JobType
  <2>. QED  BY <2>1
<1>11. CASE FinishJob
  <2>1. job' \in [JobIds -> Job]
    <3>1. create_catchup_job(job, FALSE) \in [JobIds -> Job]
      BY CreateType
    <3>. QED  BY <1>10, <1>11, <3>1 DEF FinishJob
  <2>2. row' \in Row
    <3>1. [copy.row EXCEPT !.status = "PAUSED"] \in Row
      BY <1>0, RowType DEF CatchupStatuses
    <3>. QED  BY <1>0, <1>11, <3>1, FlushType DEF FinishJob
  <2>. QED  BY <1>9, <1>11, <2>1, <2>2 DEF FinishJob, broadcasts, telegram, history
<1>12. CASE RunRaises \/ Crash
  <2>1. faults' \in [Faults -> Nat] /\ job' \in [JobIds -> Job]
    BY <1>12, <1>13, SpendType, FaultKinds DEF RunRaises, Crash
  <2>. QED  BY <1>9, <1>12, <2>1 DEF RunRaises, Crash, broadcasts, telegram, history
<1>. QED  BY <1>1, <1>2, <1>4, <1>5, <1>6, <1>7, <1>8, <1>11, <1>12 DEF Working, WorkerStep

CycleType == [at : {"idle", "scanned", "planned"}, stale : SUBSET JobIds, read : Row,
              status : CatchupStatuses, job : BOOLEAN]

LEMMA PassingType ==
  ASSUME TypeOK, Passing
  PROVE  TypeOK'
<1>. USE DEF TypeOK
<1>0. cycle \in CycleType /\ NoCycle \in CycleType
  BY RowType DEF CycleType, NoCycle, CatchupStatuses
<1>1. ASSUME NEW j \in JobIds, HeartbeatAges(j) \/ DelayElapses(j) PROVE TypeOK'
  <2>1. job' \in [JobIds -> Job]
    <3>1. job' = [job EXCEPT ![j] = [job[j] EXCEPT !.stale = TRUE]]
            \/ job' = [job EXCEPT ![j] = [job[j] EXCEPT !.due = TRUE]]
      BY <1>1 DEF HeartbeatAges, DelayElapses
    <3>2. [job[j] EXCEPT !.stale = TRUE] \in Job /\ [job[j] EXCEPT !.due = TRUE] \in Job
      BY JobType
    <3>. QED  BY <3>1, <3>2
  <2>2. faults' \in [Faults -> Nat]
    BY <1>1, SpendType, FaultKinds DEF HeartbeatAges, DelayElapses
  <2>. QED  BY <1>1, <2>1, <2>2
           DEF HeartbeatAges, DelayElapses, broadcasts, telegram, batch, history
<1>11. ASSUME NEW j \in JobIds, RetryReads(j) \/ RetryWrites(j) PROVE TypeOK'
  <2>1. job' \in [JobIds -> Job] /\ pressed' \subseteq JobIds
    <3>1. retry_job(job[j]) \in Job
      BY JobType
    <3>. QED  BY <1>11, <3>1 DEF RetryReads, RetryWrites
  <2>2. faults' \in [Faults -> Nat]
    BY <1>11, SpendType, FaultKinds DEF RetryReads, RetryWrites
  <2>. QED  BY <1>11, <2>1, <2>2
           DEF RetryReads, RetryWrites, broadcasts, telegram, batch, history
<1>2. CASE CycleScans
  <2>1. cycle' \in CycleType
    BY <1>0, <1>2 DEF CycleScans, CycleType
  <2>. QED  BY <1>2, <2>1 DEF CycleScans, CycleType, broadcasts, telegram, batch, history
<1>3. Recovered \in [JobIds -> Job]
  <2>1. \A j \in JobIds : recover_stale(job[j], job[j].attempts, MaxAttempts) \in Job
    BY JobType
  <2>. QED  BY <2>1, JobType DEF Recovered
<1>4. CASE reconcile_stalled_catchups
  <2>1. cycle' \in CycleType
    <3>. DEFINE blocked == row.status \in Stallable /\ viewer = "BLOCKED"
                lost == row.status \in Stallable /\ ~blocked /\ ~HasActiveJob(Recovered)
                status == IF blocked THEN "BLOCKED"
                          ELSE IF lost /\ row.status = "RUNNING" THEN "PENDING"
                          ELSE row.status
    <3>1. status \in CatchupStatuses /\ lost \in BOOLEAN
      BY DEF Row, CatchupStatuses
    <3>2. cycle' = [cycle EXCEPT !.at = "planned", !.read = row, !.status = status, !.job = lost]
      BY <1>4 DEF reconcile_stalled_catchups
    <3>. HIDE DEF lost, status
    <3>. QED  BY <1>0, <3>1, <3>2 DEF CycleType
  <2>. QED  BY <1>4, <2>1 DEF reconcile_stalled_catchups, CycleType, broadcasts, telegram, batch,
                              history
<1>5. CASE CycleCommits
  <2>1. [cycle.read EXCEPT !.status = cycle.status] \in Row /\ cycle.read \in Row
    BY <1>0, RowType DEF CycleType
  <2>2. row' \in Row
    BY <1>5, <2>1, FlushType DEF CycleCommits
  <2>3. job' \in [JobIds -> Job]
    BY <1>3, <1>5, CreateType DEF CycleCommits
  <2>4. cycle' \in CycleType
    BY <1>0, <1>5 DEF CycleCommits
  <2>. QED  BY <1>5, <2>2, <2>3, <2>4 DEF CycleCommits, CycleType, broadcasts, telegram, batch,
                                          history
<1>6. CASE CycleDies
  <2>1. faults' \in [Faults -> Nat] /\ cycle' \in CycleType
    BY <1>0, <1>6, SpendType, FaultKinds DEF CycleDies
  <2>. QED  BY <1>6, <2>1 DEF CycleDies, CycleType, broadcasts, telegram, batch, history
<1>. QED  BY <1>1, <1>2, <1>4, <1>5, <1>6, <1>11 DEF Passing, CycleStep

LEMMA InitType == Init => TypeOK
<1>. SUFFICES ASSUME Init PROVE TypeOK
  OBVIOUS
<1>1. /\ start \in StartType /\ cycle \in CycleType
      /\ copy \in [row : Row, bot : BOOLEAN] /\ row \in Row
  BY RowType DEF Init, StartType, CycleType, NoStart, NoCycle, NoCopy, CatchupStatuses
<1>2. /\ receipt \in [Videos -> Outcomes \cup {"NONE"}]
      /\ result \in [Videos -> Outcomes \cup {"NONE"}]
      /\ got \in [Videos -> Nat] /\ faults \in [Faults -> Nat]
      /\ live \in [Videos -> LiveStates]
  BY DEF Init, NoResult, LiveStates
<1>3. job \in [JobIds -> Job] /\ ready \subseteq Videos /\ pc \in PCs /\ cursor \in 0 .. N
  BY JobType, NType, OldAreVideos DEF Init, Videos, PCs
<1>. QED  BY <1>1, <1>2, <1>3 DEF Init, TypeOK, StartType, CycleType

LEMMA StepType == TypeOK /\ [Next]_vars => TypeOK'
<1>. SUFFICES ASSUME TypeOK, [Next]_vars PROVE TypeOK'
  OBVIOUS
<1>1. CASE UNCHANGED vars
  BY <1>1 DEF vars, broadcasts, telegram, batch, history, TypeOK
<1>. QED  BY <1>1, NextIs, OutsideType, StartingType, WorkingType, PassingType

\* Every variable always has its type.
THEOREM TypeCorrect == Spec => []TypeOK
BY InitType, StepType, PTL DEF Spec

----------------------------------------------------------------------------
(* LIVE broadcasts have priority.  The worker looks for a broadcast before   *)
(* each video; one that is due after that look finds one message on its way. *)

PriorityInv ==
  /\ TypeOK
  /\ ~has_live_broadcast_in_progress => during = 0
  /\ pc = "checked" => during = 0
  /\ during <= 1

\* No message of the catch-up is counted, and no broadcast comes to its end.
LEMMA DuringKept ==
  ASSUME PriorityInv, TypeOK', during' = during,
         has_live_broadcast_in_progress => has_live_broadcast_in_progress',
         pc' = "checked" => pc = "checked" \/ ~has_live_broadcast_in_progress
  PROVE  PriorityInv'
BY DEF PriorityInv

LEMMA OutsidePriority ==
  ASSUME PriorityInv, TypeOK', Outside
  PROVE  PriorityInv'
<1>. USE DEF PriorityInv
<1>0. live \in [Videos -> LiveStates] /\ during \in Nat
  BY DEF TypeOK
<1>1. CASE BotStops \/ BotStarts \/ ViewerBlocks
  BY <1>1, DuringKept DEF BotStops, BotStarts, ViewerBlocks, broadcasts, history,
                          has_live_broadcast_in_progress, InProgress
<1>2. ASSUME NEW v \in Videos, LiveEnds(v) \/ LiveFails(v) PROVE PriorityInv'
  <2>1. pc' = pc /\ LiveOver(v)
    BY <1>2 DEF LiveEnds, LiveFails
  <2>2. during' \in {0, during} /\ (~has_live_broadcast_in_progress' => during' = 0)
    BY <1>0, <2>1 DEF LiveOver, has_live_broadcast_in_progress, InProgress
  <2>. QED  BY <2>1, <2>2
<1>3. ASSUME NEW v \in Videos,
             VideoReady(v) \/ LiveStarts(v) \/ LiveDelivers(v) \/ LiveCrash(v)
      PROVE  PriorityInv'
  <2>1. live'[v] \in {"PENDING", "TARGET", "OTHERS", "SENT"}
    BY <1>0, <1>3 DEF VideoReady, LiveStarts, LiveDelivers, LiveCrash
  <2>2. has_live_broadcast_in_progress'
    BY <2>1 DEF has_live_broadcast_in_progress, InProgress
  <2>3. UNCHANGED <<during, pc>>
    BY <1>3 DEF VideoReady, LiveStarts, LiveDelivers, LiveCrash, history
  <2>. QED  BY <2>2, <2>3, DuringKept
<1>. QED  BY <1>1, <1>2, <1>3 DEF Outside, LiveStep

LEMMA WorkingPriority ==
  ASSUME PriorityInv, TypeOK', Working
  PROVE  PriorityInv'
<1>0. has_live_broadcast_in_progress' = has_live_broadcast_in_progress
  BY DEF Working, WorkerStep, BeginJob, LoadCatchup, Halt, YieldToLive, StartBatch,
         get_next_eligible_videos, CheckVideo, send_catchup_preview_to_viewer, CommitBatch,
         FinishJob, RunRaises, Crash, broadcasts, has_live_broadcast_in_progress, InProgress
<1>1. CASE CheckVideo
  <2>1. pc' = "checked" => ~has_live_broadcast_in_progress
    BY <1>1 DEF CheckVideo, PauseMidBatch
  <2>. QED  BY <1>0, <1>1, <2>1, DuringKept DEF CheckVideo, history
<1>2. CASE send_catchup_preview_to_viewer
  <2>1. /\ during = 0 /\ pc' # "checked"
        /\ during' = IF has_live_broadcast_in_progress THEN during + 1 ELSE during
    BY <1>2 DEF send_catchup_preview_to_viewer, PriorityInv
  <2>. QED  BY <1>0, <2>1 DEF PriorityInv
<1>3. CASE during' = during /\ pc' # "checked"
  BY <1>0, <1>3, DuringKept
<1>4. CASE \/ \E j \in JobIds : BeginJob(j)
           \/ LoadCatchup \/ Halt \/ YieldToLive \/ StartBatch \/ get_next_eligible_videos
           \/ CommitBatch \/ FinishJob \/ RunRaises \/ Crash
  BY <1>3, <1>4 DEF BeginJob, LoadCatchup, Halt, YieldToLive, StartBatch,
                    get_next_eligible_videos, CommitBatch, FinishJob, RunRaises, Crash, Release,
                    history
<1>. QED  BY <1>1, <1>2, <1>4 DEF Working, WorkerStep

\* Neither /start nor maintenance sends or looks at a broadcast.
LEMMA RestPriority ==
  ASSUME PriorityInv, TypeOK', Starting \/ Passing
  PROVE  PriorityInv'
<1>1. UNCHANGED <<live, during, pc>>
  BY DEF Starting, StartReads, initialize_or_resume_catchup, StartCommits, StartFails, Passing,
         HeartbeatAges, DelayElapses, RetryReads, RetryWrites, CycleStep, CycleScans, reconcile_stalled_catchups,
         CycleCommits, CycleDies, broadcasts, history
<1>. QED  BY <1>1, DuringKept DEF has_live_broadcast_in_progress, InProgress

\* From the moment a LIVE broadcast is due until none is, the viewer gets at
\* most the one catch-up message that was on its way.
THEOREM PriorityOfLive == Spec => []LiveHasPriority
<1>1. Init => PriorityInv
  <2>. SUFFICES ASSUME Init PROVE PriorityInv
    OBVIOUS
  <2>. QED  BY InitType DEF Init, PriorityInv
<1>2. PriorityInv /\ [Next]_vars => PriorityInv'
  <2>. SUFFICES ASSUME PriorityInv, [Next]_vars PROVE PriorityInv'
    OBVIOUS
  <2>1. TypeOK'
    BY StepType DEF PriorityInv
  <2>2. CASE UNCHANGED vars
    BY <2>1, <2>2, DuringKept DEF vars, broadcasts, history, has_live_broadcast_in_progress,
                                  InProgress
  <2>. QED  BY <2>1, <2>2, NextIs, OutsidePriority, WorkingPriority, RestPriority
<1>3. PriorityInv => LiveHasPriority
  BY DEF PriorityInv, LiveHasPriority
<1>. QED  BY <1>1, <1>2, <1>3, PTL DEF Spec

----------------------------------------------------------------------------
(* Sent once.  A message a viewer has received is on one of four records:    *)
(* the receipt or the outcome of the batch, the delivery or the broadcast in *)
(* progress that has sent it; or a crash, a rollback or a lost answer has    *)
(* lost the record.                                                         *)
(* A video is never on two of them, for the catch-up keeps to videos whose   *)
(* broadcast is over, and looks at both records before it sends.             *)

OnRecord(v) ==
  \/ receipt[v] = "SENT" \/ result[v] = "SENT"
  \/ v \in liveSent \/ live[v] = "SENT"

Lost == faults["crash"] + faults["raise"] + faults["lost"]

\* What is READY has had its broadcast made with it.
Made == \A v \in Videos : live[v] = "NONE" <=> v \notin ready

\* Before its broadcast is over the catch-up has nothing to do with a video.
LiveFirst ==
  \A v \in Videos : live[v] # "OVER" =>
    receipt[v] # "SENT" /\ result[v] = "NONE" /\ v \notin liveSent

\* The batch takes no video of which a record says that it is sent.
BatchFresh ==
  /\ page \subseteq ready
  /\ \A v \in Videos : result[v] # "NONE" => receipt[v] # "SENT" /\ v \notin liveSent
  /\ \A v \in page : result[v] = "NONE"
  /\ pc = "checked" =>
       \A v \in Videos : IsNext(v) => live[v] = "OVER" /\ v \notin Delivered(receipt)
  /\ pc \notin {"paging", "checked", "forbidden"} => result = NoResult

Accounted == \A v \in Videos : got[v] <= (IF OnRecord(v) THEN 1 ELSE 0) + Lost

OnceInv == TypeOK /\ Made /\ LiveFirst /\ BatchFresh /\ Accounted

\* What counts is what is on record, what is received and what is lost.
LEMMA AccountedIf ==
  ASSUME OnceInv, TypeOK',
         \A v \in Videos :
           \/ got'[v] = got[v] /\ Lost' >= Lost + 1
           \/ got'[v] = got[v] /\ Lost' >= Lost /\ (OnRecord(v) => OnRecord(v)')
           \/ got'[v] = got[v] + 1 /\ Lost' >= Lost /\ ~OnRecord(v) /\ OnRecord(v)'
           \/ got'[v] = got[v] + 1 /\ Lost' >= Lost + 1 /\ ~OnRecord(v)
  PROVE  Accounted'
<1>1. Lost \in Nat /\ Lost' \in Nat
  BY FaultKinds DEF OnceInv, TypeOK, Lost
<1>2. ASSUME NEW v \in Videos PROVE got'[v] <= (IF OnRecord(v)' THEN 1 ELSE 0) + Lost'
  <2>1. got[v] \in Nat /\ got'[v] \in Nat /\ got[v] <= (IF OnRecord(v) THEN 1 ELSE 0) + Lost
    BY DEF OnceInv, TypeOK, Accounted
  <2>2. CASE got'[v] = got[v] /\ Lost' >= Lost + 1
    BY <1>1, <2>1, <2>2
  <2>3. CASE got'[v] = got[v] /\ Lost' >= Lost /\ (OnRecord(v) => OnRecord(v)')
    BY <1>1, <2>1, <2>3
  <2>4. CASE got'[v] = got[v] + 1 /\ Lost' >= Lost /\ ~OnRecord(v) /\ OnRecord(v)'
    BY <1>1, <2>1, <2>4
  <2>5. CASE got'[v] = got[v] + 1 /\ Lost' >= Lost + 1 /\ ~OnRecord(v)
    BY <1>1, <2>1, <2>5
  <2>. QED  BY <2>2, <2>3, <2>4, <2>5
<1>. QED  BY <1>2 DEF Accounted

\* Faults only grow, and a crash, a rollback or a lost answer counts.
LEMMA LostGrows ==
  ASSUME TypeOK, NEW k \in Faults, Spend(k)
  PROVE  Lost' >= Lost /\ (k \in {"crash", "raise", "lost"} => Lost' >= Lost + 1)
<1>1. \A i \in Faults : faults'[i] = IF i = k THEN faults[i] + 1 ELSE faults[i]
  BY SpendType
<1>2. faults["crash"] \in Nat /\ faults["raise"] \in Nat /\ faults["lost"] \in Nat
  BY FaultKinds DEF TypeOK
<1>. QED  BY <1>1, <1>2, FaultKinds DEF Lost

LEMMA LostKept ==
  ASSUME TypeOK, UNCHANGED faults
  PROVE  Lost' >= Lost
<1>1. Lost \in Nat /\ Lost' = Lost
  BY FaultKinds DEF TypeOK, Lost
<1>. QED  BY <1>1

\* Nothing is sent and nothing recorded.
LEMMA OnceKept ==
  ASSUME OnceInv, TypeOK', UNCHANGED <<ready, live, liveSent, receipt, result, got, page>>,
         Lost' >= Lost, pc' = pc
  PROVE  OnceInv'
<1>1. Accounted'
  BY AccountedIf DEF OnRecord
<1>2. Made' /\ LiveFirst' /\ BatchFresh'
  BY DEF OnceInv, Made, LiveFirst, BatchFresh, IsNext, Delivered
<1>. QED  BY <1>1, <1>2 DEF OnceInv

LEMMA OutsideOnce ==
  ASSUME OnceInv, TypeOK', Outside
  PROVE  OnceInv'
<1>0. /\ TypeOK
      /\ live \in [Videos -> LiveStates] /\ got \in [Videos -> Nat]
      /\ ready \subseteq Videos
  BY DEF OnceInv, TypeOK
<1>1. CASE BotStops \/ BotStarts \/ ViewerBlocks
  <2>1. Lost' >= Lost
    BY <1>0, <1>1, LostKept, LostGrows, FaultKinds DEF BotStops, BotStarts, ViewerBlocks
  <2>. QED  BY <1>1, <2>1, OnceKept
           DEF BotStops, BotStarts, ViewerBlocks, broadcasts, telegram, batch
<1>2. \* A broadcast comes one state further, without an outcome.
      ASSUME NEW v \in Videos, NEW s \in LiveStates \ {"NONE", "SENT"},
             live' = [live EXCEPT ![v] = s], live[v] \notin {"OVER", "NONE"},
             UNCHANGED <<ready, liveSent, receipt, result, got, page, pc>>,
             \/ Lost' >= Lost /\ live[v] # "SENT"
             \/ Lost' >= Lost + 1
      PROVE  OnceInv'
    <2>1. Accounted'
      <3>1. Lost \in Nat /\ Lost' \in Nat
        BY <1>0, FaultKinds DEF TypeOK, Lost
      <3>2. \A u \in Videos \ {v} : live'[u] = live[u]
        BY <1>0, <1>2
      <3>. QED  BY <1>0, <1>2, <3>1, <3>2, AccountedIf DEF OnRecord
    <2>2. Made' /\ LiveFirst' /\ BatchFresh'
      BY <1>0, <1>2 DEF OnceInv, Made, LiveFirst, BatchFresh, IsNext, Delivered
    <2>. QED  BY <2>1, <2>2 DEF OnceInv
<1>3. ASSUME NEW v \in Videos, VideoReady(v) PROVE OnceInv'
  <2>1. /\ ready' = ready \cup {v} /\ live' = [live EXCEPT ![v] = "PENDING"] /\ live[v] = "NONE"
        /\ UNCHANGED <<liveSent, receipt, result, got, page, pc, faults>>
    BY <1>3 DEF VideoReady, OnceInv, Made, telegram, batch
  <2>2. Accounted'
    <3>1. Lost' >= Lost
      BY <1>0, <2>1, LostKept
    <3>. QED  BY <1>0, <2>1, <3>1, AccountedIf DEF OnRecord
  <2>3. Made' /\ LiveFirst' /\ BatchFresh'
    BY <1>0, <2>1 DEF OnceInv, Made, LiveFirst, BatchFresh, IsNext, Delivered
  <2>. QED  BY <2>2, <2>3 DEF OnceInv
<1>4. ASSUME NEW v \in Videos, LiveStarts(v) PROVE OnceInv'
  <2>1. Lost' >= Lost
    BY <1>0, <1>4, LostKept DEF LiveStarts
  <2>2. \E s \in {"TARGET", "OTHERS"} : live' = [live EXCEPT ![v] = s]
    BY <1>4 DEF LiveStarts
  <2>. QED  BY <1>2, <1>4, <2>1, <2>2 DEF LiveStarts, LiveStates, telegram, batch
<1>5. ASSUME NEW v \in Videos, LiveDelivers(v) PROVE OnceInv'
  <2>1. Lost' >= Lost
    BY <1>0, <1>5, LostKept, LostGrows, FaultKinds DEF LiveDelivers
  <2>2. UNCHANGED <<ready, liveSent, receipt, result, page, pc>> /\ live[v] = "TARGET"
    BY <1>5 DEF LiveDelivers, batch
  <2>3. CASE live' = [live EXCEPT ![v] = "OTHERS"] /\ got' = got
    BY <1>2, <2>1, <2>2, <2>3 DEF LiveStates
  <2>4. CASE live' = [live EXCEPT ![v] = "SENT"] /\ got' = [got EXCEPT ![v] = @ + 1]
    <3>1. ~OnRecord(v) /\ OnRecord(v)'
      BY <1>0, <2>2, <2>4 DEF OnceInv, LiveFirst, OnRecord
    <3>2. \A u \in Videos \ {v} : got'[u] = got[u] /\ (OnRecord(u) => OnRecord(u)')
      BY <1>0, <2>2, <2>4 DEF OnRecord
    <3>3. got'[v] = got[v] + 1
      BY <1>0, <2>4
    <3>4. Accounted'
      BY <2>1, <3>1, <3>2, <3>3, AccountedIf
    <3>5. Made' /\ LiveFirst' /\ BatchFresh'
      BY <1>0, <2>2, <2>4 DEF OnceInv, Made, LiveFirst, BatchFresh, IsNext, Delivered
    <3>. QED  BY <3>4, <3>5 DEF OnceInv
  <2>5. CASE /\ live' = [live EXCEPT ![v] = "OTHERS"] /\ got' = [got EXCEPT ![v] = @ + 1]
             /\ Spend("lost")
    <3>1. ~OnRecord(v) /\ got'[v] = got[v] + 1 /\ Lost' >= Lost + 1
      BY <1>0, <2>2, <2>5, LostGrows, FaultKinds DEF OnceInv, LiveFirst, OnRecord
    <3>2. \A u \in Videos \ {v} : got'[u] = got[u] /\ (OnRecord(u) => OnRecord(u)')
      BY <1>0, <2>2, <2>5 DEF OnRecord
    <3>3. Accounted'
      BY <2>1, <3>1, <3>2, AccountedIf
    <3>4. Made' /\ LiveFirst' /\ BatchFresh'
      BY <1>0, <2>2, <2>5 DEF OnceInv, Made, LiveFirst, BatchFresh, IsNext, Delivered
    <3>. QED  BY <3>3, <3>4 DEF OnceInv
  <2>. QED  BY <1>5, <2>3, <2>4, <2>5 DEF LiveDelivers
<1>6. ASSUME NEW v \in Videos, LiveEnds(v) PROVE OnceInv'
  <2>1. /\ UNCHANGED <<ready, receipt, result, got, page, pc, faults>>
        /\ live[v] \in {"OTHERS", "SENT", "TARGET"} /\ live' = [live EXCEPT ![v] = "OVER"]
        /\ liveSent' = IF live[v] = "SENT" THEN liveSent \cup {v} ELSE liveSent
    BY <1>6 DEF LiveEnds, LiveOver, telegram, batch
  <2>3. Accounted'
    <3>1. Lost' >= Lost
      BY <1>0, <2>1, LostKept
    <3>2. \A u \in Videos : OnRecord(u) => OnRecord(u)'
      BY <1>0, <2>1 DEF OnRecord
    <3>. QED  BY <2>1, <3>1, <3>2, AccountedIf
  <2>4. Made' /\ LiveFirst'
    BY <1>0, <2>1 DEF OnceInv, Made, LiveFirst
  <2>5. BatchFresh'
    BY <1>0, <2>1 DEF OnceInv, LiveFirst, BatchFresh, IsNext, Delivered
  <2>. QED  BY <2>3, <2>4, <2>5 DEF OnceInv
<1>7. ASSUME NEW v \in Videos, LiveFails(v) PROVE OnceInv'
  <2>1. Lost' >= Lost
    BY <1>0, <1>7, LostKept DEF LiveFails
  <2>. QED  BY <1>2, <1>7, <2>1 DEF LiveFails, LiveOver, LiveStates, telegram, batch
<1>8. ASSUME NEW v \in Videos, LiveCrash(v) PROVE OnceInv'
  <2>1. Lost' >= Lost + 1
    BY <1>0, <1>8, LostGrows, FaultKinds DEF LiveCrash
  <2>. QED  BY <1>2, <1>8, <2>1 DEF LiveCrash, LiveStates, telegram, batch
<1>. QED  BY <1>1, <1>3, <1>4, <1>5, <1>6, <1>7, <1>8 DEF Outside, LiveStep

\* The batch is dropped: its outcomes are lost, which the crash or the rollback
\* counts.
LEMMA OnceDropped ==
  ASSUME OnceInv, TypeOK', UNCHANGED <<ready, live, liveSent, receipt, got>>, Release,
         \/ Lost' >= Lost /\ result = NoResult
         \/ Lost' >= Lost + 1
  PROVE  OnceInv'
<1>1. result' = NoResult /\ page' = {} /\ pc' = "idle" /\ \A v \in Videos : NoResult[v] = "NONE"
  BY DEF Release, NoResult
<1>2. Accounted'
  <2>1. Lost \in Nat /\ Lost' \in Nat
    BY FaultKinds DEF OnceInv, TypeOK, Lost
  <2>. QED  BY <1>1, <2>1, AccountedIf DEF OnRecord
<1>3. Made' /\ LiveFirst' /\ BatchFresh'
  BY <1>1 DEF OnceInv, Made, LiveFirst, BatchFresh
<1>. QED  BY <1>2, <1>3 DEF OnceInv

LEMMA SendOnce ==
  ASSUME OnceInv, TypeOK', send_catchup_preview_to_viewer
  PROVE  OnceInv'
<1>1. PICK v \in Videos :
        /\ IsNext(v) /\ Answer(v) /\ page' = page \ {v}
        /\ pc' = IF result'[v] = "BLOCKED" THEN "forbidden" ELSE "paging"
  BY DEF send_catchup_preview_to_viewer
<1>2. /\ UNCHANGED <<ready, live, liveSent, receipt>> /\ pc' \in {"paging", "forbidden"}
      /\ pc = "checked"
  BY <1>1 DEF send_catchup_preview_to_viewer, broadcasts
<1>3. /\ live[v] = "OVER" /\ receipt[v] # "SENT" /\ v \notin liveSent /\ result[v] = "NONE"
      /\ v \in page
  BY <1>1, <1>2 DEF OnceInv, BatchFresh, Delivered, IsNext
<1>4. /\ TypeOK /\ got \in [Videos -> Nat] /\ result \in [Videos -> Outcomes \cup {"NONE"}]
      /\ page \subseteq Videos
  BY DEF OnceInv, TypeOK
<1>5. \E o \in Outcomes :
        /\ result' = [result EXCEPT ![v] = o]
        /\ \/ /\ o = "SENT" /\ got' = [got EXCEPT ![v] = @ + 1] /\ UNCHANGED faults
           \/ /\ o # "SENT" /\ got' = got /\ (UNCHANGED faults \/ Spend("error"))
           \/ /\ o # "SENT" /\ got' = [got EXCEPT ![v] = @ + 1] /\ Spend("lost")
  BY <1>1 DEF Answer, Outcomes
<1>6. PICK o \in Outcomes :
        /\ result' = [result EXCEPT ![v] = o]
        /\ \/ /\ o = "SENT" /\ got' = [got EXCEPT ![v] = @ + 1] /\ UNCHANGED faults
           \/ /\ o # "SENT" /\ got' = got /\ (UNCHANGED faults \/ Spend("error"))
           \/ /\ o # "SENT" /\ got' = [got EXCEPT ![v] = @ + 1] /\ Spend("lost")
  BY <1>5
<1>7. Accounted'
  <2>1. Lost' >= Lost
    BY <1>4, <1>6, LostKept, LostGrows, FaultKinds
  <2>2. \A u \in Videos \ {v} : got'[u] = got[u] /\ (OnRecord(u) => OnRecord(u)')
    BY <1>2, <1>4, <1>6 DEF OnRecord
  <2>3. CASE o = "SENT"
    <3>1. got'[v] = got[v] + 1 /\ ~OnRecord(v) /\ OnRecord(v)'
      BY <1>2, <1>3, <1>4, <1>6, <2>3 DEF OnRecord
    <3>. QED  BY <2>1, <2>2, <3>1, AccountedIf
  <2>4. CASE o # "SENT" /\ got' = got
    <3>1. got'[v] = got[v] /\ ~OnRecord(v)
      BY <1>3, <1>4, <1>6, <2>4 DEF OnRecord
    <3>. QED  BY <2>1, <2>2, <3>1, AccountedIf
  <2>5. CASE o # "SENT" /\ got' = [got EXCEPT ![v] = @ + 1] /\ Spend("lost")
    <3>1. got'[v] = got[v] + 1 /\ ~OnRecord(v) /\ Lost' >= Lost + 1
      BY <1>3, <1>4, <2>5, LostGrows, FaultKinds DEF OnRecord
    <3>. QED  BY <2>1, <2>2, <3>1, AccountedIf
  <2>. QED  BY <1>6, <2>3, <2>4, <2>5
<1>8. Made' /\ LiveFirst'
  BY <1>2, <1>3, <1>4, <1>6 DEF OnceInv, Made, LiveFirst
<1>9. BatchFresh'
  BY <1>1, <1>2, <1>3, <1>4, <1>6 DEF OnceInv, BatchFresh
<1>. QED  BY <1>7, <1>8, <1>9 DEF OnceInv

LEMMA CommitOnce ==
  ASSUME OnceInv, TypeOK', CommitBatch
  PROVE  OnceInv'
<1>1. /\ UNCHANGED <<ready, live, liveSent, got, faults>>
      /\ receipt' = [v \in Videos |-> IF result[v] = "NONE" THEN receipt[v] ELSE result[v]]
      /\ result' = NoResult /\ page' = {} /\ pc' \in {"again", "done"}
      /\ \A v \in Videos : NoResult[v] = "NONE"
  BY DEF CommitBatch, Receipts, broadcasts, telegram, NoResult
<1>2. Accounted'
  <2>1. Lost' >= Lost
    BY <1>1, LostKept DEF OnceInv
  <2>2. \A v \in Videos : OnRecord(v) => OnRecord(v)'
    BY <1>1 DEF OnceInv, BatchFresh, OnRecord
  <2>. QED  BY <1>1, <2>1, <2>2, AccountedIf
<1>3. Made' /\ LiveFirst' /\ BatchFresh'
  BY <1>1 DEF OnceInv, Made, LiveFirst, BatchFresh
<1>. QED  BY <1>2, <1>3 DEF OnceInv

LEMMA CheckOnce ==
  ASSUME OnceInv, TypeOK', CheckVideo
  PROVE  OnceInv'
<1>1. PICK v \in Videos :
        /\ IsNext(v)
        /\ IF PauseMidBatch THEN page' = {} /\ UNCHANGED <<pc, cursor>>
           ELSE IF v \in Delivered(receipt)
             THEN page' = page \ {v} /\ cursor' = v /\ UNCHANGED pc
           ELSE pc' = "checked" /\ UNCHANGED <<page, cursor>>
  BY DEF CheckVideo
<1>2. /\ UNCHANGED <<ready, live, liveSent, receipt, result, got, faults>> /\ page' \subseteq page
      /\ pc = "paging" /\ TypeOK
  BY <1>1 DEF CheckVideo, broadcasts, telegram, OnceInv
<1>3. Accounted'
  <2>1. Lost' >= Lost
    BY <1>2, LostKept
  <2>. QED  BY <1>2, <2>1, AccountedIf DEF OnRecord
<1>4. CASE pc' = "paging"
  <2>1. Made' /\ LiveFirst' /\ BatchFresh'
    BY <1>2, <1>4 DEF OnceInv, Made, LiveFirst, BatchFresh
  <2>. QED  BY <1>3, <2>1 DEF OnceInv
<1>5. CASE ~PauseMidBatch /\ v \notin Delivered(receipt) /\ pc' = "checked" /\ page' = page
  <2>1. ASSUME NEW u \in Videos, IsNext(u) PROVE u = v
    <3>1. u <= v /\ v <= u /\ u \in Int /\ v \in Int
      BY <1>1, <2>1, NType DEF IsNext, Videos
    <3>. QED  BY <3>1
  <2>2. live[v] = "OVER"
    <3>1. v \in ready
      BY <1>1 DEF OnceInv, BatchFresh, IsNext
    <3>2. live[v] \in LiveStates /\ ~InProgress(v) /\ live[v] # "NONE"
      BY <1>2, <1>5, <3>1 DEF OnceInv, TypeOK, Made, PauseMidBatch, has_live_broadcast_in_progress
    <3>. QED  BY <3>2 DEF InProgress, LiveStates
  <2>3. Made' /\ LiveFirst'
    BY <1>2 DEF OnceInv, Made, LiveFirst
  <2>4. \A u \in Videos : IsNext(u)' => IsNext(u)
    BY <1>5 DEF IsNext
  <2>5. BatchFresh'
    BY <1>2, <1>5, <2>1, <2>2, <2>4 DEF OnceInv, BatchFresh, Delivered
  <2>. QED  BY <1>3, <2>3, <2>5 DEF OnceInv
<1>. QED  BY <1>1, <1>2, <1>4, <1>5

LEMMA WorkingOnce ==
  ASSUME OnceInv, TypeOK', Working
  PROVE  OnceInv'
<1>0. TypeOK
  BY DEF OnceInv
<1>1. CASE get_next_eligible_videos
  <2>1. /\ UNCHANGED <<ready, live, liveSent, receipt, result, got, faults>>
        /\ pc = "running" /\ pc' \in {"done", "paging"} /\ page' \subseteq ready
    BY <1>1 DEF get_next_eligible_videos, Ahead, Unseen, broadcasts, telegram
  <2>2. result = NoResult /\ \A v \in ready : result[v] = "NONE"
    BY <1>0, <2>1 DEF OnceInv, BatchFresh, NoResult, TypeOK
  <2>3. Accounted'
    <3>1. Lost' >= Lost
      BY <1>0, <2>1, LostKept
    <3>. QED  BY <2>1, <3>1, AccountedIf DEF OnRecord
  <2>4. Made' /\ LiveFirst' /\ BatchFresh'
    BY <2>1, <2>2 DEF OnceInv, Made, LiveFirst, BatchFresh
  <2>. QED  BY <2>3, <2>4 DEF OnceInv
<1>2. CASE (\E j \in JobIds : BeginJob(j)) \/ LoadCatchup \/ Halt \/ YieldToLive \/ StartBatch
  <2>1. /\ UNCHANGED <<ready, live, liveSent, receipt, result, got, faults, page>>
        /\ pc \in {"idle", "begun", "loaded", "refused"}
        /\ pc' \in {"begun", "loaded", "refused", "running", "done"}
    BY <1>2 DEF BeginJob, LoadCatchup, Halt, YieldToLive, StartBatch, broadcasts, telegram, batch
  <2>2. Accounted'
    <3>1. Lost' >= Lost
      BY <1>0, <2>1, LostKept
    <3>. QED  BY <2>1, <3>1, AccountedIf DEF OnRecord
  <2>3. Made' /\ LiveFirst' /\ BatchFresh'
    BY <2>1 DEF OnceInv, Made, LiveFirst, BatchFresh, NoResult
  <2>. QED  BY <2>2, <2>3 DEF OnceInv
<1>3. CASE FinishJob
  <2>1. /\ UNCHANGED <<ready, live, liveSent, receipt, got, faults>> /\ Release
        /\ pc \in {"done", "again"}
    BY <1>3 DEF FinishJob, broadcasts, telegram
  <2>2. result = NoResult
    BY <2>1 DEF OnceInv, BatchFresh
  <2>. QED  BY <1>0, <2>1, <2>2, LostKept, OnceDropped
<1>4. CASE RunRaises \/ Crash
  <2>1. /\ UNCHANGED <<ready, live, liveSent, receipt, got>> /\ Release
        /\ Spend("raise") \/ Spend("crash")
    BY <1>4 DEF RunRaises, Crash, broadcasts, telegram
  <2>2. Lost' >= Lost + 1
    BY <1>0, <2>1, LostGrows, FaultKinds
  <2>. QED  BY <2>1, <2>2, OnceDropped
<1>. QED  BY <1>1, <1>2, <1>3, <1>4, SendOnce, CommitOnce, CheckOnce DEF Working, WorkerStep

LEMMA RestOnce ==
  ASSUME OnceInv, TypeOK', Starting \/ Passing
  PROVE  OnceInv'
<1>1. UNCHANGED <<ready, live, liveSent, receipt, result, got, page, pc>>
  BY DEF Starting, StartReads, initialize_or_resume_catchup, StartCommits, StartFails, Passing,
         HeartbeatAges, DelayElapses, RetryReads, RetryWrites, CycleStep, CycleScans, reconcile_stalled_catchups,
         CycleCommits, CycleDies, broadcasts, telegram, batch
<1>2. UNCHANGED faults \/ \E k \in Faults : Spend(k)
  BY FaultKinds DEF Starting, StartReads, initialize_or_resume_catchup, StartCommits, StartFails,
         Passing, HeartbeatAges, DelayElapses, RetryReads, RetryWrites, CycleStep, CycleScans,
         reconcile_stalled_catchups, CycleCommits, CycleDies
<1>3. Lost' >= Lost
  BY <1>2, LostKept, LostGrows DEF OnceInv
<1>. QED  BY <1>1, <1>3, OnceKept

\* A viewer gets a video twice only if a worker died or a batch was rolled back
\* before it was committed that it was sent, or if the answer to a message was lost.
THEOREM SentOnceOnly == Spec => []SentOnce
<1>1. Init => OnceInv
  <2>. SUFFICES ASSUME Init PROVE OnceInv
    OBVIOUS
  <2>1. /\ \A v \in Videos : result[v] = "NONE" /\ receipt[v] = "NONE" /\ got[v] = 0
        /\ Lost = 0
    BY FaultKinds DEF Init, NoResult, Lost
  <2>2. Accounted
    BY <2>1 DEF Accounted
  <2>. QED  BY <2>1, <2>2, InitType DEF Init, OnceInv, Made, LiveFirst, BatchFresh
<1>2. OnceInv /\ [Next]_vars => OnceInv'
  <2>. SUFFICES ASSUME OnceInv, [Next]_vars PROVE OnceInv'
    OBVIOUS
  <2>1. TypeOK /\ TypeOK'
    BY StepType DEF OnceInv
  <2>2. CASE UNCHANGED vars
    BY <2>1, <2>2, LostKept, OnceKept DEF vars, broadcasts, telegram, batch
  <2>. QED  BY <2>1, <2>2, NextIs, OutsideOnce, WorkingOnce, RestOnce
<1>3. OnceInv => SentOnce
  <2>. SUFFICES ASSUME OnceInv, NEW v \in Videos
                PROVE  got[v] <= 1 + faults["crash"] + faults["raise"] + faults["lost"]
    BY DEF SentOnce
  <2>1. /\ got[v] \in Nat /\ faults["crash"] \in Nat /\ faults["raise"] \in Nat
        /\ faults["lost"] \in Nat
    BY FaultKinds DEF OnceInv, TypeOK
  <2>2. got[v] <= (IF OnRecord(v) THEN 1 ELSE 0) + Lost
    BY DEF OnceInv, Accounted
  <2>. QED  BY <2>1, <2>2 DEF Lost
<1>. QED  BY <1>1, <1>2, <1>3, PTL DEF Spec
=============================================================================
