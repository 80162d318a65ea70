------------------------ MODULE OwnerCampaignProofs ------------------------
(***************************************************************************)
(* For any campaigns, workers and number of clients, any page size and any  *)
(* faults: the variables keep their types, and a campaign keeps the promise *)
(* of an announcement, step by step: it is over only when everybody it was  *)
(* made for, and who is still there, has a receipt.  Of a campaign whose    *)
(* job was never taken from a worker at work on it, nobody gets more than   *)
(* one message for itself and one for every run or answer that was lost.    *)
(***************************************************************************)
EXTENDS OwnerCampaign, FiniteSetTheorems, WellFoundedInduction, TLAPS

----------------------------------------------------------------------------
(* Clients, rows and jobs.                                                  *)

LEMMA CountType ==
  ASSUME NEW S \in SUBSET Clients
  PROVE  Cardinality(S) \in Nat
<1>1. IsFiniteSet(Clients)
  BY FS_Interval, NType DEF Clients
<1>. QED  BY <1>1, FS_Subset, FS_CardinalityType

\* Of the sets of clients beyond a member of S, the least one is empty.
LEMMA GreatestClient ==
  ASSUME NEW S \in SUBSET Clients, S # {}
  PROVE  \E m \in S : \A v \in S : v <= m
<1>. DEFINE Beyond(m) == {v \in S : m < v}
            R == StrictSubsetOrdering(Clients)
            T == {Beyond(m) : m \in S}
<1>1. IsWellFoundedOn(R, SUBSET Clients)
  <2>1. IsFiniteSet(Clients)
    BY FS_Interval, NType DEF Clients
  <2>. QED  BY <2>1, FS_StrictSubsetOrderingWellFounded, FS_FiniteSubsetsOfFinite
<1>2. T \subseteq SUBSET Clients /\ T # {}
  OBVIOUS
<1>3. PICK x \in T : \A y \in T : <<y, x>> \notin R
  <2>. HIDE DEF R, T
  <2>. QED  BY <1>1, <1>2, WFMin
<1>4. PICK m \in S : x = Beyond(m)
  OBVIOUS
<1>5. ASSUME NEW v \in S, m < v PROVE FALSE
  <2>1. v \in Beyond(m) /\ v \notin Beyond(v)
    BY <1>5 DEF Clients
  <2>2. Beyond(v) \subseteq Beyond(m)
    <3>1. ASSUME NEW u \in S, v < u PROVE m < u
      <4>1. u \in Int /\ v \in Int /\ m \in Int
        BY NType DEF Clients
      <4>. QED  BY <1>5, <3>1, <4>1
    <3>. QED  BY <3>1
  <2>3. <<Beyond(v), Beyond(m)>> \in R
    BY <2>1, <2>2 DEF StrictSubsetOrdering
  <2>. QED  BY <1>3, <1>4, <2>3
<1>. QED  BY <1>5 DEF Clients

LEMMA MaxActiveIsMax ==
  /\ MaxActive \in Nat
  /\ \A v \in Active : v <= MaxActive
<1>1. Active \subseteq Clients
  BY DEF Active
<1>2. CASE Active = {}
  BY <1>2 DEF MaxActive
<1>3. CASE Active # {}
  <2>1. \E m \in Active : \A v \in Active : v <= m
    BY <1>1, <1>3, GreatestClient
  <2>2. MaxActive = CHOOSE m \in Active : \A v \in Active : v <= m
    BY <1>3 DEF MaxActive
  <2>3. MaxActive \in Active /\ \A v \in Active : v <= MaxActive
    BY <2>1, <2>2, Zenon
  <2>. QED  BY <1>1, <2>3 DEF Clients
<1>. QED  BY <1>2, <1>3

\* Each column is the one of the row or the one of the copy.
LEMMA FlushType ==
  ASSUME TypeOK, NEW w \in Workers, NEW new \in Row, hold[w] \in Campaigns
  PROVE  /\ Flushed(w, new) \in [Campaigns -> Row]
         /\ \A c \in Campaigns \ {hold[w]} : Flushed(w, new)[c] = row[c]
         /\ \A k \in {"status", "last", "max", "total", "sent", "failed", "blocked"} :
              Flushed(w, new)[hold[w]][k] = IF new[k] = copy[w][k] THEN row[hold[w]][k] ELSE new[k]
<1>. DEFINE Columns == {"status", "last", "max", "total", "sent", "failed", "blocked"}
            r == [k \in Columns |-> IF new[k] = copy[w][k] THEN row[hold[w]][k] ELSE new[k]]
<1>1. DOMAIN new = Columns
  BY DEF Row
<1>2. Flushed(w, new) = [row EXCEPT ![hold[w]] = r]
  BY <1>1 DEF Flushed
<1>3. r \in Row
  <2>1. row[hold[w]] \in Row
    BY DEF TypeOK
  <2>2. r = [status |-> r.status, last |-> r.last, max |-> r.max, total |-> r.total,
             sent |-> r.sent, failed |-> r.failed, blocked |-> r.blocked]
    OBVIOUS
  <2>3. /\ r.status \in {new.status, row[hold[w]].status}
        /\ r.last \in {new.last, row[hold[w]].last}
        /\ r.max \in {new.max, row[hold[w]].max}
        /\ r.total \in {new.total, row[hold[w]].total}
        /\ r.sent \in {new.sent, row[hold[w]].sent}
        /\ r.failed \in {new.failed, row[hold[w]].failed}
        /\ r.blocked \in {new.blocked, row[hold[w]].blocked}
    OBVIOUS
  <2>. HIDE DEF r
  <2>. QED  BY <2>1, <2>2, <2>3 DEF Row
<1>4. \A k \in Columns : r[k] = IF new[k] = copy[w][k] THEN row[hold[w]][k] ELSE new[k]
  OBVIOUS
<1>. HIDE DEF r
<1>. QED  BY <1>2, <1>3, <1>4 DEF TypeOK

LEMMA JobChanges ==
  ASSUME NEW r \in Job
  PROVE  /\ create_job \in Job /\ mark_completed(r) \in Job /\ update_heartbeat(r) \in Job
         /\ [r EXCEPT !.stale = TRUE] \in Job /\ [r EXCEPT !.due = TRUE] \in Job
         /\ \A n : recover_stale(r, n, MaxAttempts) \in Job
         /\ mark_running(r) \in Job /\ retry_job(r) \in Job
         /\ create_job.status # "ABSENT" /\ mark_completed(r).status # "ABSENT"
         /\ update_heartbeat(r).status = r.status
         /\ mark_running(r).status # "ABSENT"
<1>1. r.attempts + 1 \in Nat
  BY DEF Job
<1>2. mark_running(r) \in Job /\ mark_running(r).status # "ABSENT"
  BY <1>1 DEF mark_running, Job, JobStatuses
<1>3. /\ create_job \in Job /\ mark_completed(r) \in Job /\ update_heartbeat(r) \in Job
      /\ [r EXCEPT !.stale = TRUE] \in Job /\ [r EXCEPT !.due = TRUE] \in Job
      /\ create_job.status # "ABSENT" /\ mark_completed(r).status # "ABSENT"
      /\ update_heartbeat(r).status = r.status /\ retry_job(r) \in Job
  BY DEF create_job, mark_completed, update_heartbeat, retry_job, Job, JobStatuses
<1>4. \A n : recover_stale(r, n, MaxAttempts) \in Job
  BY DEF recover_stale, Job, JobStatuses
<1>. QED  BY <1>2, <1>3, <1>4

----------------------------------------------------------------------------
(* Types.                                                                   *)

\* The types, and that a worker that is not idle holds a campaign.
Typed ==
  /\ TypeOK
  /\ \A w \in Workers : pc[w] # "idle" => hold[w] \in Campaigns

LEMMA NoAnswerType == NoAnswer \in Answers
BY DEF NoAnswer, Answers

LEMMA NoRowType == NoRow \in Row
BY DEF NoRow, Row

LEMMA InitTyped == Init => Typed
<1>. SUFFICES ASSUME Init PROVE Typed
  OBVIOUS
<1>1. NoJob \in Job
  BY DEF NoJob, Job, JobStatuses
<1>2. [v \in Clients |-> 0] \in [Clients -> Nat]
  OBVIOUS
<1>. QED  BY <1>1, <1>2, NoAnswerType, NoRowType DEF Init, Typed, TypeOK, PCs

LEMMA SpendType ==
  ASSUME TypeOK, NEW k \in Faults, Spend(k)
  PROVE  faults' \in [Faults -> Nat]
BY DEF TypeOK, Spend

LEMMA ForgetType ==
  ASSUME TypeOK, NEW w \in Workers, Forget(w)
  PROVE  prior' \in [Workers -> Answers] /\ result' \in [Workers -> Answers]
BY NoAnswerType DEF TypeOK, Forget

LEMMA ReleaseTyped ==
  ASSUME Typed, NEW w \in Workers, Release(w),
         client' = client, row' \in [Campaigns -> Row], receipt' = receipt, sends' = sends,
         job' \in [Campaigns -> Job], UNCHANGED <<scan, pressed>>, faults' \in [Faults -> Nat],
         steady' = steady, handed' = handed
  PROVE  Typed'
<1>1. prior' \in [Workers -> Answers] /\ result' \in [Workers -> Answers]
  BY ForgetType DEF Typed, Release
<1>2. copy' \in [Workers -> Row]
  BY NoRowType DEF Typed, TypeOK, Release
<1>. QED  BY <1>1, <1>2 DEF Typed, TypeOK, Release, PCs

LEMMA AnswerType ==
  ASSUME Typed, NEW w \in Workers, NEW v \in Clients, Answer(w, v), hold[w] \in Campaigns
  PROVE  /\ result' \in [Workers -> Answers]
         /\ sends' \in [Campaigns -> [Clients -> Nat]]
         /\ faults' \in [Faults -> Nat]
<1>1. PICK o \in Outcomes :
        /\ result' = [result EXCEPT ![w] = [result[w] EXCEPT ![v] = o]]
        /\ \/ sends' = [sends EXCEPT ![hold[w]] = [sends[hold[w]] EXCEPT ![v] = @ + 1]]
           \/ sends' = sends
        /\ Spend("block") \/ Spend("lost") \/ UNCHANGED faults
  BY DEF Answer, Result, Arrives, Outcomes
<1>2. [result[w] EXCEPT ![v] = o] \in Answers
  BY DEF Typed, TypeOK, Answers
<1>3. [sends[hold[w]] EXCEPT ![v] = @ + 1] \in [Clients -> Nat]
  BY DEF Typed, TypeOK
<1>4. faults' \in [Faults -> Nat]
  BY <1>1, SpendType DEF Typed, TypeOK, Faults
<1>. QED  BY <1>1, <1>2, <1>3, <1>4 DEF Typed, TypeOK

\* A commit: the counts are added to the copy, the receipts stored.
LEMMA CommitType ==
  ASSUME Typed, NEW w \in Workers, hold[w] \in Campaigns, NEW new \in Row,
         Flush(w, new), Store(w), Heartbeat(w)
  PROVE  /\ row' \in [Campaigns -> Row] /\ copy' \in [Workers -> Row]
         /\ receipt' \in [Campaigns -> Answers] /\ job' \in [Campaigns -> Job]
<1>1. row' \in [Campaigns -> Row] /\ copy' \in [Workers -> Row]
  BY FlushType DEF Flush, Typed, TypeOK
<1>2. receipt' \in [Campaigns -> Answers]
  <2>1. [v \in Clients |-> IF Writes(w, v) THEN result[w][v] ELSE receipt[hold[w]][v]] \in Answers
    BY DEF Typed, TypeOK, Answers
  <2>. QED  BY <2>1 DEF Store, Typed, TypeOK
<1>3. job' \in [Campaigns -> Job]
  <2>1. update_heartbeat(job[hold[w]]) \in Job
    BY JobChanges DEF Typed, TypeOK
  <2>. QED  BY <2>1 DEF Heartbeat, Typed, TypeOK
<1>. QED  BY <1>1, <1>2, <1>3

LEMMA PageRow ==
  ASSUME Typed, NEW w \in Workers
  PROVE  LET new == [copy[w] EXCEPT !.sent = @ + Counted(w, "SENT"),
                                    !.failed = @ + Counted(w, "FAILED"),
                                    !.blocked = @ + Counted(w, "BLOCKED"),
                                    !.last = cursor[w]]
         IN  /\ new \in Row /\ new.last = cursor[w] /\ new.max = copy[w].max
             /\ new.status = copy[w].status
<1>1. \A o : Counted(w, o) \in Nat
  BY CountType DEF Counted, With
<1>. DEFINE a == copy[w].sent + Counted(w, "SENT")
            b == copy[w].failed + Counted(w, "FAILED")
            c == copy[w].blocked + Counted(w, "BLOCKED")
<1>2. copy[w] \in Row /\ cursor[w] \in Nat
  BY DEF Typed, TypeOK
<1>3. a \in Int /\ b \in Int /\ c \in Int
  BY <1>1, <1>2 DEF Row
<1>. HIDE DEF a, b, c
<1>4. LET new == [copy[w] EXCEPT !.sent = a, !.failed = b, !.blocked = c, !.last = cursor[w]]
      IN  /\ new \in Row /\ new.last = cursor[w] /\ new.max = copy[w].max
          /\ new.status = copy[w].status
  BY <1>2, <1>3 DEF Row
<1>. QED  BY <1>4 DEF a, b, c

LEMMA ResendRow ==
  ASSUME Typed, NEW w \in Workers
  PROVE  LET new == [copy[w] EXCEPT !.sent = @ + Counted(w, "SENT"),
                                    !.blocked = @ + Counted(w, "BLOCKED"),
                                    !.failed = @ - Counted(w, "SENT") - Counted(w, "BLOCKED")]
         IN  /\ new \in Row /\ new.last = copy[w].last /\ new.max = copy[w].max
             /\ new.status = copy[w].status
<1>1. \A o : Counted(w, o) \in Nat
  BY CountType DEF Counted, With
<1>. DEFINE a == copy[w].sent + Counted(w, "SENT")
            b == copy[w].blocked + Counted(w, "BLOCKED")
            c == copy[w].failed - Counted(w, "SENT") - Counted(w, "BLOCKED")
<1>2. copy[w] \in Row
  BY DEF Typed, TypeOK
<1>3. a \in Int /\ b \in Int /\ c \in Int
  BY <1>1, <1>2 DEF Row
<1>. HIDE DEF a, b, c
<1>4. LET new == [copy[w] EXCEPT !.sent = a, !.blocked = b, !.failed = c]
      IN  /\ new \in Row /\ new.last = copy[w].last /\ new.max = copy[w].max
          /\ new.status = copy[w].status
  BY <1>2, <1>3 DEF Row
<1>. QED  BY <1>4 DEF a, b, c

LEMMA EndRow ==
  ASSUME Typed, NEW w \in Workers
  PROVE  LET new == [copy[w] EXCEPT
                       !.total = copy[w].sent + copy[w].failed + copy[w].blocked,
                       !.status = FinalStatus(copy[w])]
         IN  /\ new \in Row /\ new.last = copy[w].last /\ new.max = copy[w].max
             /\ new.status \in Over
<1>. DEFINE a == copy[w].sent + copy[w].failed + copy[w].blocked
            f == FinalStatus(copy[w])
<1>1. copy[w] \in Row
  BY DEF Typed, TypeOK
<1>2. a \in Int /\ f \in Over
  BY <1>1 DEF Row, FinalStatus, Over
<1>. HIDE DEF a, f
<1>3. LET new == [copy[w] EXCEPT !.total = a, !.status = f]
      IN  /\ new \in Row /\ new.last = copy[w].last /\ new.max = copy[w].max
          /\ new.status \in Over
  BY <1>1, <1>2 DEF Row
<1>. QED  BY <1>3 DEF a, f

\* The steps in the middle of a run that commit nothing.
LEMMA QuietTyped ==
  ASSUME Typed, NEW w \in Workers,
         \/ FetchPage(w) \/ CheckReceipt(w) \/ Send(w) \/ StartRetries(w)
         \/ SkipInactive(w) \/ Resend(w)
  PROVE  Typed'
<1>. USE DEF Typed, TypeOK
<1>0. hold[w] \in Campaigns /\ pc[w] # "idle"
  BY DEF FetchPage, CheckReceipt, Send, StartRetries, SkipInactive, Resend
<1>1. CASE FetchPage(w)
  <2>1. Ahead(w) \subseteq Clients
    BY DEF Ahead, Active
  <2>2. todo' \in [Workers -> SUBSET Clients]
    BY <1>1, <2>1 DEF FetchPage
  <2>. QED  BY <1>0, <1>1, <2>2 DEF FetchPage, PCs
<1>2. CASE CheckReceipt(w)
  <2>1. PICK v \in Clients :
          \/ /\ cursor' = [cursor EXCEPT ![w] = v]
             /\ todo' = [todo EXCEPT ![w] = @ \ {v}]
             /\ UNCHANGED <<pc, prior>>
          \/ /\ prior' = [prior EXCEPT ![w] = [prior[w] EXCEPT ![v] = receipt[hold[w]][v]]]
             /\ pc' = [pc EXCEPT ![w] = "checked"]
             /\ UNCHANGED <<cursor, todo>>
    BY <1>2 DEF CheckReceipt
  <2>2. [prior[w] EXCEPT ![v] = receipt[hold[w]][v]] \in Answers
    BY <1>0 DEF Answers
  <2>3. v \in Nat
    BY NType DEF Clients
  <2>4. cursor' \in [Workers -> Nat] /\ todo' \in [Workers -> SUBSET Clients]
    BY <2>1, <2>3
  <2>5. prior' \in [Workers -> Answers] /\ pc' \in [Workers -> PCs]
    BY <2>1, <2>2 DEF PCs
  <2>. QED  BY <1>0, <1>2, <2>4, <2>5 DEF CheckReceipt
<1>3. CASE Send(w)
  <2>1. PICK v \in Clients :
          /\ Answer(w, v) /\ cursor' = [cursor EXCEPT ![w] = v]
          /\ todo' = [todo EXCEPT ![w] = @ \ {v}]
    BY <1>3 DEF Send
  <2>2. /\ result' \in [Workers -> Answers] /\ sends' \in [Campaigns -> [Clients -> Nat]]
        /\ faults' \in [Faults -> Nat]
    BY <1>0, <2>1, AnswerType
  <2>3. cursor' \in [Workers -> Nat] /\ todo' \in [Workers -> SUBSET Clients]
    BY <2>1, NType DEF Clients
  <2>. QED  BY <1>0, <1>3, <2>2, <2>3 DEF Send, PCs
<1>4. CASE StartRetries(w)
  BY <1>0, <1>4 DEF StartRetries, PCs, FailedReceipts, With
<1>5. CASE SkipInactive(w)
  BY <1>0, <1>5 DEF SkipInactive
<1>6. CASE Resend(w)
  <2>1. PICK v \in Clients :
          /\ Answer(w, v)
          /\ prior' = [prior EXCEPT ![w] = [prior[w] EXCEPT ![v] = "FAILED"]]
          /\ todo' = [todo EXCEPT ![w] = @ \ {v}]
    BY <1>6 DEF Resend, Active
  <2>2. /\ result' \in [Workers -> Answers] /\ sends' \in [Campaigns -> [Clients -> Nat]]
        /\ faults' \in [Faults -> Nat]
    BY <1>0, <2>1, AnswerType
  <2>3. [prior[w] EXCEPT ![v] = "FAILED"] \in Answers
    BY DEF Answers, Outcomes
  <2>4. prior' \in [Workers -> Answers] /\ todo' \in [Workers -> SUBSET Clients]
    BY <2>1, <2>3
  <2>. QED  BY <1>0, <1>6, <2>2, <2>4 DEF Resend, PCs
<1>. QED  BY <1>1, <1>2, <1>3, <1>4, <1>5, <1>6

\* The steps that commit, or end the run.
LEMMA CommitTyped ==
  ASSUME Typed, NEW w \in Workers,
         \/ StartRun(w) \/ CommitPage(w) \/ CommitResend(w) \/ EndRun(w)
         \/ RunRaises(w) \/ Crash(w)
  PROVE  Typed'
<1>0. hold[w] \in Campaigns /\ pc[w] # "idle"
  BY DEF StartRun, CommitPage, CommitResend, EndRun, RunRaises, Crash, Typed
<1>1. CASE StartRun(w)
  <2>. DEFINE new == [row[hold[w]] EXCEPT !.status = "RUNNING"]
  <2>1. new \in Row /\ new.last \in Nat
    <3>1. row[hold[w]] \in Row
      BY <1>0 DEF Typed, TypeOK
    <3>. QED  BY <3>1 DEF Row
  <2>2. /\ row' = [row EXCEPT ![hold[w]] = new] /\ copy' = [copy EXCEPT ![w] = new]
        /\ cursor' = [cursor EXCEPT ![w] = new.last]
    BY <1>1 DEF StartRun
  <2>. HIDE DEF new
  <2>3. /\ row' \in [Campaigns -> Row] /\ copy' \in [Workers -> Row]
        /\ cursor' \in [Workers -> Nat]
    BY <1>0, <2>1, <2>2 DEF Typed, TypeOK
  <2>. QED  BY <1>0, <1>1, <2>3 DEF StartRun, Typed, TypeOK, PCs
<1>2. CASE CommitPage(w)
  <2>1. PICK new \in Row : Flush(w, new)
    BY <1>2, PageRow DEF CommitPage
  <2>2. /\ row' \in [Campaigns -> Row] /\ copy' \in [Workers -> Row]
        /\ receipt' \in [Campaigns -> Answers] /\ job' \in [Campaigns -> Job]
    BY <1>0, <1>2, <2>1, CommitType DEF CommitPage
  <2>3. prior' \in [Workers -> Answers] /\ result' \in [Workers -> Answers]
    BY <1>2, ForgetType DEF CommitPage, Typed
  <2>. QED  BY <1>0, <1>2, <2>2, <2>3 DEF CommitPage, Typed, TypeOK, PCs
<1>3. CASE CommitResend(w)
  <2>1. PICK new \in Row : Flush(w, new)
    BY <1>3, ResendRow DEF CommitResend
  <2>2. /\ row' \in [Campaigns -> Row] /\ copy' \in [Workers -> Row]
        /\ receipt' \in [Campaigns -> Answers] /\ job' \in [Campaigns -> Job]
    BY <1>0, <1>3, <2>1, CommitType DEF CommitResend
  <2>3. prior' \in [Workers -> Answers] /\ result' \in [Workers -> Answers]
    BY <1>3, ForgetType DEF CommitResend, Typed
  <2>. QED  BY <1>0, <1>3, <2>2, <2>3 DEF CommitResend, Typed, TypeOK, PCs
<1>4. CASE EndRun(w)
  <2>1. PICK new \in Row : row' = Flushed(w, new)
    BY <1>4, EndRow DEF EndRun
  <2>2. row' \in [Campaigns -> Row]
    BY <1>0, <2>1, FlushType DEF Typed
  <2>3. job' \in [Campaigns -> Job]
    <3>1. mark_completed(job[hold[w]]) \in Job
      BY <1>0, JobChanges DEF Typed, TypeOK
    <3>. QED  BY <1>4, <3>1 DEF EndRun, Typed, TypeOK
  <2>. QED  BY <1>4, <2>2, <2>3, ReleaseTyped DEF EndRun, Typed, TypeOK
<1>5. CASE RunRaises(w)
  BY <1>5, ReleaseTyped DEF RunRaises, Typed, TypeOK
<1>6. CASE Crash(w)
  <2>1. faults' \in [Faults -> Nat]
    BY <1>6, SpendType DEF Crash, Faults, Typed
  <2>. QED  BY <1>6, <2>1, ReleaseTyped DEF Crash, Typed, TypeOK
<1>. QED  BY <1>1, <1>2, <1>3, <1>4, <1>5, <1>6

LEMMA StepTyped == Typed /\ [Next]_vars => Typed'
<1>. SUFFICES ASSUME Typed, [Next]_vars PROVE Typed'
  OBVIOUS
<1>1. CASE UNCHANGED vars
  BY <1>1 DEF vars, work, Typed, TypeOK
<1>2. ASSUME NEW v \in Clients, ClientJoins(v) \/ suspend_client(v) \/ reactivate_client(v)
      PROVE  Typed'
  <2>1. faults' \in [Faults -> Nat]
    BY <1>2, SpendType DEF ClientJoins, suspend_client, reactivate_client, Faults, Typed
  <2>2. client' \in [Clients -> {"ABSENT", "ACTIVE", "SUSPENDED"}]
    BY <1>2 DEF ClientJoins, suspend_client, reactivate_client, Typed, TypeOK
  <2>3. steady' \in [Campaigns -> SUBSET Clients]
    BY <1>2 DEF ClientJoins, suspend_client, reactivate_client, Typed, TypeOK
  <2>4. UNCHANGED <<row, receipt, sends, job, work, scan, pressed, handed>>
    BY <1>2 DEF ClientJoins, suspend_client, reactivate_client
  <2>. QED  BY <2>1, <2>2, <2>3, <2>4 DEF work, Typed, TypeOK
<1>3. ASSUME NEW c \in Campaigns, create(c) PROVE Typed'
  <2>1. Cardinality(Active) \in Int /\ MaxActive \in Nat
    BY CountType, MaxActiveIsMax DEF Active
  <2>. DEFINE x == MaxActive
              y == Cardinality(Active)
  <2>2. [NoRow EXCEPT !.status = "PENDING", !.max = x, !.total = y] \in Row
    <3>1. x \in Nat /\ y \in Int
      BY <2>1
    <3>. HIDE DEF x, y
    <3>2. \A r \in Row : [r EXCEPT !.status = "PENDING", !.max = x, !.total = y] \in Row
      BY <3>1 DEF Row
    <3>. QED  BY <3>2, NoRowType
  <2>3. create_job \in Job
    BY DEF create_job, Job, JobStatuses
  <2>4. row' \in [Campaigns -> Row] /\ job' \in [Campaigns -> Job]
    BY <1>3, <2>2, <2>3 DEF create, Typed, TypeOK
  <2>. QED  BY <1>3, <2>4 DEF create, work, Active, Typed, TypeOK
<1>4. ASSUME NEW c \in Campaigns, HeartbeatAges(c) \/ BackoffElapses(c) PROVE Typed'
  <2>1. faults' \in [Faults -> Nat]
    BY <1>4, SpendType DEF HeartbeatAges, BackoffElapses, Faults, Typed, TypeOK
  <2>2. job[c] \in Job
    BY DEF Typed, TypeOK
  <2>3. job' \in [Campaigns -> Job]
    BY <1>4, <2>2, JobChanges DEF HeartbeatAges, BackoffElapses, Typed, TypeOK
  <2>. QED  BY <1>4, <2>1, <2>3 DEF HeartbeatAges, BackoffElapses, work, Typed, TypeOK
<1>5. ASSUME NEW w \in Workers, NEW c \in Campaigns, claim_owner_campaign_job(w, c)
      PROVE  Typed'
  <2>1. job[c] \in Job
    BY DEF Typed, TypeOK
  <2>2. job' \in [Campaigns -> Job]
    BY <1>5, <2>1, JobChanges DEF claim_owner_campaign_job, Typed, TypeOK
  <2>. QED  BY <1>5, <2>2 DEF claim_owner_campaign_job, Typed, TypeOK, PCs
<1>6. ASSUME NEW w \in Workers, Step(w) \/ Crash(w) PROVE Typed'
  BY <1>6, QuietTyped, CommitTyped DEF Step
<1>7. CASE get_stale_running_jobs
  BY <1>7 DEF get_stale_running_jobs, work, Typed, TypeOK, Job
<1>8. CASE recover_stale_running_jobs
  <2>1. job' \in [Campaigns -> Job]
    BY <1>8, JobChanges DEF recover_stale_running_jobs, Typed, TypeOK
  <2>2. scan' \in [Campaigns -> Nat] /\ handed' \subseteq Campaigns
    BY <1>8 DEF recover_stale_running_jobs, Scanned, Typed, TypeOK
  <2>3. UNCHANGED <<client, row, receipt, sends, work, pressed, faults, steady>>
    BY <1>8 DEF recover_stale_running_jobs
  <2>. QED  BY <2>1, <2>2, <2>3 DEF work, Typed, TypeOK
<1>9. ASSUME NEW c \in Campaigns, RetryReads(c) \/ RetryWrites(c) PROVE Typed'
  <2>1. faults' \in [Faults -> Nat]
    BY <1>9, SpendType DEF RetryReads, RetryWrites, Faults, Typed, TypeOK
  <2>2. job' \in [Campaigns -> Job]
    <3>1. job[c] \in Job
      BY DEF Typed, TypeOK
    <3>2. retry_job(job[c]) \in Job
      BY <3>1, JobChanges
    <3>. QED  BY <1>9, <3>2 DEF RetryReads, RetryWrites, Typed, TypeOK
  <2>. QED  BY <1>9, <2>1, <2>2 DEF RetryReads, RetryWrites, work, Typed, TypeOK
<1>. QED  BY <1>1, <1>2, <1>3, <1>4, <1>5, <1>6, <1>7, <1>8, <1>9 DEF Next

\* Every variable of the campaigns always has its type.
THEOREM TypeCorrect == Spec => []TypeOK
<1>1. Typed => TypeOK
  BY DEF Typed
<1>. QED  BY <1>1, InitTyped, StepTyped, PTL DEF Spec
----------------------------------------------------------------------------
(* Everybody is reached.                                                    *)

Started == {"RUNNING"} \cup Over

\* Whoever works on a campaign works on one that was created.
Created ==
  /\ \A c \in Scanned \cup pressed : row[c].status # "ABSENT"
  /\ \A c \in Campaigns : job[c].status # "ABSENT" => row[c].status # "ABSENT"
  /\ \A w \in Workers : pc[w] # "idle" => row[hold[w]].status # "ABSENT"

\* The clients a campaign was made for, and who are still ACTIVE, are within its
\* bounds, and have a receipt as far as last_processed_client_id goes.
Invited(c) ==
  \A v \in steady[c] :
    /\ client[v] = "ACTIVE" /\ v <= row[c].max
    /\ v <= row[c].last => receipt[c][v] # "NONE"

\* A run is of a campaign that has begun, within the bounds of its row.
OwnRow(w) ==
  pc[w] \notin {"idle", "claimed"} =>
    /\ row[hold[w]].status \in Started
    /\ copy[w].status = "RUNNING" /\ copy[w].max = row[hold[w]].max

\* Between pages, nothing is left of the last one.
Fresh(w) ==
  pc[w] \in {"idle", "claimed", "ready"} => prior[w] = NoAnswer /\ result[w] = NoAnswer

\* Behind the cursor, everybody has a receipt or gets one with the page.
Covered(w) ==
  pc[w] \in {"ready", "paging", "checked"} =>
    \A v \in steady[hold[w]] :
      v <= cursor[w] => receipt[hold[w]][v] # "NONE" \/ result[w][v] # "NONE"

\* A receipt the run has found is there.
Found(w) ==
  pc[w] \in {"paging", "checked"} =>
    \A v \in Clients : prior[w][v] # "NONE" => receipt[hold[w]][v] # "NONE"

\* The page has no gaps.
NoGaps(w) ==
  pc[w] \in {"paging", "checked"} =>
    \A u \in todo[w] :
      /\ cursor[w] < u
      /\ \A v \in steady[hold[w]] : cursor[w] < v /\ v < u => v \in todo[w]

\* Once the failed receipts are tried again, everybody has one.
AllReached(w) ==
  pc[w] \in {"retrying", "resent"} => \A v \in steady[hold[w]] : receipt[hold[w]][v] # "NONE"

WorkerInv(w) ==
  OwnRow(w) /\ Fresh(w) /\ Covered(w) /\ Found(w) /\ NoGaps(w) /\ AllReached(w)

CampaignInv ==
  /\ Typed
  /\ Created
  /\ \A c \in Campaigns : Invited(c)
  /\ \A w \in Workers : WorkerInv(w)

LEMMA InitCampaigns == Init => CampaignInv
<1>. SUFFICES ASSUME Init PROVE CampaignInv
  OBVIOUS
<1>1. Typed
  BY InitTyped
<1>2. Created
  BY DEF Init, Created, NoJob, Scanned
<1>3. \A c \in Campaigns : Invited(c)
  BY DEF Init, Invited
<1>4. \A w \in Workers : WorkerInv(w)
  BY DEF Init, WorkerInv, OwnRow, Fresh, Covered, Found, NoGaps, AllReached
<1>. QED  BY <1>1, <1>2, <1>3, <1>4 DEF CampaignInv

\* What no step but the creation of c does to it: lose a receipt, add a client,
\* move its bounds, or take it back to PENDING.
Forward(c) ==
  /\ row[c].status # "ABSENT" => row'[c].status # "ABSENT"
  /\ row[c].status \in Started => row'[c].status \in Started
  /\ row'[c].max = row[c].max
  /\ steady'[c] \subseteq steady[c]
  /\ \A v \in Clients : receipt[c][v] # "NONE" => receipt'[c][v] # "NONE"

Idles(u) ==
  /\ pc'[u] = pc[u] /\ hold'[u] = hold[u] /\ copy'[u] = copy[u] /\ cursor'[u] = cursor[u]
  /\ todo'[u] = todo[u] /\ prior'[u] = prior[u] /\ result'[u] = result[u]

\* A worker keeps its invariant while others move the campaign forward.
LEMMA OthersKeep ==
  ASSUME CampaignInv, NEW u \in Workers, Idles(u), pc[u] # "idle" => Forward(hold[u])
  PROVE  WorkerInv(u)'
<1>0. WorkerInv(u) /\ (pc[u] # "idle" => hold[u] \in Campaigns)
  BY DEF CampaignInv, Typed
<1>. USE DEF Idles
<1>1. OwnRow(u)'
  BY <1>0 DEF WorkerInv, OwnRow, Forward
<1>2. Fresh(u)'
  BY <1>0 DEF WorkerInv, Fresh
<1>. SUFFICES ASSUME pc[u] # "idle"
              PROVE  Covered(u)' /\ Found(u)' /\ NoGaps(u)' /\ AllReached(u)'
  BY <1>1, <1>2 DEF WorkerInv, Covered, Found, NoGaps, AllReached
<1>3. /\ steady'[hold[u]] \subseteq steady[hold[u]]
      /\ steady[hold[u]] \subseteq Clients
      /\ \A v \in Clients : receipt[hold[u]][v] # "NONE" => receipt'[hold[u]][v] # "NONE"
  BY <1>0 DEF Forward, CampaignInv, Typed, TypeOK
<1>4. Covered(u)'
  BY <1>0, <1>3 DEF WorkerInv, Covered
<1>5. Found(u)'
  BY <1>0, <1>3 DEF WorkerInv, Found
<1>6. NoGaps(u)'
  BY <1>0, <1>3 DEF WorkerInv, NoGaps
<1>7. AllReached(u)'
  BY <1>0, <1>3 DEF WorkerInv, AllReached
<1>. QED  BY <1>4, <1>5, <1>6, <1>7

\* A step of one worker.
LEMMA OwnStep ==
  ASSUME CampaignInv, NEW w \in Workers, Typed', Created',
         \A c \in Campaigns : Forward(c) /\ Invited(c)', WorkerInv(w)',
         \A u \in Workers \ {w} : Idles(u)
  PROVE  CampaignInv'
<1>1. \A u \in Workers \ {w} : WorkerInv(u)'
  BY OthersKeep DEF CampaignInv, Typed
<1>. QED  BY <1>1 DEF CampaignInv

\* A step that changes no campaign.
LEMMA Quiet ==
  ASSUME CampaignInv, UNCHANGED <<row, receipt, steady>>, NEW c \in Campaigns
  PROVE  Forward(c) /\ (UNCHANGED client => Invited(c)')
BY DEF Forward, CampaignInv, Invited

\* A step that brings nobody to a campaign that was not created.
LEMMA CreatedKept ==
  ASSUME CampaignInv, UNCHANGED <<scan, pressed>>,
         \A c \in Campaigns : row[c].status # "ABSENT" => row'[c].status # "ABSENT",
         \A c \in Campaigns : job'[c].status # "ABSENT" => row[c].status # "ABSENT",
         \A w \in Workers : pc'[w] # "idle" => pc[w] # "idle" /\ hold'[w] = hold[w]
  PROVE  Created'
BY DEF CampaignInv, Typed, TypeOK, Created, Scanned

----------------------------------------------------------------------------
(* The steps within a run.                                                  *)

LEMMA FetchPageKeeps ==
  ASSUME CampaignInv, NEW w \in Workers, FetchPage(w)
  PROVE  WorkerInv(w)'
<1>0. WorkerInv(w) /\ hold[w] \in Campaigns /\ Invited(hold[w]) /\ pc[w] = "ready"
  BY DEF CampaignInv, Typed, FetchPage
<1>1. PICK p \in SUBSET Ahead(w) :
        /\ \A v \in p, u \in Ahead(w) \ p : v < u
        /\ todo' = [todo EXCEPT ![w] = p]
  BY DEF FetchPage
<1>2. /\ todo'[w] = p /\ pc'[w] = "paging" /\ p \subseteq Clients
      /\ UNCHANGED <<client, row, receipt, hold, copy, cursor, prior, result, steady>>
  BY <1>1 DEF FetchPage, CampaignInv, Typed, TypeOK, PCs, Ahead, Active
<1>3. prior[w] = NoAnswer /\ copy[w].max = row[hold[w]].max
  BY <1>0 DEF WorkerInv, Fresh, OwnRow
<1>4. OwnRow(w)' /\ Fresh(w)' /\ Covered(w)' /\ AllReached(w)'
  BY <1>0, <1>2 DEF WorkerInv, OwnRow, Fresh, Covered, AllReached
<1>5. Found(w)'
  BY <1>2, <1>3 DEF Found, NoAnswer
<1>6. NoGaps(w)'
  <2>1. \A u \in p : cursor[w] < u
    BY <1>1 DEF Ahead
  <2>2. ASSUME NEW u \in p, NEW v \in steady[hold[w]], cursor[w] < v, v < u PROVE v \in p
    <3>1. v \in Clients
      BY <1>0 DEF CampaignInv, Typed, TypeOK
    <3>2. v \in Ahead(w)
      BY <1>0, <1>3, <2>2, <3>1 DEF Invited, Ahead, Active
    <3>3. u \in Int /\ v \in Int
      BY <1>2, <3>1 DEF Clients
    <3>4. v \notin p => u < v
      BY <1>1, <3>2
    <3>. QED  BY <2>2, <3>3, <3>4
  <2>. QED  BY <1>2, <2>1, <2>2 DEF NoGaps
<1>. QED  BY <1>4, <1>5, <1>6 DEF WorkerInv

\* The least one of the page is dealt with: the cursor moves over nobody else.
LEMMA MovesOn ==
  ASSUME CampaignInv, NEW w \in Workers, pc[w] \in {"paging", "checked"}, hold[w] \in Campaigns,
         NEW v \in Clients, IsNext(w, v),
         cursor' = [cursor EXCEPT ![w] = v], todo' = [todo EXCEPT ![w] = @ \ {v}],
         UNCHANGED <<receipt, hold, steady>>, pc'[w] = "paging",
         receipt[hold[w]][v] # "NONE" \/ result'[w][v] # "NONE",
         \A u \in Clients : result[w][u] # "NONE" => result'[w][u] # "NONE"
  PROVE  Covered(w)' /\ NoGaps(w)'
<1>1. Covered(w) /\ NoGaps(w) /\ cursor'[w] = v /\ todo'[w] = todo[w] \ {v} /\ cursor[w] \in Int
  BY DEF CampaignInv, WorkerInv, Typed, TypeOK
<1>2. steady[hold[w]] \subseteq Clients /\ todo[w] \subseteq Clients /\ Clients \subseteq Int
  BY DEF CampaignInv, Typed, TypeOK, Clients
<1>3. v \in todo[w] /\ \A u \in todo[w] : v <= u
  BY DEF IsNext
<1>4. Covered(w)'
  <2>1. ASSUME NEW u \in steady[hold[w]], u <= v
        PROVE  receipt[hold[w]][u] # "NONE" \/ result'[w][u] # "NONE"
    <3>1. CASE u <= cursor[w]
      BY <1>1, <1>2, <3>1 DEF Covered
    <3>2. CASE ~(u <= cursor[w]) /\ u # v
      <4>0. u \in Int /\ v \in Int /\ cursor[w] \in Int
        BY <1>1, <1>2
      <4>1. cursor[w] < u /\ u < v
        BY <2>1, <3>2, <4>0
      <4>2. u \in todo[w]
        BY <1>1, <1>3, <4>1 DEF NoGaps
      <4>3. v <= u
        BY <1>3, <4>2
      <4>. QED  BY <4>0, <4>1, <4>3
    <3>3. CASE u = v
      BY <3>3
    <3>. QED  BY <3>1, <3>2, <3>3
  <2>. QED  BY <1>1, <2>1 DEF Covered
<1>5. NoGaps(w)'
  <2>1. ASSUME NEW u \in todo[w] \ {v} PROVE v < u
    BY <1>2, <1>3
  <2>2. ASSUME NEW u \in todo[w] \ {v}, NEW x \in steady[hold[w]], v < x, x < u
        PROVE  x \in todo[w] \ {v}
    <3>1. cursor[w] < v
      BY <1>1, <1>3 DEF NoGaps
    <3>2. x \in Int /\ v \in Int /\ cursor[w] \in Int
      BY <1>1, <1>2
    <3>3. cursor[w] < x /\ x # v
      BY <2>2, <3>1, <3>2
    <3>. QED  BY <1>1, <2>2, <3>3 DEF NoGaps
  <2>. QED  BY <1>1, <2>1, <2>2 DEF NoGaps
<1>. QED  BY <1>4, <1>5

LEMMA CheckReceiptKeeps ==
  ASSUME CampaignInv, NEW w \in Workers, CheckReceipt(w)
  PROVE  WorkerInv(w)'
<1>0. WorkerInv(w) /\ hold[w] \in Campaigns /\ pc[w] = "paging"
  BY DEF CampaignInv, Typed, CheckReceipt
<1>1. PICK v \in Clients :
        /\ IsNext(w, v)
        /\ \/ /\ receipt[hold[w]][v] = "SENT"
              /\ cursor' = [cursor EXCEPT ![w] = v]
              /\ todo' = [todo EXCEPT ![w] = @ \ {v}]
              /\ UNCHANGED <<pc, prior>>
           \/ /\ prior' = [prior EXCEPT ![w] = [prior[w] EXCEPT ![v] = receipt[hold[w]][v]]]
              /\ pc' = [pc EXCEPT ![w] = "checked"]
              /\ UNCHANGED <<cursor, todo>>
  BY DEF CheckReceipt
<1>2. UNCHANGED <<client, row, receipt, hold, copy, result, steady>>
  BY DEF CheckReceipt
<1>3. pc'[w] \in {"paging", "checked"}
  BY <1>0, <1>1 DEF CampaignInv, Typed, TypeOK
<1>4. OwnRow(w)' /\ Fresh(w)' /\ AllReached(w)'
  BY <1>0, <1>2, <1>3 DEF WorkerInv, OwnRow, Fresh, AllReached
<1>5. CASE UNCHANGED <<pc, prior>> /\ receipt[hold[w]][v] = "SENT"
           /\ cursor' = [cursor EXCEPT ![w] = v] /\ todo' = [todo EXCEPT ![w] = @ \ {v}]
  <2>1. Covered(w)' /\ NoGaps(w)'
    <3>1. receipt[hold[w]][v] # "NONE" /\ result' = result /\ pc'[w] = "paging"
      BY <1>0, <1>2, <1>5
    <3>. QED  BY <1>0, <1>1, <1>2, <1>5, <3>1, MovesOn
  <2>2. Found(w)'
    BY <1>0, <1>2, <1>5 DEF WorkerInv, Found
  <2>. QED  BY <1>4, <2>1, <2>2 DEF WorkerInv
<1>6. CASE /\ prior' = [prior EXCEPT ![w] = [prior[w] EXCEPT ![v] = receipt[hold[w]][v]]]
           /\ UNCHANGED <<cursor, todo>>
  <2>1. Covered(w)' /\ NoGaps(w)'
    BY <1>0, <1>2, <1>3, <1>6 DEF WorkerInv, Covered, NoGaps
  <2>2. \A u \in Clients :
          prior'[w][u] = IF u = v THEN receipt[hold[w]][v] ELSE prior[w][u]
    BY <1>6 DEF CampaignInv, Typed, TypeOK, Answers
  <2>3. Found(w)'
    BY <1>0, <1>2, <2>2 DEF WorkerInv, Found
  <2>. QED  BY <1>4, <2>1, <2>3 DEF WorkerInv
<1>. QED  BY <1>1, <1>5, <1>6

LEMMA SendKeeps ==
  ASSUME CampaignInv, NEW w \in Workers, Send(w)
  PROVE  WorkerInv(w)'
<1>0. WorkerInv(w) /\ hold[w] \in Campaigns /\ pc[w] = "checked"
  BY DEF CampaignInv, Typed, Send
<1>1. PICK v \in Clients :
        /\ IsNext(w, v) /\ Answer(w, v)
        /\ cursor' = [cursor EXCEPT ![w] = v] /\ todo' = [todo EXCEPT ![w] = @ \ {v}]
  BY DEF Send
<1>2. PICK o \in Outcomes : result' = [result EXCEPT ![w] = [result[w] EXCEPT ![v] = o]]
  BY <1>1 DEF Answer, Result, Outcomes
<1>3. \A u \in Clients : result'[w][u] = IF u = v THEN o ELSE result[w][u]
  BY <1>2 DEF CampaignInv, Typed, TypeOK, Answers
<1>4. o # "NONE"
  BY DEF Outcomes
<1>5. pc'[w] = "paging" /\ UNCHANGED <<client, row, receipt, hold, copy, prior, steady>>
  BY DEF Send, CampaignInv, Typed, TypeOK
<1>6. Covered(w)' /\ NoGaps(w)'
  <2>1. \A u \in Clients : result[w][u] # "NONE" => result'[w][u] # "NONE"
    BY <1>3, <1>4
  <2>2. result'[w][v] # "NONE"
    BY <1>3, <1>4
  <2>. QED  BY <1>0, <1>1, <1>5, <2>1, <2>2, MovesOn
<1>7. OwnRow(w)' /\ Fresh(w)' /\ AllReached(w)' /\ Found(w)'
  BY <1>0, <1>5 DEF WorkerInv, OwnRow, Fresh, AllReached, Found
<1>. QED  BY <1>6, <1>7 DEF WorkerInv

\* Nobody is left ahead of the cursor: everybody has a receipt.
LEMMA StartRetriesKeeps ==
  ASSUME CampaignInv, NEW w \in Workers, StartRetries(w)
  PROVE  WorkerInv(w)'
<1>0. WorkerInv(w) /\ hold[w] \in Campaigns /\ pc[w] = "ready" /\ Invited(hold[w])
  BY DEF CampaignInv, Typed, StartRetries
<1>1. /\ pc'[w] = "retrying"
      /\ UNCHANGED <<client, row, receipt, hold, copy, cursor, prior, result, steady>>
  BY DEF StartRetries, CampaignInv, Typed, TypeOK
<1>2. result[w] = NoAnswer /\ copy[w].max = row[hold[w]].max
  BY <1>0 DEF WorkerInv, Fresh, OwnRow
<1>3. ASSUME NEW v \in steady[hold[w]] PROVE receipt[hold[w]][v] # "NONE"
  <2>1. v \in Clients /\ v \in Int /\ cursor[w] \in Int
    BY <1>0 DEF CampaignInv, Typed, TypeOK, Clients
  <2>2. v \notin Ahead(w)
    BY DEF StartRetries
  <2>3. v <= cursor[w]
    BY <1>0, <1>2, <2>1, <2>2 DEF Ahead, Active, Invited
  <2>4. result[w][v] = "NONE"
    BY <1>2, <2>1 DEF NoAnswer
  <2>. QED  BY <1>0, <2>3, <2>4 DEF WorkerInv, Covered
<1>4. AllReached(w)'
  BY <1>1, <1>3 DEF AllReached
<1>. QED  BY <1>0, <1>1, <1>4 DEF WorkerInv, OwnRow, Fresh, Covered, Found, NoGaps

LEMMA RetryingKeeps ==
  ASSUME CampaignInv, NEW w \in Workers, SkipInactive(w) \/ Resend(w)
  PROVE  WorkerInv(w)'
<1>1. /\ WorkerInv(w) /\ pc[w] = "retrying" /\ pc'[w] \in {"retrying", "resent"}
      /\ UNCHANGED <<row, receipt, hold, copy, steady>>
  BY DEF SkipInactive, Resend, CampaignInv, Typed, TypeOK
<1>. QED  BY <1>1 DEF WorkerInv, OwnRow, Fresh, Covered, Found, NoGaps, AllReached

----------------------------------------------------------------------------
(* The beginning of a run, its commits and its end.                         *)

LEMMA StoreKeeps ==
  ASSUME CampaignInv, NEW w \in Workers, hold[w] \in Campaigns, Store(w)
  PROVE  /\ \A c \in Campaigns, v \in Clients :
              receipt[c][v] # "NONE" => receipt'[c][v] # "NONE"
         /\ \A v \in Clients : Writes(w, v) => receipt'[hold[w]][v] # "NONE"
<1>1. \A v \in Clients :
        receipt'[hold[w]][v] = IF Writes(w, v) THEN result[w][v] ELSE receipt[hold[w]][v]
  BY DEF Store, CampaignInv, Typed, TypeOK
<1>2. \A c \in Campaigns : c # hold[w] => receipt'[c] = receipt[c]
  BY DEF Store, CampaignInv, Typed, TypeOK
<1>. QED  BY <1>1, <1>2 DEF Writes

\* A commit in the middle of a run leaves the status and the bounds.
LEMMA FlushKeeps ==
  ASSUME CampaignInv, NEW w \in Workers, hold[w] \in Campaigns, pc[w] \notin {"idle", "claimed"},
         NEW new \in Row, new.status = copy[w].status, new.max = copy[w].max,
         Flush(w, new), Store(w), UNCHANGED <<steady, hold>>
  PROVE  /\ \A c \in Campaigns : Forward(c)
         /\ OwnRow(w)'
         /\ \A c \in Campaigns \ {hold[w]} : row'[c] = row[c]
         /\ row'[hold[w]].last = IF new.last = copy[w].last THEN row[hold[w]].last ELSE new.last
<1>. DEFINE h == hold[w]
<1>1. OwnRow(w)
  BY DEF CampaignInv, WorkerInv
<1>2. /\ row'[h].status = row[h].status /\ row'[h].max = row[h].max
      /\ row'[h].last = IF new.last = copy[w].last THEN row[h].last ELSE new.last
  <2>1. \A k \in {"status", "last", "max", "total", "sent", "failed", "blocked"} :
          row'[h][k] = IF new[k] = copy[w][k] THEN row[h][k] ELSE new[k]
    BY FlushType DEF Flush, CampaignInv, Typed
  <2>. QED  BY <2>1
<1>3. \A c \in Campaigns \ {h} : row'[c] = row[c]
  BY FlushType DEF Flush, CampaignInv, Typed
<1>4. copy'[w] = new
  BY DEF Flush, CampaignInv, Typed, TypeOK
<1>5. \A c \in Campaigns : Forward(c)
  BY <1>2, <1>3, StoreKeeps DEF Forward
<1>6. OwnRow(w)'
  BY <1>1, <1>2, <1>4 DEF OwnRow
<1>. QED  BY <1>2, <1>3, <1>5, <1>6

LEMMA HeartbeatKeeps ==
  ASSUME CampaignInv, NEW w \in Workers, hold[w] \in Campaigns, Heartbeat(w),
         NEW c \in Campaigns, job'[c].status # "ABSENT"
  PROVE  row[c].status # "ABSENT"
<1>1. update_heartbeat(job[hold[w]]).status = job[hold[w]].status
  BY JobChanges DEF CampaignInv, Typed, TypeOK
<1>. QED  BY <1>1 DEF Heartbeat, CampaignInv, Created, Typed, TypeOK

LEMMA ForgetKeeps ==
  ASSUME CampaignInv, NEW w \in Workers, Forget(w)
  PROVE  /\ prior'[w] = NoAnswer /\ result'[w] = NoAnswer
         /\ \A u \in Workers \ {w} : prior'[u] = prior[u] /\ result'[u] = result[u]
BY DEF Forget, CampaignInv, Typed, TypeOK

LEMMA CommitPageKeeps ==
  ASSUME CampaignInv, NEW w \in Workers, CommitPage(w), Typed'
  PROVE  CampaignInv'
<1>. DEFINE h == hold[w]
<1>0. WorkerInv(w) /\ h \in Campaigns /\ pc[w] = "paging" /\ pc'[w] = "ready"
  BY DEF CampaignInv, Typed, TypeOK, CommitPage
<1>1. /\ Store(w) /\ Heartbeat(w) /\ Forget(w)
      /\ UNCHANGED <<client, hold, cursor, todo, scan, pressed, steady>>
  BY DEF CommitPage
<1>2. PICK new \in Row :
        /\ Flush(w, new) /\ new.last = cursor[w] /\ new.max = copy[w].max
        /\ new.status = copy[w].status
  BY PageRow DEF CommitPage, CampaignInv
<1>3. /\ \A c \in Campaigns : Forward(c)
      /\ OwnRow(w)'
      /\ \A c \in Campaigns \ {h} : row'[c] = row[c]
      /\ row'[h].last \in {row[h].last, cursor[w]}
  BY <1>0, <1>1, <1>2, FlushKeeps
<1>4. steady[h] \subseteq Clients
  BY <1>0 DEF CampaignInv, Typed, TypeOK
<1>5. ASSUME NEW v \in steady[h], v <= cursor[w] PROVE receipt'[h][v] # "NONE"
  <2>1. receipt[h][v] # "NONE" \/ result[w][v] # "NONE"
    BY <1>0, <1>5 DEF WorkerInv, Covered
  <2>2. CASE Writes(w, v)
    BY <1>0, <1>1, <1>4, <2>2, StoreKeeps
  <2>3. CASE ~Writes(w, v)
    <3>1. receipt[h][v] # "NONE"
      BY <1>0, <1>4, <2>1, <2>3 DEF Writes, WorkerInv, Found
    <3>. QED  BY <1>0, <1>1, <1>4, <3>1, StoreKeeps
  <2>. QED  BY <2>2, <2>3
<1>6. ASSUME NEW c \in Campaigns PROVE Invited(c)'
  <2>1. Invited(c) /\ Forward(c) /\ steady[c] \subseteq Clients
    BY <1>3 DEF CampaignInv, Typed, TypeOK
  <2>2. CASE c # h
    BY <1>1, <1>3, <2>1, <2>2 DEF Invited, Forward
  <2>3. CASE c = h
    BY <1>1, <1>3, <1>5, <2>1, <2>3 DEF Invited, Forward
  <2>. QED  BY <2>2, <2>3
<1>7. WorkerInv(w)'
  <2>1. prior'[w] = NoAnswer /\ result'[w] = NoAnswer
    BY <1>1, ForgetKeeps
  <2>2. Covered(w)'
    BY <1>0, <1>1, <1>5 DEF Covered
  <2>. QED  BY <1>0, <1>3, <2>1, <2>2 DEF WorkerInv, Fresh, Found, NoGaps, AllReached
<1>8. \A u \in Workers \ {w} : Idles(u)
  BY <1>1, <1>2, ForgetKeeps DEF CommitPage, Flush, Idles, CampaignInv, Typed, TypeOK
<1>9. Created'
  <2>1. \A c \in Campaigns : job'[c].status # "ABSENT" => row[c].status # "ABSENT"
    BY <1>0, <1>1, HeartbeatKeeps
  <2>2. \A u \in Workers : pc'[u] # "idle" => pc[u] # "idle" /\ hold'[u] = hold[u]
    BY <1>0, <1>1, <1>8 DEF Idles
  <2>. QED  BY <1>1, <1>3, <2>1, <2>2, CreatedKept DEF Forward
<1>. QED  BY <1>3, <1>6, <1>7, <1>8, <1>9, OwnStep

LEMMA CommitResendKeeps ==
  ASSUME CampaignInv, NEW w \in Workers, CommitResend(w), Typed'
  PROVE  CampaignInv'
<1>. DEFINE h == hold[w]
<1>0. WorkerInv(w) /\ h \in Campaigns /\ pc[w] = "resent" /\ pc'[w] = "retrying"
  BY DEF CampaignInv, Typed, TypeOK, CommitResend
<1>1. /\ Store(w) /\ Heartbeat(w) /\ Forget(w)
      /\ UNCHANGED <<client, hold, cursor, todo, scan, pressed, steady>>
  BY DEF CommitResend
<1>2. PICK new \in Row :
        /\ Flush(w, new) /\ new.last = copy[w].last /\ new.max = copy[w].max
        /\ new.status = copy[w].status
  BY ResendRow DEF CommitResend, CampaignInv
<1>3. /\ \A c \in Campaigns : Forward(c)
      /\ OwnRow(w)'
      /\ \A c \in Campaigns : row'[c].last = row[c].last
  BY <1>0, <1>1, <1>2, FlushKeeps
<1>4. ASSUME NEW c \in Campaigns PROVE Invited(c)'
  <2>1. Invited(c) /\ Forward(c) /\ steady[c] \subseteq Clients
    BY <1>3 DEF CampaignInv, Typed, TypeOK
  <2>. QED  BY <1>1, <1>3, <2>1 DEF Invited, Forward
<1>5. WorkerInv(w)'
  <2>1. \A v \in steady[h] : receipt'[h][v] # "NONE"
    <3>1. steady[h] \subseteq Clients /\ Forward(h)
      BY <1>0, <1>3 DEF CampaignInv, Typed, TypeOK
    <3>. QED  BY <1>0, <3>1 DEF WorkerInv, AllReached, Forward
  <2>. QED  BY <1>0, <1>1, <1>3, <2>1
            DEF WorkerInv, Fresh, Covered, Found, NoGaps, AllReached
<1>6. \A u \in Workers \ {w} : Idles(u)
  BY <1>1, <1>2, ForgetKeeps DEF CommitResend, Flush, Idles, CampaignInv, Typed, TypeOK
<1>7. Created'
  <2>1. \A c \in Campaigns : job'[c].status # "ABSENT" => row[c].status # "ABSENT"
    BY <1>0, <1>1, HeartbeatKeeps
  <2>2. \A u \in Workers : pc'[u] # "idle" => pc[u] # "idle" /\ hold'[u] = hold[u]
    BY <1>0, <1>1, <1>6 DEF Idles
  <2>. QED  BY <1>1, <1>3, <2>1, <2>2, CreatedKept DEF Forward
<1>. QED  BY <1>3, <1>4, <1>5, <1>6, <1>7, OwnStep

\* What StartRun writes into the row: RUNNING, and nothing else.
LEMMA StartRunRow ==
  ASSUME CampaignInv, NEW w \in Workers, StartRun(w)
  PROVE  /\ row'[hold[w]] = copy'[w]
         /\ copy'[w].status = "RUNNING" /\ copy'[w].max = row[hold[w]].max
         /\ copy'[w].last = row[hold[w]].last /\ cursor'[w] = row[hold[w]].last
         /\ \A c \in Campaigns \ {hold[w]} : row'[c] = row[c]
<1>0. hold[w] \in Campaigns
  BY DEF CampaignInv, Typed, StartRun
<1>. DEFINE r == row[hold[w]]
            new == [r EXCEPT !.status = "RUNNING"]
<1>1. new.status = "RUNNING" /\ new.max = r.max /\ new.last = r.last
  <2>1. r \in Row
    BY <1>0 DEF CampaignInv, Typed, TypeOK
  <2>. HIDE DEF r
  <2>. QED  BY <2>1 DEF Row
<1>2. /\ row' = [row EXCEPT ![hold[w]] = new] /\ copy' = [copy EXCEPT ![w] = new]
      /\ cursor' = [cursor EXCEPT ![w] = new.last]
  BY DEF StartRun
<1>. HIDE DEF new
<1>. QED  BY <1>0, <1>1, <1>2 DEF CampaignInv, Typed, TypeOK

LEMMA StartRunKeeps ==
  ASSUME CampaignInv, NEW w \in Workers, StartRun(w), Typed'
  PROVE  CampaignInv'
<1>. DEFINE h == hold[w]
<1>0. WorkerInv(w) /\ h \in Campaigns /\ pc[w] = "claimed" /\ pc'[w] = "ready"
  BY DEF CampaignInv, Typed, TypeOK, StartRun
<1>1. UNCHANGED <<client, receipt, job, hold, todo, prior, result, scan, pressed, steady>>
  BY DEF StartRun
<1>2. \A c \in Campaigns : Forward(c) /\ row'[c].last = row[c].last
  BY <1>1, StartRunRow DEF Forward, Started
<1>3. ASSUME NEW c \in Campaigns PROVE Invited(c)'
  BY <1>1, <1>2 DEF Invited, Forward, CampaignInv
<1>4. WorkerInv(w)'
  <2>1. OwnRow(w)'
    BY <1>0, <1>1, StartRunRow DEF OwnRow, Started
  <2>2. Fresh(w)'
    BY <1>0, <1>1 DEF WorkerInv, Fresh
  <2>3. Covered(w)'
    <3>1. Invited(h) /\ cursor'[w] = row[h].last
      BY <1>0, StartRunRow DEF CampaignInv
    <3>. QED  BY <1>1, <3>1 DEF Covered, Invited
  <2>. QED  BY <1>0, <2>1, <2>2, <2>3 DEF WorkerInv, Found, NoGaps, AllReached
<1>5. \A u \in Workers \ {w} : Idles(u)
  BY <1>1 DEF StartRun, Idles, CampaignInv, Typed, TypeOK
<1>6. Created'
  <2>1. \A u \in Workers : pc'[u] # "idle" => pc[u] # "idle" /\ hold'[u] = hold[u]
    BY <1>0, <1>1, <1>5 DEF Idles
  <2>. QED  BY <1>1, <1>2, <2>1, CreatedKept DEF Forward, CampaignInv, Created
<1>. QED  BY <1>2, <1>3, <1>4, <1>5, <1>6, OwnStep

LEMMA ReleaseKeeps ==
  ASSUME CampaignInv, NEW w \in Workers, Release(w)
  PROVE  /\ WorkerInv(w)'
         /\ \A u \in Workers \ {w} : Idles(u)
         /\ \A u \in Workers : pc'[u] # "idle" => pc[u] # "idle" /\ hold'[u] = hold[u]
<1>1. prior'[w] = NoAnswer /\ result'[w] = NoAnswer /\ pc'[w] = "idle"
  BY ForgetKeeps DEF Release, CampaignInv, Typed, TypeOK
<1>2. \A u \in Workers \ {w} : Idles(u)
  BY ForgetKeeps DEF Release, Idles, CampaignInv, Typed, TypeOK
<1>3. WorkerInv(w)'
  BY <1>1 DEF WorkerInv, OwnRow, Fresh, Covered, Found, NoGaps, AllReached
<1>. QED  BY <1>1, <1>2, <1>3 DEF Idles

\* What EndRun writes: the final status, and counts.
LEMMA EndRunRow ==
  ASSUME CampaignInv, NEW w \in Workers, EndRun(w)
  PROVE  /\ row'[hold[w]].status \in Over
         /\ row'[hold[w]].max = row[hold[w]].max /\ row'[hold[w]].last = row[hold[w]].last
         /\ \A c \in Campaigns \ {hold[w]} : row'[c] = row[c]
<1>0. hold[w] \in Campaigns /\ copy[w].status = "RUNNING"
  BY DEF EndRun, CampaignInv, Typed, WorkerInv, OwnRow
<1>1. PICK new \in Row :
        /\ row' = Flushed(w, new) /\ new.last = copy[w].last /\ new.max = copy[w].max
        /\ new.status \in Over
  BY EndRow DEF EndRun, CampaignInv
<1>2. /\ \A c \in Campaigns \ {hold[w]} : row'[c] = row[c]
      /\ \A k \in {"status", "last", "max", "total", "sent", "failed", "blocked"} :
           row'[hold[w]][k] = IF new[k] = copy[w][k] THEN row[hold[w]][k] ELSE new[k]
  BY <1>0, <1>1, FlushType DEF CampaignInv, Typed
<1>3. new.status # copy[w].status
  BY <1>0, <1>1 DEF Over
<1>. QED  BY <1>1, <1>2, <1>3

LEMMA EndRunKeeps ==
  ASSUME CampaignInv, NEW w \in Workers, EndRun(w), Typed'
  PROVE  CampaignInv'
<1>0. hold[w] \in Campaigns /\ row[hold[w]].status # "ABSENT"
  BY DEF CampaignInv, Typed, Created, EndRun
<1>1. UNCHANGED <<client, receipt, scan, pressed, steady>> /\ Release(w)
  BY DEF EndRun
<1>2. \A c \in Campaigns : Forward(c) /\ row'[c].last = row[c].last
  BY <1>1, EndRunRow DEF Forward, Started, Over
<1>3. \A c \in Campaigns : Invited(c)'
  BY <1>1, <1>2 DEF Invited, Forward, CampaignInv
<1>4. \A c \in Campaigns : job'[c].status # "ABSENT" => row[c].status # "ABSENT"
  BY <1>0 DEF EndRun, CampaignInv, Created, Typed, TypeOK
<1>5. Created'
  BY <1>1, <1>2, <1>4, ReleaseKeeps, CreatedKept DEF Forward
<1>. QED  BY <1>1, <1>2, <1>3, <1>5, ReleaseKeeps, OwnStep

\* The worker is gone, or its session is rolled back.
LEMMA LostKeeps ==
  ASSUME CampaignInv, NEW w \in Workers, RunRaises(w) \/ Crash(w), Typed'
  PROVE  CampaignInv'
<1>1. UNCHANGED <<client, row, receipt, job, scan, pressed, steady>> /\ Release(w)
  BY DEF RunRaises, Crash
<1>2. \A c \in Campaigns : Forward(c) /\ Invited(c)'
  BY <1>1, Quiet
<1>3. Created'
  BY <1>1, ReleaseKeeps, CreatedKept DEF CampaignInv, Created
<1>. QED  BY <1>1, <1>2, <1>3, ReleaseKeeps, OwnStep

----------------------------------------------------------------------------
(* Every step.                                                              *)

\* A step of one worker leaves the others.
LEMMA StepIdles ==
  ASSUME CampaignInv, NEW w \in Workers, Step(w) \/ Crash(w)
  PROVE  \A u \in Workers \ {w} : Idles(u)
<1>1. ASSUME EndRun(w) \/ RunRaises(w) \/ Crash(w) PROVE \A u \in Workers \ {w} : Idles(u)
  BY <1>1, ReleaseKeeps DEF EndRun, RunRaises, Crash
<1>. USE DEF Idles, CampaignInv, Typed, TypeOK
<1>2. CASE StartRun(w)
  BY <1>2 DEF StartRun
<1>3. CASE FetchPage(w)
  BY <1>3 DEF FetchPage
<1>4. CASE CheckReceipt(w)
  BY <1>4 DEF CheckReceipt
<1>5. CASE Send(w)
  BY <1>5 DEF Send, Answer, Result
<1>6. CASE StartRetries(w) \/ SkipInactive(w)
  BY <1>6 DEF StartRetries, SkipInactive
<1>7. CASE Resend(w)
  BY <1>7 DEF Resend, Answer, Result
<1>8. CASE CommitPage(w) \/ CommitResend(w)
  BY <1>8 DEF CommitPage, CommitResend, Flush, Forget
<1>. QED  BY <1>1, <1>2, <1>3, <1>4, <1>5, <1>6, <1>7, <1>8 DEF Step

LEMMA QuietKeeps ==
  ASSUME CampaignInv, NEW w \in Workers, Typed',
         \/ FetchPage(w) \/ CheckReceipt(w) \/ Send(w) \/ StartRetries(w)
         \/ SkipInactive(w) \/ Resend(w)
  PROVE  CampaignInv'
<1>1. UNCHANGED <<client, row, receipt, job, hold, scan, pressed, steady>>
  BY DEF FetchPage, CheckReceipt, Send, StartRetries, SkipInactive, Resend
<1>2. WorkerInv(w)'
  BY FetchPageKeeps, CheckReceiptKeeps, SendKeeps, StartRetriesKeeps, RetryingKeeps
<1>3. \A u \in Workers \ {w} : Idles(u)
  BY StepIdles DEF Step
<1>4. \A c \in Campaigns : Forward(c) /\ Invited(c)'
  BY <1>1, Quiet
<1>5. Created'
  <2>1. pc[w] # "idle"
    BY DEF FetchPage, CheckReceipt, Send, StartRetries, SkipInactive, Resend
  <2>2. \A u \in Workers : pc'[u] # "idle" => pc[u] # "idle" /\ hold'[u] = hold[u]
    BY <1>1, <1>3, <2>1 DEF Idles
  <2>. QED  BY <1>1, <2>2, CreatedKept DEF CampaignInv, Created
<1>. QED  BY <1>2, <1>3, <1>4, <1>5, OwnStep

\* The worker takes the job of a campaign that was created.
LEMMA ClaimKeeps ==
  ASSUME CampaignInv, NEW w \in Workers, NEW c \in Campaigns, Typed',
         claim_owner_campaign_job(w, c)
  PROVE  CampaignInv'
<1>0. /\ WorkerInv(w) /\ pc[w] = "idle" /\ pc'[w] = "claimed" /\ hold'[w] = c
      /\ UNCHANGED <<client, row, receipt, prior, result, scan, pressed, steady>>
  BY DEF claim_owner_campaign_job, CampaignInv, Typed, TypeOK
<1>1. \A u \in Workers \ {w} : Idles(u)
  BY DEF claim_owner_campaign_job, Idles, CampaignInv, Typed, TypeOK
<1>2. row[c].status # "ABSENT"
  BY DEF claim_owner_campaign_job, IsClaimable, CampaignInv, Created
<1>3. WorkerInv(w)'
  BY <1>0 DEF WorkerInv, OwnRow, Fresh, Covered, Found, NoGaps, AllReached
<1>4. \A d \in Campaigns : Forward(d) /\ Invited(d)'
  BY <1>0, Quiet
<1>5. Created'
  <2>1. \A d \in Campaigns : job'[d].status # "ABSENT" => row[d].status # "ABSENT"
    BY <1>2 DEF claim_owner_campaign_job, CampaignInv, Created, Typed, TypeOK
  <2>2. \A u \in Workers : pc'[u] # "idle" => row[hold'[u]].status # "ABSENT"
    BY <1>0, <1>1, <1>2 DEF Idles, CampaignInv, Created
  <2>. QED  BY <1>0, <2>1, <2>2 DEF Created, CampaignInv, Scanned
<1>. QED  BY <1>1, <1>3, <1>4, <1>5, OwnStep

\* Nobody works on a campaign that is not there.
LEMMA CreateKeeps ==
  ASSUME CampaignInv, NEW c \in Campaigns, create(c), Typed'
  PROVE  CampaignInv'
<1>1. UNCHANGED <<client, receipt, work, scan, pressed>>
  BY DEF create
<1>2. \A d \in Campaigns \ {c} :
        row'[d] = row[d] /\ steady'[d] = steady[d] /\ job'[d] = job[d]
  BY DEF create, CampaignInv, Typed, TypeOK
<1>3. row'[c].status = "PENDING" /\ row'[c].max = MaxActive /\ row'[c].last = 0
      /\ steady'[c] = Active
  BY DEF create, NoRow, CampaignInv, Typed, TypeOK
<1>4. \A u \in Workers : pc[u] # "idle" => hold[u] \in Campaigns \ {c}
  BY DEF create, CampaignInv, Created, Typed
<1>5. \A u \in Workers : WorkerInv(u)'
  <2>1. \A u \in Workers : Idles(u)
    BY <1>1 DEF work, Idles
  <2>2. \A u \in Workers : pc[u] # "idle" => Forward(hold[u])
    BY <1>1, <1>2, <1>4 DEF Forward
  <2>. QED  BY <2>1, <2>2, OthersKeep
<1>6. ASSUME NEW d \in Campaigns PROVE Invited(d)'
  <2>1. CASE d = c
    <3>1. \A v \in Active : client[v] = "ACTIVE" /\ v <= MaxActive /\ ~(v <= 0)
      BY MaxActiveIsMax DEF Active, Clients
    <3>. QED  BY <1>1, <1>3, <2>1, <3>1 DEF Invited
  <2>2. CASE d # c
    BY <1>1, <1>2, <2>2 DEF Invited, CampaignInv
  <2>. QED  BY <2>1, <2>2
<1>7. Created'
  BY <1>1, <1>2, <1>3, <1>4 DEF Created, CampaignInv, Scanned, Typed, TypeOK, work
<1>. QED  BY <1>5, <1>6, <1>7 DEF CampaignInv

\* Clients come and go, time passes, jobs are recovered.
LEMMA AroundKeeps ==
  ASSUME CampaignInv, Typed', UNCHANGED <<row, receipt, work>>,
         \A c \in Campaigns : steady'[c] \subseteq steady[c],
         \A c \in Campaigns : \A v \in steady'[c] : client'[v] = "ACTIVE",
         \A c \in Campaigns : scan'[c] > 0 \/ c \in pressed' => row[c].status # "ABSENT",
         \A c \in Campaigns : job'[c].status # "ABSENT" => row[c].status # "ABSENT"
  PROVE  CampaignInv'
<1>1. \A u \in Workers : WorkerInv(u)'
  <2>1. \A u \in Workers : Idles(u)
    BY DEF work, Idles
  <2>2. \A c \in Campaigns : Forward(c)
    BY DEF Forward
  <2>. QED  BY <2>1, <2>2, OthersKeep DEF CampaignInv, Typed
<1>2. \A c \in Campaigns : Invited(c)'
  BY DEF Invited, CampaignInv
<1>3. Created'
  BY DEF Created, CampaignInv, Typed, TypeOK, Scanned, work
<1>. QED  BY <1>1, <1>2, <1>3 DEF CampaignInv

LEMMA StepCampaigns == CampaignInv /\ [Next]_vars => CampaignInv'
<1>. SUFFICES ASSUME CampaignInv, [Next]_vars PROVE CampaignInv'
  OBVIOUS
<1>0. Typed'
  BY StepTyped DEF CampaignInv
<1>01. /\ \A c \in Campaigns : \A v \in steady[c] : client[v] = "ACTIVE"
       /\ \A c \in Campaigns : scan[c] > 0 \/ c \in pressed => row[c].status # "ABSENT"
       /\ \A c \in Campaigns : job[c].status # "ABSENT" => row[c].status # "ABSENT"
  BY DEF CampaignInv, Invited, Created, Scanned
<1>1. CASE UNCHANGED vars
  BY <1>0, <1>01, <1>1, AroundKeeps DEF vars
<1>2. ASSUME NEW v \in Clients, ClientJoins(v) \/ reactivate_client(v) PROVE CampaignInv'
  <2>1. \A c \in Campaigns : \A u \in steady'[c] : client'[u] = "ACTIVE"
    BY <1>01, <1>2 DEF ClientJoins, reactivate_client, CampaignInv, Typed, TypeOK
  <2>. QED  BY <1>0, <1>01, <1>2, <2>1, AroundKeeps DEF ClientJoins, reactivate_client
<1>3. ASSUME NEW v \in Clients, suspend_client(v) PROVE CampaignInv'
  <2>1. \A c \in Campaigns : steady'[c] = steady[c] \ {v}
    BY <1>3 DEF suspend_client
  <2>2. \A c \in Campaigns : \A u \in steady'[c] : client'[u] = "ACTIVE"
    BY <1>01, <1>3, <2>1 DEF suspend_client, CampaignInv, Typed, TypeOK
  <2>. QED  BY <1>0, <1>01, <1>3, <2>1, <2>2, AroundKeeps DEF suspend_client
<1>4. ASSUME NEW c \in Campaigns, create(c) PROVE CampaignInv'
  BY <1>0, <1>4, CreateKeeps
<1>5. ASSUME NEW c \in Campaigns, HeartbeatAges(c) \/ BackoffElapses(c) PROVE CampaignInv'
  <2>1. \A d \in Campaigns : job'[d].status # "ABSENT" => row[d].status # "ABSENT"
    BY <1>01, <1>5 DEF HeartbeatAges, BackoffElapses, CampaignInv, Typed, TypeOK, Job
  <2>. QED  BY <1>0, <1>01, <1>5, <2>1, AroundKeeps DEF HeartbeatAges, BackoffElapses
<1>6. ASSUME NEW w \in Workers, NEW c \in Campaigns, claim_owner_campaign_job(w, c)
      PROVE  CampaignInv'
  BY <1>0, <1>6, ClaimKeeps
<1>7. ASSUME NEW w \in Workers, Step(w) \/ Crash(w) PROVE CampaignInv'
  BY <1>0, <1>7, QuietKeeps, StartRunKeeps, CommitPageKeeps, CommitResendKeeps, EndRunKeeps,
     LostKeeps DEF Step
<1>8. CASE get_stale_running_jobs
  <2>1. \A c \in Campaigns : scan'[c] > 0 => row[c].status # "ABSENT"
    BY <1>01, <1>8 DEF get_stale_running_jobs, IsStaleRunning
  <2>. QED  BY <1>0, <1>01, <1>8, <2>1, AroundKeeps DEF get_stale_running_jobs
<1>9. CASE recover_stale_running_jobs
  <2>1. \A c \in Campaigns : job'[c].status # "ABSENT" => row[c].status # "ABSENT"
    BY <1>01, <1>9 DEF recover_stale_running_jobs, Scanned
  <2>2. \A c \in Campaigns : ~(scan'[c] > 0)
    BY <1>9 DEF recover_stale_running_jobs
  <2>. QED  BY <1>0, <1>01, <1>9, <2>1, <2>2, AroundKeeps DEF recover_stale_running_jobs
<1>10. ASSUME NEW c \in Campaigns, RetryReads(c) \/ RetryWrites(c) PROVE CampaignInv'
  <2>1. row[c].status # "ABSENT"
    BY <1>01, <1>10 DEF RetryReads, RetryWrites, CanRetry
  <2>2. \A d \in Campaigns : job'[d].status # "ABSENT" => row[d].status # "ABSENT"
    BY <1>01, <1>10, <2>1 DEF RetryReads, RetryWrites, CampaignInv, Typed, TypeOK
  <2>3. \A d \in Campaigns : scan'[d] > 0 \/ d \in pressed' => row[d].status # "ABSENT"
    BY <1>01, <1>10, <2>1 DEF RetryReads, RetryWrites
  <2>. QED  BY <1>0, <1>01, <1>10, <2>2, <2>3, AroundKeeps DEF RetryReads, RetryWrites
<1>. QED  BY <1>1, <1>2, <1>3, <1>4, <1>5, <1>6, <1>7, <1>8, <1>9, <1>10 DEF Next

----------------------------------------------------------------------------
(* A campaign is an announcement.                                           *)

Stages == [c \in Campaigns |-> Stage(c)]
Dealt == [c \in Campaigns |-> Clients \ With(receipt[c], "NONE")]

\* Nothing an announcement tells apart has changed.
LEMMA Stutters ==
  ASSUME \A c \in Campaigns : row'[c].status = row[c].status, UNCHANGED <<receipt, steady>>
  PROVE  UNCHANGED Promise!vars
<1>1. \A c \in Campaigns : Stage(c)' = Stage(c)
  BY DEF Stage
<1>2. \A c \in Campaigns : With(receipt[c], "NONE")' = With(receipt[c], "NONE")
  BY DEF With
<1>3. Stages' = Stages /\ Dealt' = Dealt /\ steady' = steady
  BY <1>1, <1>2 DEF Stages, Dealt
<1>. QED  BY <1>3 DEF Promise!vars, Stages, Dealt

\* One campaign changes its stage.
LEMMA StageMoves ==
  ASSUME NEW c \in Campaigns, \A d \in Campaigns \ {c} : row'[d].status = row[d].status
  PROVE  Stages' = [Stages EXCEPT ![c] = Stage(c)']
<1>1. \A d \in Campaigns \ {c} : Stage(d)' = Stage(d)
  BY DEF Stage
<1>. QED  BY <1>1 DEF Stages

LEMMA StageIs ==
  ASSUME NEW c \in Campaigns
  PROVE  /\ row[c].status = "ABSENT" => Stages[c] = "none"
         /\ row[c].status = "PENDING" => Stages[c] = "waiting"
         /\ row[c].status = "RUNNING" => Stages[c] = "going"
         /\ row[c].status \in Over => Stages[c] = "over"
         /\ row'[c].status = "PENDING" => Stage(c)' = "waiting"
         /\ row'[c].status = "RUNNING" => Stage(c)' = "going"
         /\ row'[c].status \in Over => Stage(c)' = "over"
BY DEF Stages, Stage, Over

LEMMA DealtStays ==
  ASSUME UNCHANGED receipt
  PROVE  Dealt' = Dealt
BY DEF Dealt, With

LEMMA BeginsAnnouncement == Init => Promise!Init
<1>. SUFFICES ASSUME Init PROVE Promise!Init
  OBVIOUS
<1>1. \A c \in Campaigns : Stage(c) = "none"
  <2>1. \A c \in Campaigns : row[c].status = "ABSENT"
    BY DEF Init, NoRow
  <2>. QED  BY <2>1, StageIs DEF Stages
<1>2. \A c \in Campaigns : Clients \ With(receipt[c], "NONE") = {}
  BY DEF Init, NoAnswer, With
<1>. QED  BY <1>1, <1>2 DEF Init, Promise!Init

LEMMA CreateAnnounces ==
  ASSUME CampaignInv, NEW c \in Campaigns, create(c)
  PROVE  Promise!Next
<1>1. /\ row[c].status = "ABSENT" /\ row'[c].status = "PENDING"
      /\ \A d \in Campaigns \ {c} : row'[d].status = row[d].status
      /\ UNCHANGED receipt
  BY DEF create, NoRow, CampaignInv, Typed, TypeOK
<1>2. Stages[c] = "none" /\ Stages' = [Stages EXCEPT ![c] = "waiting"]
  BY <1>1, StageMoves, StageIs
<1>3. Active \in SUBSET Clients /\ steady' = [steady EXCEPT ![c] = Active]
  BY DEF create, Active
<1>4. Dealt' = Dealt
  BY <1>1, DealtStays
<1>5. Promise!Announce(c)
  BY <1>2, <1>3, <1>4 DEF Promise!Announce, Stages, Dealt
<1>. QED  BY <1>5 DEF Promise!Next

LEMMA StartBegins ==
  ASSUME CampaignInv, NEW w \in Workers, StartRun(w)
  PROVE  [Promise!Next]_(Promise!vars)
<1>1. PICK c \in Campaigns : c = hold[w]
  BY DEF StartRun, CampaignInv, Typed
<1>2. /\ row'[c].status = "RUNNING" /\ UNCHANGED <<receipt, steady>>
      /\ \A d \in Campaigns \ {c} : row'[d].status = row[d].status
  <2>1. UNCHANGED <<receipt, steady>>
    BY DEF StartRun
  <2>. QED  BY <1>1, <2>1, StartRunRow
<1>3. row[c].status \in {"PENDING", "RUNNING"} \cup Over
  <2>1. row[c].status # "ABSENT"
    BY <1>1 DEF StartRun, CampaignInv, Created
  <2>. QED  BY <2>1 DEF CampaignInv, Typed, TypeOK, Row
<1>4. CASE row[c].status = "RUNNING"
  BY <1>2, <1>4, Stutters
<1>5. CASE row[c].status \in {"PENDING"} \cup Over
  <2>1. Stages[c] \in {"waiting", "over"} /\ Stages' = [Stages EXCEPT ![c] = "going"]
    BY <1>2, <1>5, StageIs, StageMoves
  <2>2. Dealt' = Dealt
    BY <1>2, DealtStays
  <2>3. Promise!Begin(c)
    BY <1>2, <2>1, <2>2 DEF Promise!Begin, Stages, Dealt
  <2>. QED  BY <2>3 DEF Promise!Next
<1>. QED  BY <1>3, <1>4, <1>5

\* A commit deals with the clients whose receipts it stores.
LEMMA CommitDeals ==
  ASSUME CampaignInv, NEW w \in Workers, CommitPage(w) \/ CommitResend(w)
  PROVE  Promise!Next
<1>1. PICK c \in Campaigns : c = hold[w]
  BY DEF CommitPage, CommitResend, CampaignInv, Typed
<1>2. PICK new \in Row :
        Flush(w, new) /\ new.max = copy[w].max /\ new.status = copy[w].status
  BY PageRow, ResendRow DEF CommitPage, CommitResend, CampaignInv
<1>3. Store(w) /\ UNCHANGED <<steady, hold>> /\ pc[w] \notin {"idle", "claimed"}
  BY DEF CommitPage, CommitResend
<1>4. \A d \in Campaigns : row'[d].status = row[d].status
  <2>1. \A d \in Campaigns \ {c} : row'[d] = row[d]
    BY <1>1, <1>2, <1>3, FlushKeeps
  <2>2. row'[c].status = row[c].status
    <3>1. \A k \in {"status", "last", "max", "total", "sent", "failed", "blocked"} :
            row'[c][k] = IF new[k] = copy[w][k] THEN row[c][k] ELSE new[k]
      BY <1>1, <1>2, FlushType DEF Flush, CampaignInv, Typed
    <3>. QED  BY <1>2, <3>1
  <2>. QED  BY <2>1, <2>2
<1>5. Stages' = Stages
  <2>1. \A d \in Campaigns : Stage(d)' = Stage(d)
    BY <1>4 DEF Stage
  <2>. QED  BY <2>1 DEF Stages
<1>6. Stages[c] \in {"going", "over"}
  <2>1. row[c].status \in Started
    BY <1>1, <1>3 DEF CampaignInv, WorkerInv, OwnRow
  <2>. QED  BY <2>1, StageIs DEF Started
<1>7. PICK s \in SUBSET Clients : Dealt' = [Dealt EXCEPT ![c] = @ \cup s]
  <2>. DEFINE s == {v \in Clients : receipt'[c][v] # "NONE"}
  <2>1. s \in SUBSET Clients
    OBVIOUS
  <2>2. (Clients \ With(receipt[c], "NONE"))' = s
    BY DEF With
  <2>3. Clients \ With(receipt[c], "NONE") \subseteq s
    BY <1>1, <1>3, StoreKeeps DEF With
  <2>4. \A d \in Campaigns \ {c} : With(receipt[d], "NONE")' = With(receipt[d], "NONE")
    <3>1. \A d \in Campaigns \ {c} : receipt'[d] = receipt[d]
      BY <1>1, <1>3 DEF Store, CampaignInv, Typed, TypeOK
    <3>. QED  BY <3>1 DEF With
  <2>5. Dealt' = [Dealt EXCEPT ![c] = @ \cup s]
    <3>. HIDE DEF s
    <3>. QED  BY <2>2, <2>3, <2>4 DEF Dealt
  <2>. QED  BY <2>1, <2>5
<1>8. Promise!Deal(c)
  BY <1>3, <1>5, <1>6, <1>7 DEF Promise!Deal, Stages, Dealt
<1>. QED  BY <1>8 DEF Promise!Next

\* A run ends when everybody has a receipt.
LEMMA EndFinishes ==
  ASSUME CampaignInv, NEW w \in Workers, EndRun(w)
  PROVE  [Promise!Next]_(Promise!vars)
<1>1. PICK c \in Campaigns : c = hold[w]
  BY DEF EndRun, CampaignInv, Typed
<1>2. /\ row'[c].status \in Over /\ UNCHANGED <<receipt, steady>>
      /\ \A d \in Campaigns \ {c} : row'[d].status = row[d].status
  BY <1>1, EndRunRow DEF EndRun
<1>3. /\ row[c].status \in Started
      /\ \A v \in steady[c] : receipt[c][v] # "NONE"
  BY <1>1 DEF EndRun, CampaignInv, WorkerInv, OwnRow, AllReached
<1>4. Dealt' = Dealt
  BY <1>2, DealtStays
<1>5. Stages' = [Stages EXCEPT ![c] = "over"]
  BY <1>2, StageIs, StageMoves
<1>6. CASE row[c].status = "RUNNING"
  <2>1. steady[c] \subseteq Dealt[c]
    BY <1>3 DEF Dealt, With, CampaignInv, Typed, TypeOK
  <2>2. Stages[c] = "going"
    BY <1>6, StageIs
  <2>3. Promise!Finish(c)
    BY <1>2, <1>4, <1>5, <2>1, <2>2 DEF Promise!Finish, Stages, Dealt
  <2>. QED  BY <2>3 DEF Promise!Next
<1>7. CASE row[c].status \in Over
  <2>1. Stages' = Stages
    BY <1>5, <1>7, StageIs DEF Stages
  <2>. QED  BY <1>2, <1>4, <2>1 DEF Promise!vars, Stages, Dealt
<1>. QED  BY <1>3, <1>6, <1>7 DEF Started

LEMMA StepKeepsPromise ==
  CampaignInv /\ [Next]_vars => [Promise!Next]_(Promise!vars)
<1>. SUFFICES ASSUME CampaignInv, [Next]_vars PROVE [Promise!Next]_(Promise!vars)
  OBVIOUS
<1>1. CASE UNCHANGED vars
  BY <1>1, Stutters DEF vars
<1>2. ASSUME NEW v \in Clients, ClientJoins(v) \/ reactivate_client(v)
      PROVE  [Promise!Next]_(Promise!vars)
  BY <1>2, Stutters DEF ClientJoins, reactivate_client
<1>3. ASSUME NEW v \in Clients, suspend_client(v) PROVE [Promise!Next]_(Promise!vars)
  <2>1. Stages' = Stages /\ Dealt' = Dealt
    BY <1>3 DEF suspend_client, Stages, Dealt, Stage, With
  <2>2. Promise!Leave(v)
    BY <1>3, <2>1 DEF suspend_client, Promise!Leave, Stages, Dealt
  <2>. QED  BY <2>2 DEF Promise!Next
<1>4. ASSUME NEW c \in Campaigns, create(c) PROVE [Promise!Next]_(Promise!vars)
  BY <1>4, CreateAnnounces
<1>5. ASSUME NEW c \in Campaigns, HeartbeatAges(c) \/ BackoffElapses(c)
      PROVE  [Promise!Next]_(Promise!vars)
  BY <1>5, Stutters DEF HeartbeatAges, BackoffElapses
<1>6. ASSUME NEW w \in Workers, NEW c \in Campaigns, claim_owner_campaign_job(w, c)
      PROVE  [Promise!Next]_(Promise!vars)
  BY <1>6, Stutters DEF claim_owner_campaign_job
<1>7. ASSUME NEW w \in Workers, Step(w) \/ Crash(w) PROVE [Promise!Next]_(Promise!vars)
  <2>1. CASE StartRun(w)
    BY <2>1, StartBegins
  <2>2. CASE CommitPage(w) \/ CommitResend(w)
    BY <2>2, CommitDeals
  <2>3. CASE EndRun(w)
    BY <2>3, EndFinishes
  <2>4. CASE \/ FetchPage(w) \/ CheckReceipt(w) \/ Send(w) \/ StartRetries(w)
             \/ SkipInactive(w) \/ Resend(w) \/ RunRaises(w) \/ Crash(w)
    <3>1. UNCHANGED <<row, receipt, steady>>
      BY <2>4 DEF FetchPage, CheckReceipt, Send, StartRetries, SkipInactive, Resend,
                  RunRaises, Crash
    <3>. QED  BY <3>1, Stutters
  <2>. QED  BY <1>7, <2>1, <2>2, <2>3, <2>4 DEF Step
<1>8. CASE get_stale_running_jobs \/ recover_stale_running_jobs
  BY <1>8, Stutters DEF get_stale_running_jobs, recover_stale_running_jobs
<1>9. ASSUME NEW c \in Campaigns, RetryReads(c) \/ RetryWrites(c)
      PROVE  [Promise!Next]_(Promise!vars)
  BY <1>9, Stutters DEF RetryReads, RetryWrites
<1>. QED  BY <1>1, <1>2, <1>3, <1>4, <1>5, <1>6, <1>7, <1>8, <1>9 DEF Next

\* The campaigns implement the announcement: what everybody is promised by it holds
\* of message_campaigns and its receipts, whatever workers die, stall, take each
\* other's jobs over, or raise, and whoever comes and goes meanwhile.
THEOREM CampaignsKeepPromise == Spec => KeepsPromise
<1>. QED
  BY InitCampaigns, StepCampaigns, BeginsAnnouncement, StepKeepsPromise, PTL
  DEF Spec, KeepsPromise, Promise!Spec
----------------------------------------------------------------------------
(* A client gets a campaign twice only for a run or an answer that was lost. *)

\* A worker on a campaign whose job nobody took from it is the only one on it.
Runs(w) == pc[w] # "idle" /\ hold[w] \notin handed
OneRun == \A u, w \in Workers : Runs(u) /\ pc[w] # "idle" /\ hold[w] = hold[u] => u = w

\* Its job is RUNNING, the receipts are as it found them, and it sends to nobody
\* who has a SENT one.
RunInv(w) ==
  Runs(w) =>
    /\ job[hold[w]].status = "RUNNING"
    /\ pc[w] = "retrying" => result[w] = NoAnswer
    /\ \A v \in Clients :
         /\ result[w][v] # "NONE" =>
              /\ prior[w][v] = receipt[hold[w]][v] /\ receipt[hold[w]][v] # "SENT"
              /\ v \notin todo[w]
         /\ pc[w] = "checked" /\ IsNext(w, v) =>
              prior[w][v] = receipt[hold[w]][v] /\ receipt[hold[w]][v] # "SENT"
         /\ pc[w] \in {"retrying", "resent"} /\ v \in todo[w] =>
              receipt[hold[w]][v] = "FAILED"

\* The last message to the client is known to it or to the worker that sent it.
Told(c, v) ==
  \/ receipt[c][v] = "SENT"
  \/ \E w \in Workers : hold[w] = c /\ result[w][v] = "SENT"

\* Every message but that one is charged to a lost run or a lost answer.
Charged(c, v) ==
  sends[c][v] <= faults["crash"] + faults["lost"] + (IF Told(c, v) THEN 1 ELSE 0)

OnceInv ==
  /\ OneRun
  /\ \A w \in Workers : RunInv(w)
  /\ \A c \in Campaigns \ handed, v \in Clients : Charged(c, v)

LEMMA InitOnce == Init => OnceInv
<1>. SUFFICES ASSUME Init PROVE OnceInv
  OBVIOUS
<1>1. OneRun /\ \A w \in Workers : RunInv(w)
  BY DEF Init, OneRun, RunInv, Runs
<1>2. \A c \in Campaigns, v \in Clients : Charged(c, v)
  BY DEF Init, Charged, Faults
<1>. QED  BY <1>1, <1>2 DEF OnceInv

LEMMA SpendGrows ==
  ASSUME Typed, \E k \in Faults : Spend(k)
  PROVE  faults["crash"] <= faults'["crash"] /\ faults["lost"] <= faults'["lost"]
BY DEF Typed, TypeOK, Spend, Faults

\* Others on the campaign of a worker that is alone on it are idle and know nothing.
LEMMA Alone ==
  ASSUME CampaignInv, OneRun, NEW w \in Workers, Runs(w), NEW v \in Clients
  PROVE  Told(hold[w], v) <=> receipt[hold[w]][v] = "SENT" \/ result[w][v] = "SENT"
<1>1. ASSUME NEW u \in Workers \ {w}, hold[u] = hold[w] PROVE result[u][v] # "SENT"
  <2>1. pc[u] = "idle"
    BY <1>1 DEF OneRun
  <2>2. result[u] = NoAnswer
    BY <2>1 DEF CampaignInv, WorkerInv, Fresh
  <2>. QED  BY <2>2 DEF NoAnswer
<1>. QED  BY <1>1 DEF Told

\* They do so still when it has taken a step, or has left.
LEMMA AloneStays ==
  ASSUME CampaignInv, OneRun, NEW w \in Workers, Runs(w), NEW v \in Clients,
         \A u \in Workers \ {w} : Idles(u), NEW c, c = hold[w]
  PROVE  Told(c, v)' <=> receipt'[c][v] = "SENT" \/ (hold'[w] = c /\ result'[w][v] = "SENT")
<1>1. ASSUME NEW u \in Workers \ {w}, hold'[u] = c PROVE result'[u][v] # "SENT"
  <2>1. hold[u] = hold[w] /\ result'[u] = result[u]
    BY <1>1 DEF Idles
  <2>2. pc[u] = "idle"
    BY <2>1 DEF OneRun
  <2>3. result[u] = NoAnswer
    BY <2>2 DEF CampaignInv, WorkerInv, Fresh
  <2>. QED  BY <2>1, <2>3 DEF NoAnswer
<1>. QED  BY <1>1 DEF Told

\* The step of a worker leaves the runs of the other campaigns.
LEMMA OtherRuns ==
  ASSUME CampaignInv, OnceInv, NEW w \in Workers, pc[w] # "idle",
         \A u \in Workers \ {w} : Idles(u), handed' = handed,
         pc'[w] = "idle" \/ hold'[w] = hold[w],
         \A c \in Campaigns \ {hold[w]} : job'[c] = job[c] /\ receipt'[c] = receipt[c]
  PROVE  /\ OneRun'
         /\ \A u \in Workers \ {w} : RunInv(u)'
<1>1. OneRun'
  BY DEF OnceInv, OneRun, Runs, Idles
<1>2. ASSUME NEW u \in Workers \ {w} PROVE RunInv(u)'
  <2>1. Runs(u)' => Runs(u) /\ hold[u] # hold[w] /\ hold[u] \in Campaigns
    BY DEF OnceInv, OneRun, Runs, Idles, CampaignInv, Typed
  <2>2. \A v \in Clients : IsNext(u, v)' <=> IsNext(u, v)
    BY DEF IsNext, Idles
  <2>. QED  BY <2>1, <2>2 DEF OnceInv, RunInv, Idles
<1>. QED  BY <1>1, <1>2

\* And what was sent for them.
LEMMA OtherSends ==
  ASSUME CampaignInv, NEW w \in Workers, \A u \in Workers \ {w} : Idles(u),
         NEW c \in Campaigns, NEW v \in Clients, c # hold[w], Charged(c, v),
         hold'[w] \in {hold[w], None}, receipt'[c] = receipt[c], sends'[c] = sends[c],
         UNCHANGED faults \/ \E k \in Faults : Spend(k), Typed'
  PROVE  Charged(c, v)'
<1>1. Told(c, v)' <=> Told(c, v)
  BY NoneNotCampaign DEF Told, Idles
<1>2. /\ faults["crash"] <= faults'["crash"] /\ faults["lost"] <= faults'["lost"]
      /\ faults["crash"] \in Int /\ faults["lost"] \in Int
      /\ faults'["crash"] \in Int /\ faults'["lost"] \in Int /\ sends[c][v] \in Int
  BY SpendGrows DEF CampaignInv, Typed, TypeOK, Faults
<1>. QED  BY <1>1, <1>2 DEF Charged

\* A step that sends and stores nothing, of a run that goes on.
LEMMA QuietRun ==
  ASSUME CampaignInv, NEW w \in Workers, RunInv(w),
         \/ StartRun(w) \/ FetchPage(w) \/ CheckReceipt(w) \/ StartRetries(w) \/ SkipInactive(w)
  PROVE  RunInv(w)'
<1>0. /\ hold[w] \in Campaigns /\ pc[w] # "idle"
      /\ UNCHANGED <<receipt, job, hold, result, handed>>
  BY DEF CampaignInv, Typed, StartRun, FetchPage, CheckReceipt, StartRetries, SkipInactive
<1>00. SUFFICES ASSUME Runs(w) PROVE RunInv(w)'
  BY <1>0 DEF RunInv, Runs
<1>01. pc[w] \in {"claimed", "ready"} => result[w] = NoAnswer
  BY DEF CampaignInv, WorkerInv, Fresh
<1>. USE <1>00 DEF CampaignInv, Typed, TypeOK
<1>1. CASE StartRun(w)
  BY <1>0, <1>01, <1>1 DEF StartRun, RunInv, NoAnswer
<1>2. CASE FetchPage(w)
  BY <1>0, <1>01, <1>2 DEF FetchPage, RunInv, NoAnswer
<1>3. CASE CheckReceipt(w)
  <2>1. PICK v \in Clients :
          /\ IsNext(w, v)
          /\ \/ /\ todo' = [todo EXCEPT ![w] = @ \ {v}]
                /\ UNCHANGED <<pc, prior>>
             \/ /\ receipt[hold[w]][v] # "SENT"
                /\ prior' = [prior EXCEPT ![w] = [prior[w] EXCEPT ![v] = receipt[hold[w]][v]]]
                /\ pc' = [pc EXCEPT ![w] = "checked"]
                /\ UNCHANGED todo
    BY <1>3 DEF CheckReceipt
  <2>2. pc[w] = "paging"
    BY <1>3 DEF CheckReceipt
  <2>3. CASE todo' = [todo EXCEPT ![w] = @ \ {v}] /\ UNCHANGED <<pc, prior>>
    BY <1>0, <2>2, <2>3 DEF RunInv
  <2>4. CASE /\ receipt[hold[w]][v] # "SENT"
             /\ prior' = [prior EXCEPT ![w] = [prior[w] EXCEPT ![v] = receipt[hold[w]][v]]]
             /\ pc' = [pc EXCEPT ![w] = "checked"]
             /\ UNCHANGED todo
    <3>1. \A u \in Clients :
            prior'[w][u] = IF u = v THEN receipt[hold[w]][v] ELSE prior[w][u]
      BY <2>4 DEF Answers
    <3>2. ASSUME NEW u \in Clients, IsNext(w, u)' PROVE u = v
      <4>1. u <= v /\ v <= u
        BY <2>1, <2>4, <3>2 DEF IsNext
      <4>2. u \in Int /\ v \in Int
        BY DEF Clients
      <4>. QED  BY <4>1, <4>2
    <3>3. pc'[w] = "checked" /\ v \in todo[w]
      BY <2>1, <2>4 DEF IsNext
    <3>. QED  BY <1>0, <2>4, <3>1, <3>2, <3>3 DEF RunInv
  <2>. QED  BY <2>1, <2>3, <2>4
<1>4. CASE StartRetries(w)
  BY <1>0, <1>01, <1>4 DEF StartRetries, RunInv, NoAnswer, FailedReceipts, With
<1>5. CASE SkipInactive(w)
  <2>1. pc[w] = "retrying" /\ pc' = pc /\ prior' = prior /\ todo'[w] \subseteq todo[w]
    BY <1>5 DEF SkipInactive
  <2>. QED  BY <1>0, <2>1 DEF RunInv, NoAnswer
<1>. QED  BY <1>1, <1>2, <1>3, <1>4, <1>5

\* Who is sent to has no SENT receipt and no answer in the session.
LEMMA SendsToUntold ==
  ASSUME CampaignInv, NEW w \in Workers, RunInv(w), Runs(w), Send(w) \/ Resend(w)
  PROVE  \E v \in Clients :
           /\ Answer(w, v)
           /\ receipt[hold[w]][v] # "SENT" /\ result[w][v] = "NONE"
           /\ pc'[w] \in {"paging", "resent"} /\ todo'[w] = todo[w] \ {v}
           /\ prior'[w][v] = receipt[hold[w]][v]
           /\ \A u \in Clients \ {v} : prior'[w][u] = prior[w][u]
           /\ pc'[w] = "resent" => pc[w] = "retrying"
<1>. USE DEF CampaignInv, Typed, TypeOK
<1>1. CASE Send(w)
  <2>1. PICK v \in Clients : IsNext(w, v) /\ Answer(w, v) /\ todo' = [todo EXCEPT ![w] = @ \ {v}]
    BY <1>1 DEF Send
  <2>2. pc[w] = "checked" /\ pc'[w] = "paging" /\ prior' = prior /\ v \in todo[w]
    BY <1>1, <2>1 DEF Send, IsNext
  <2>3. result[w] \in Answers
    OBVIOUS
  <2>. QED  BY <2>1, <2>2, <2>3 DEF RunInv
<1>2. CASE Resend(w)
  <2>1. PICK v \in todo[w] \cap Active :
          /\ Answer(w, v) /\ todo' = [todo EXCEPT ![w] = @ \ {v}]
          /\ prior' = [prior EXCEPT ![w] = [prior[w] EXCEPT ![v] = "FAILED"]]
    BY <1>2 DEF Resend
  <2>2. pc[w] = "retrying" /\ pc'[w] = "resent" /\ v \in Clients
    BY <1>2 DEF Resend
  <2>3. \A u \in Clients : prior'[w][u] = IF u = v THEN "FAILED" ELSE prior[w][u]
    BY <2>1 DEF Answers
  <2>4. receipt[hold[w]][v] = "FAILED" /\ result[w][v] = "NONE"
    BY <2>1, <2>2 DEF RunInv, NoAnswer
  <2>. QED  BY <2>1, <2>2, <2>3, <2>4
<1>. QED  BY <1>1, <1>2

\* What an attempt to send changes: a message that arrives is known to the session
\* or charged to the lost answer.
LEMMA AnswerCharged ==
  ASSUME CampaignInv, NEW w \in Workers, NEW v \in Clients, hold[w] \in Campaigns,
         Answer(w, v)
  PROVE  /\ \A u \in Clients \ {v} : result'[w][u] = result[w][u]
         /\ result'[w][v] # "NONE"
         /\ \A c \in Campaigns, u \in Clients :
              ~(c = hold[w] /\ u = v) => sends'[c][u] = sends[c][u]
         /\ \A c \in Campaigns \ {hold[w]} : sends'[c] = sends[c]
         /\ UNCHANGED faults \/ \E k \in Faults : Spend(k)
         /\ sends'[hold[w]][v] + faults["crash"] + faults["lost"] <=
              sends[hold[w]][v] + faults'["crash"] + faults'["lost"]
                + (IF result'[w][v] = "SENT" THEN 1 ELSE 0)
<1>. USE DEF CampaignInv, Typed, TypeOK
<1>. DEFINE h == hold[w]
<1>0. /\ sends[h][v] \in Nat /\ faults["crash"] \in Nat /\ faults["lost"] \in Nat
      /\ result[w] \in Answers
  BY DEF Faults
<1>1. ASSUME NEW o \in Outcomes, Result(w, v, o)
      PROVE  /\ \A u \in Clients \ {v} : result'[w][u] = result[w][u]
             /\ result'[w][v] = o /\ o # "NONE"
  <2>1. result' = [result EXCEPT ![w] = [result[w] EXCEPT ![v] = o]]
    BY <1>1 DEF Result
  <2>. QED  BY <1>0, <2>1 DEF Answers, Outcomes
<1>2. ASSUME Arrives(w, v)
      PROVE  /\ sends'[h][v] = sends[h][v] + 1
             /\ \A c \in Campaigns, u \in Clients :
                  ~(c = h /\ u = v) => sends'[c][u] = sends[c][u]
             /\ \A c \in Campaigns \ {h} : sends'[c] = sends[c]
  <2>1. sends' = [sends EXCEPT ![h] = [sends[h] EXCEPT ![v] = @ + 1]]
    BY <1>2 DEF Arrives
  <2>. QED  BY <2>1
<1>3. CASE Result(w, v, "SENT") /\ Arrives(w, v) /\ UNCHANGED faults
  BY <1>0, <1>1, <1>2, <1>3 DEF Outcomes
<1>4. CASE Result(w, v, "FAILED") /\ UNCHANGED <<sends, faults>>
  BY <1>0, <1>1, <1>4 DEF Outcomes
<1>5. CASE Result(w, v, "BLOCKED") /\ Spend("block") /\ UNCHANGED sends
  <2>1. faults'["crash"] = faults["crash"] /\ faults'["lost"] = faults["lost"]
    BY <1>5 DEF Spend, Faults
  <2>. QED  BY <1>0, <1>1, <1>5, <2>1 DEF Outcomes, Faults
<1>6. CASE Result(w, v, "FAILED") /\ Spend("lost") /\ Arrives(w, v)
  <2>1. faults'["crash"] = faults["crash"] /\ faults'["lost"] = faults["lost"] + 1
    BY <1>6 DEF Spend, Faults
  <2>. QED  BY <1>0, <1>1, <1>2, <1>6, <2>1 DEF Outcomes, Faults
<1>. QED  BY <1>3, <1>4, <1>5, <1>6 DEF Answer

LEMMA SendOnce ==
  ASSUME CampaignInv, OnceInv, NEW w \in Workers, Send(w) \/ Resend(w), Typed',
         \A u \in Workers \ {w} : Idles(u)
  PROVE  RunInv(w)' /\ \A c \in Campaigns \ handed, v \in Clients : Charged(c, v)'
<1>0. /\ hold[w] \in Campaigns /\ pc[w] # "idle" /\ RunInv(w) /\ OneRun
      /\ UNCHANGED <<receipt, job, hold, handed>>
  BY DEF CampaignInv, Typed, OnceInv, Send, Resend
<1>00. PICK h \in Campaigns : h = hold[w]
  BY <1>0
<1>1. PICK x \in Clients : Answer(w, x)
  BY DEF Send, Resend, Active
<1>2. /\ \A c \in Campaigns \ {hold[w]} : sends'[c] = sends[c]
      /\ UNCHANGED faults \/ \E k \in Faults : Spend(k)
  BY <1>0, <1>1, AnswerCharged
<1>3. ASSUME NEW c \in Campaigns \ handed, NEW v \in Clients, c # hold[w] PROVE Charged(c, v)'
  BY <1>0, <1>2, <1>3, OtherSends DEF OnceInv
<1>4. CASE ~Runs(w)
  BY <1>0, <1>3, <1>4 DEF Runs, RunInv
<1>5. CASE Runs(w)
  <2>1. PICK v \in Clients :
          /\ Answer(w, v)
          /\ receipt[hold[w]][v] # "SENT" /\ result[w][v] = "NONE"
          /\ pc'[w] \in {"paging", "resent"} /\ todo'[w] = todo[w] \ {v}
          /\ prior'[w][v] = receipt[hold[w]][v]
          /\ \A u \in Clients \ {v} : prior'[w][u] = prior[w][u]
          /\ pc'[w] = "resent" => pc[w] = "retrying"
    BY <1>0, <1>5, SendsToUntold
  <2>2. /\ \A u \in Clients \ {v} : result'[w][u] = result[w][u]
        /\ \A u \in Clients \ {v} : sends'[hold[w]][u] = sends[hold[w]][u]
        /\ sends'[hold[w]][v] + faults["crash"] + faults["lost"] <=
              sends[hold[w]][v] + faults'["crash"] + faults'["lost"]
                + (IF result'[w][v] = "SENT" THEN 1 ELSE 0)
    BY <1>0, <2>1, AnswerCharged
  <2>3. RunInv(w)'
    <3>1. \A u \in Clients : result'[w][u] # "NONE" =>
            /\ prior'[w][u] = receipt[hold[w]][u] /\ receipt[hold[w]][u] # "SENT"
            /\ u \notin todo'[w]
      BY <1>0, <1>5, <2>1, <2>2 DEF RunInv
    <3>2. pc'[w] = "resent" => \A u \in todo'[w] : u \in Clients => receipt[hold[w]][u] = "FAILED"
      BY <1>0, <1>5, <2>1 DEF RunInv
    <3>. QED  BY <1>0, <1>5, <2>1, <3>1, <3>2 DEF RunInv, Runs
  <2>4. ASSUME NEW u \in Clients PROVE Charged(h, u)'
    <3>1. Told(h, u)' <=> receipt[h][u] = "SENT" \/ result'[w][u] = "SENT"
      <4>1. Told(h, u)' <=> receipt'[h][u] = "SENT" \/ (hold'[w] = h /\ result'[w][u] = "SENT")
        BY <1>0, <1>00, <1>5, AloneStays
      <4>. QED  BY <1>0, <1>00, <4>1
    <3>2. Told(h, u) <=> receipt[h][u] = "SENT" \/ result[w][u] = "SENT"
      BY <1>0, <1>00, <1>5, Alone
    <3>3. Charged(h, u)
      BY <1>00, <1>5 DEF OnceInv, Runs
    <3>4. /\ sends[h][u] \in Int /\ sends'[h][u] \in Int
          /\ faults["crash"] \in Int /\ faults["lost"] \in Int
          /\ faults'["crash"] \in Int /\ faults'["lost"] \in Int
      BY <1>0 DEF CampaignInv, Typed, TypeOK, Faults
    <3>5. faults["crash"] <= faults'["crash"] /\ faults["lost"] <= faults'["lost"]
      BY <1>2, <3>4, SpendGrows DEF CampaignInv
    <3>6. CASE u = v
      <4>1. ~Told(h, u) /\ (Told(h, u)' <=> result'[w][u] = "SENT")
        BY <1>00, <2>1, <3>1, <3>2, <3>6
      <4>2. sends'[h][u] + faults["crash"] + faults["lost"] <=
              sends[h][u] + faults'["crash"] + faults'["lost"]
                + (IF result'[w][u] = "SENT" THEN 1 ELSE 0)
        BY <1>00, <2>2, <3>6
      <4>. QED  BY <3>3, <3>4, <4>1, <4>2 DEF Charged
    <3>7. CASE u # v
      <4>1. Told(h, u)' <=> Told(h, u)
        BY <2>2, <3>1, <3>2, <3>7
      <4>2. sends'[h][u] = sends[h][u]
        BY <1>00, <2>2, <3>7
      <4>. QED  BY <3>3, <3>4, <3>5, <4>1, <4>2 DEF Charged
    <3>. QED  BY <3>6, <3>7
  <2>. QED  BY <1>00, <1>3, <2>3, <2>4
<1>. QED  BY <1>4, <1>5

\* A commit stores what was answered: who was told of it has a SENT receipt.
LEMMA CommitOnce ==
  ASSUME CampaignInv, OnceInv, NEW w \in Workers, CommitPage(w) \/ CommitResend(w), Typed',
         \A u \in Workers \ {w} : Idles(u)
  PROVE  RunInv(w)' /\ \A c \in Campaigns \ handed, v \in Clients : Charged(c, v)'
<1>0. /\ RunInv(w) /\ hold[w] \in Campaigns /\ pc[w] # "idle" /\ pc'[w] \in {"ready", "retrying"}
      /\ Store(w) /\ Heartbeat(w) /\ Forget(w) /\ OneRun
      /\ UNCHANGED <<sends, hold, todo, faults, handed>>
      /\ pc'[w] = "retrying" => pc[w] = "resent"
  BY DEF CommitPage, CommitResend, CampaignInv, Typed, TypeOK, OnceInv
<1>00. PICK h \in Campaigns : h = hold[w]
  BY <1>0
<1>1. \A v \in Clients :
        receipt'[hold[w]][v] = IF Writes(w, v) THEN result[w][v] ELSE receipt[hold[w]][v]
  BY <1>0 DEF Store, CampaignInv, Typed, TypeOK
<1>2. \A c \in Campaigns \ {hold[w]} : receipt'[c] = receipt[c]
  BY <1>0 DEF Store, CampaignInv, Typed, TypeOK
<1>3. ASSUME NEW c \in Campaigns \ handed, NEW v \in Clients, c # hold[w] PROVE Charged(c, v)'
  BY <1>0, <1>2, <1>3, OtherSends DEF OnceInv
<1>4. CASE ~Runs(w)
  BY <1>0, <1>3, <1>4 DEF Runs, RunInv
<1>5. CASE Runs(w)
  <2>1. job'[hold[w]].status = "RUNNING"
    <3>1. job'[hold[w]] = update_heartbeat(job[hold[w]]) /\ job[hold[w]] \in Job
      BY <1>0 DEF Heartbeat, CampaignInv, Typed, TypeOK
    <3>2. job[hold[w]].status = "RUNNING"
      BY <1>0, <1>5 DEF RunInv
    <3>. QED  BY <3>1, <3>2, JobChanges
  <2>2. result'[w] = NoAnswer
    BY <1>0, ForgetKeeps
  <2>3. \A v \in Clients : v \in todo[w] => receipt'[hold[w]][v] = receipt[hold[w]][v]
    BY <1>0, <1>1, <1>5 DEF RunInv, Writes
  <2>4. RunInv(w)'
    BY <1>0, <1>5, <2>1, <2>2, <2>3 DEF RunInv, NoAnswer
  <2>5. ASSUME NEW v \in Clients PROVE Charged(h, v)'
    <3>1. Told(h, v)' <=> receipt'[h][v] = "SENT" \/ (hold'[w] = h /\ result'[w][v] = "SENT")
      BY <1>0, <1>00, <1>5, AloneStays
    <3>2. Told(h, v) <=> receipt[h][v] = "SENT" \/ result[w][v] = "SENT"
      BY <1>0, <1>00, <1>5, Alone
    <3>3. result'[w][v] # "SENT"
      BY <2>2 DEF NoAnswer
    <3>4. receipt[h][v] = "SENT" => result[w][v] = "NONE"
      BY <1>0, <1>00, <1>5 DEF RunInv
    <3>5. result[w][v] = "SENT" => Writes(w, v)
      BY <1>0, <1>5 DEF RunInv, Writes
    <3>6. Told(h, v)' <=> Told(h, v)
      BY <1>00, <1>1, <3>1, <3>2, <3>3, <3>4, <3>5 DEF Writes
    <3>7. Charged(h, v)
      BY <1>00, <1>5 DEF OnceInv, Runs
    <3>. QED  BY <1>0, <3>6, <3>7 DEF Charged
  <2>. QED  BY <1>00, <1>3, <2>4, <2>5
<1>. QED  BY <1>4, <1>5

\* A run that ends has nothing to store; a crash pays for what it loses; and a
\* worker that runs alone finds no receipt it did not know of.
LEMMA ReleaseOnce ==
  ASSUME CampaignInv, OnceInv, NEW w \in Workers, EndRun(w) \/ RunRaises(w) \/ Crash(w), Typed'
  PROVE  RunInv(w)' /\ \A c \in Campaigns \ handed, v \in Clients : Charged(c, v)'
<1>0. /\ RunInv(w) /\ OneRun /\ hold[w] \in Campaigns /\ pc[w] # "idle" /\ Release(w)
      /\ UNCHANGED <<receipt, sends, handed>>
  BY DEF CampaignInv, Typed, OnceInv, EndRun, RunRaises, Crash
<1>1. pc'[w] = "idle" /\ result'[w] = NoAnswer /\ hold'[w] = None
  BY <1>0, ForgetKeeps DEF Release, CampaignInv, Typed, TypeOK
<1>2. RunInv(w)'
  BY <1>1 DEF RunInv, Runs
<1>3. \A u \in Workers \ {w} : Idles(u)
  BY <1>0, ReleaseKeeps
<1>4. ASSUME NEW c \in Campaigns \ handed, NEW v \in Clients, c # hold[w] PROVE Charged(c, v)'
  <2>1. UNCHANGED faults \/ \E k \in Faults : Spend(k)
    BY DEF EndRun, RunRaises, Crash, Faults
  <2>. QED  BY <1>0, <1>1, <1>3, <1>4, <2>1, OtherSends DEF OnceInv
<1>00. PICK h \in Campaigns : h = hold[w]
  BY <1>0
<1>5. ASSUME Runs(w), NEW v \in Clients PROVE Charged(h, v)'
  <2>0. /\ Charged(h, v) /\ sends[h][v] \in Nat
        /\ faults["crash"] \in Nat /\ faults["lost"] \in Nat
    BY <1>00, <1>5 DEF OnceInv, Runs, CampaignInv, Typed, TypeOK, Faults
  <2>1. Told(h, v)' <=> receipt[h][v] = "SENT"
    <3>1. Told(h, v)' <=> receipt'[h][v] = "SENT" \/ (hold'[w] = h /\ result'[w][v] = "SENT")
      BY <1>0, <1>00, <1>3, <1>5, AloneStays
    <3>. QED  BY <1>0, <1>1, <3>1 DEF NoAnswer
  <2>2. Told(h, v) <=> receipt[h][v] = "SENT" \/ result[w][v] = "SENT"
    BY <1>0, <1>00, <1>5, Alone
  <2>3. CASE EndRun(w)
    <3>1. result[w] = NoAnswer /\ UNCHANGED faults
      BY <1>0, <1>5, <2>3 DEF EndRun, RunInv
    <3>2. Told(h, v)' <=> Told(h, v)
      BY <2>1, <2>2, <3>1 DEF NoAnswer
    <3>. QED  BY <1>0, <2>0, <3>1, <3>2 DEF Charged
  <2>4. CASE RunRaises(w)
    <3>1. PICK u \in Clients :
            Writes(w, u) /\ prior[w][u] = "NONE" /\ receipt[hold[w]][u] # "NONE"
      BY <2>4 DEF RunRaises, Conflict
    <3>. QED  BY <1>0, <1>5, <3>1 DEF RunInv, Writes
  <2>5. CASE Crash(w)
    <3>1. faults'["crash"] = faults["crash"] + 1 /\ faults'["lost"] = faults["lost"]
      BY <2>5 DEF Crash, Spend, CampaignInv, Typed, TypeOK, Faults
    <3>2. Told(h, v)' => Told(h, v)
      BY <2>1, <2>2
    <3>. QED  BY <1>0, <2>0, <3>1, <3>2 DEF Charged
  <2>. QED  BY <2>3, <2>4, <2>5
<1>. QED  BY <1>0, <1>00, <1>2, <1>4, <1>5 DEF Runs

\* What happens around the runs leaves those whose job it does not take.
LEMMA AroundOnce ==
  ASSUME CampaignInv, OnceInv, Typed', UNCHANGED <<receipt, sends, work>>,
         handed \subseteq handed', UNCHANGED faults \/ \E k \in Faults : Spend(k),
         \A w \in Workers : pc[w] # "idle" /\ hold[w] \notin handed' =>
                               job'[hold[w]].status = job[hold[w]].status
  PROVE  OnceInv'
<1>1. OneRun'
  BY DEF OnceInv, OneRun, Runs, work
<1>2. ASSUME NEW u \in Workers PROVE RunInv(u)'
  <2>1. RunInv(u)
    BY DEF OnceInv
  <2>2. \A v \in Clients : IsNext(u, v)' <=> IsNext(u, v)
    BY DEF IsNext, work
  <2>. QED  BY <2>1, <2>2 DEF RunInv, Runs, work, NoAnswer
<1>3. ASSUME NEW c \in Campaigns \ handed', NEW v \in Clients PROVE Charged(c, v)'
  <2>1. Told(c, v)' <=> Told(c, v)
    BY DEF Told, work
  <2>2. Charged(c, v) /\ sends' = sends
    BY DEF OnceInv
  <2>3. /\ faults["crash"] <= faults'["crash"] /\ faults["lost"] <= faults'["lost"]
        /\ faults["crash"] \in Int /\ faults["lost"] \in Int /\ sends[c][v] \in Int
        /\ faults'["crash"] \in Int /\ faults'["lost"] \in Int
    BY SpendGrows DEF CampaignInv, Typed, TypeOK, Faults
  <2>. QED  BY <2>1, <2>2, <2>3 DEF Charged
<1>. QED  BY <1>1, <1>2, <1>3 DEF OnceInv

\* A claim finds nobody at work on the campaign, unless its job was taken from him.
LEMMA ClaimOnce ==
  ASSUME CampaignInv, OnceInv, NEW w \in Workers, NEW c \in Campaigns,
         claim_owner_campaign_job(w, c)
  PROVE  OnceInv'
<1>. USE DEF CampaignInv, Typed, TypeOK
<1>1. /\ pc[w] = "idle" /\ hold'[w] = c /\ pc'[w] = "claimed"
      /\ UNCHANGED <<receipt, sends, result, todo, prior, scan, faults, handed>>
      /\ \A u \in Workers \ {w} : Idles(u)
      /\ \A d \in Campaigns \ {c} : job'[d] = job[d]
  BY DEF claim_owner_campaign_job, Idles
<1>2. \A u \in Workers : result[u] = NoAnswer \/ pc[u] # "idle"
  BY DEF WorkerInv, Fresh
<1>3. \A u \in Workers : Runs(u) => hold[u] # c /\ hold[u] \in Campaigns
  <2>1. job[c].status # "RUNNING"
    BY DEF claim_owner_campaign_job, IsClaimable
  <2>. QED  BY <2>1 DEF OnceInv, RunInv, Runs
<1>4. OneRun'
  BY <1>1, <1>3 DEF OnceInv, OneRun, Runs, Idles
<1>5. job'[c].status = "RUNNING"
  <2>1. job[c] \in Job /\ job'[c] = mark_running(job[c])
    BY DEF claim_owner_campaign_job
  <2>. QED  BY <2>1 DEF mark_running, Job
<1>6. RunInv(w)'
  BY <1>1, <1>2, <1>5 DEF RunInv, NoAnswer
<1>7. ASSUME NEW u \in Workers \ {w} PROVE RunInv(u)'
  <2>1. \A v \in Clients : IsNext(u, v)' <=> IsNext(u, v)
    BY <1>1 DEF IsNext, Idles
  <2>2. RunInv(u)
    BY DEF OnceInv
  <2>. QED  BY <1>1, <1>3, <2>1, <2>2 DEF RunInv, Runs, Idles
<1>8. ASSUME NEW d \in Campaigns \ handed, NEW v \in Clients PROVE Charged(d, v)'
  <2>1. result[w][v] # "SENT"
    BY <1>1, <1>2 DEF NoAnswer
  <2>2. Told(d, v)' <=> Told(d, v)
    BY <1>1, <2>1 DEF Told, Idles
  <2>. QED  BY <1>1, <2>2 DEF OnceInv, Charged
<1>. QED  BY <1>1, <1>4, <1>6, <1>7, <1>8 DEF OnceInv

LEMMA WorkerOnce ==
  ASSUME CampaignInv, OnceInv, NEW w \in Workers, Step(w) \/ Crash(w), Typed'
  PROVE  OnceInv'
<1>0. /\ pc[w] # "idle" /\ handed' = handed /\ hold[w] \in Campaigns
  BY DEF Step, StartRun, FetchPage, CheckReceipt, Send, CommitPage, StartRetries, SkipInactive,
         Resend, CommitResend, EndRun, RunRaises, Crash, CampaignInv, Typed
<1>1. \A u \in Workers \ {w} : Idles(u)
  BY StepIdles
<1>2. pc'[w] = "idle" \/ hold'[w] = hold[w]
  BY DEF Step, StartRun, FetchPage, CheckReceipt, Send, CommitPage, StartRetries, SkipInactive,
         Resend, CommitResend, EndRun, RunRaises, Crash, Release, CampaignInv, Typed, TypeOK
<1>3. \A c \in Campaigns \ {hold[w]} : job'[c] = job[c] /\ receipt'[c] = receipt[c]
  BY <1>0 DEF Step, StartRun, FetchPage, CheckReceipt, Send, CommitPage, StartRetries,
              SkipInactive, Resend, CommitResend, EndRun, RunRaises, Crash, Heartbeat, Store,
              CampaignInv, Typed, TypeOK
<1>4. OneRun' /\ \A u \in Workers \ {w} : RunInv(u)'
  BY <1>0, <1>1, <1>2, <1>3, OtherRuns
<1>5. RunInv(w)' /\ \A c \in Campaigns \ handed, v \in Clients : Charged(c, v)'
  <2>1. CASE \/ StartRun(w) \/ FetchPage(w) \/ CheckReceipt(w) \/ StartRetries(w)
             \/ SkipInactive(w)
    <3>1. RunInv(w)'
      BY <2>1, QuietRun DEF OnceInv
    <3>2. UNCHANGED <<receipt, sends, hold, result, faults>>
      BY <2>1 DEF StartRun, FetchPage, CheckReceipt, StartRetries, SkipInactive
    <3>. QED  BY <3>1, <3>2 DEF OnceInv, Charged, Told
  <2>2. CASE Send(w) \/ Resend(w)
    BY <1>1, <2>2, SendOnce
  <2>3. CASE CommitPage(w) \/ CommitResend(w)
    BY <1>1, <2>3, CommitOnce
  <2>4. CASE EndRun(w) \/ RunRaises(w) \/ Crash(w)
    BY <2>4, ReleaseOnce
  <2>. QED  BY <2>1, <2>2, <2>3, <2>4 DEF Step
<1>. QED  BY <1>0, <1>4, <1>5 DEF OnceInv

LEMMA StepOnce == CampaignInv /\ OnceInv /\ [Next]_vars => OnceInv'
<1>. SUFFICES ASSUME CampaignInv, OnceInv, [Next]_vars PROVE OnceInv'
  OBVIOUS
<1>0. Typed'
  BY StepTyped DEF CampaignInv
<1>01. \A w \in Workers : pc[w] # "idle" => hold[w] \in Campaigns /\ Held(hold[w])
         /\ row[hold[w]].status # "ABSENT"
         /\ (hold[w] \notin handed => job[hold[w]].status = "RUNNING")
  BY DEF CampaignInv, Typed, Created, Held, OnceInv, RunInv, Runs
<1>1. CASE UNCHANGED vars
  <2>1. UNCHANGED <<receipt, sends, work, job, faults, handed>>
    BY <1>1 DEF vars
  <2>. QED  BY <1>0, <2>1, AroundOnce
<1>2. ASSUME NEW v \in Clients, ClientJoins(v) \/ suspend_client(v) \/ reactivate_client(v)
      PROVE  OnceInv'
  <2>1. /\ UNCHANGED <<receipt, sends, work, job, handed>>
        /\ UNCHANGED faults \/ \E k \in Faults : Spend(k)
    BY <1>2 DEF ClientJoins, suspend_client, reactivate_client, Faults
  <2>. QED  BY <1>0, <2>1, AroundOnce
<1>3. ASSUME NEW c \in Campaigns, create(c) PROVE OnceInv'
  <2>1. /\ UNCHANGED <<receipt, sends, work, faults, handed>> /\ row[c].status = "ABSENT"
        /\ \A d \in Campaigns \ {c} : job'[d] = job[d]
    BY <1>3 DEF create, CampaignInv, Typed, TypeOK
  <2>. QED  BY <1>0, <1>01, <2>1, AroundOnce
<1>4. ASSUME NEW c \in Campaigns, HeartbeatAges(c) \/ BackoffElapses(c) PROVE OnceInv'
  <2>1. /\ UNCHANGED <<receipt, sends, work, handed>>
        /\ UNCHANGED faults \/ \E k \in Faults : Spend(k)
    BY <1>4 DEF HeartbeatAges, BackoffElapses, Faults
  <2>2. \A d \in Campaigns : job'[d].status = job[d].status
    <3>1. job[c] \in Job /\ job \in [Campaigns -> Job]
      BY DEF CampaignInv, Typed, TypeOK
    <3>. QED  BY <1>4, <3>1 DEF HeartbeatAges, BackoffElapses, Job
  <2>. QED  BY <1>0, <1>01, <2>1, <2>2, AroundOnce
<1>5. ASSUME NEW w \in Workers, NEW c \in Campaigns, claim_owner_campaign_job(w, c)
      PROVE  OnceInv'
  BY <1>5, ClaimOnce
<1>6. ASSUME NEW w \in Workers, Step(w) \/ Crash(w) PROVE OnceInv'
  BY <1>0, <1>6, WorkerOnce
<1>7. CASE get_stale_running_jobs
  <2>1. UNCHANGED <<receipt, sends, work, job, faults, handed>>
    BY <1>7 DEF get_stale_running_jobs
  <2>. QED  BY <1>0, <2>1, AroundOnce
<1>8. CASE recover_stale_running_jobs
  <2>1. /\ UNCHANGED <<receipt, sends, work, faults>> /\ handed \subseteq handed'
        /\ \A c \in Campaigns \ Scanned : job'[c] = job[c]
        /\ \A c \in Scanned : Held(c) => c \in handed'
    BY <1>8 DEF recover_stale_running_jobs
  <2>. QED  BY <1>0, <1>01, <2>1, AroundOnce
<1>9. ASSUME NEW c \in Campaigns, RetryReads(c) PROVE OnceInv'
  <2>1. UNCHANGED <<receipt, sends, work, job, handed>> /\ Spend("retry")
    BY <1>9 DEF RetryReads
  <2>. QED  BY <1>0, <2>1, AroundOnce DEF Faults
<1>10. ASSUME NEW c \in Campaigns, RetryWrites(c) PROVE OnceInv'
  <2>1. /\ UNCHANGED <<receipt, sends, work, faults>> /\ handed \subseteq handed'
        /\ \A d \in Campaigns \ {c} : job'[d] = job[d]
        /\ Held(c) => c \in handed'
    BY <1>10 DEF RetryWrites, CampaignInv, Typed, TypeOK
  <2>. QED  BY <1>0, <1>01, <2>1, AroundOnce
<1>. QED  BY <1>1, <1>2, <1>3, <1>4, <1>5, <1>6, <1>7, <1>8, <1>9, <1>10 DEF Next

\* A client gets a campaign once, and once more for each run that is lost with what
\* it had sent and each answer that is lost with the failure put on record for it:
\* the receipts of a page are stored together, and a message is tried again only
\* where a failure is on record.  The owner's retry and the recovery of the job
\* add nothing, unless they take it from a worker that is at work on it.
THEOREM ResentForFaults == Spec => []ResentOnlyAfterFault
<1>1. CampaignInv /\ OnceInv => ResentOnlyAfterFault
  <2>. SUFFICES ASSUME CampaignInv, OnceInv, NEW c \in Campaigns \ handed, NEW v \in Clients
                PROVE  sends[c][v] <= 1 + faults["crash"] + faults["lost"]
    BY DEF ResentOnlyAfterFault
  <2>1. sends[c][v] \in Nat /\ faults["crash"] \in Nat /\ faults["lost"] \in Nat
    BY DEF CampaignInv, Typed, TypeOK, Faults
  <2>2. Charged(c, v)
    BY DEF OnceInv
  <2>. QED  BY <2>1, <2>2 DEF Charged
<1>. QED  BY <1>1, InitCampaigns, StepCampaigns, InitOnce, StepOnce, PTL DEF Spec

=============================================================================
