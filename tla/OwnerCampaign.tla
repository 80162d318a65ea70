--------------------------- MODULE OwnerCampaign ---------------------------
(***************************************************************************)
(* The platform owner's campaigns to the clients of the platform: their    *)
(* creation (app/services/message_campaign_service.py), the claim of their *)
(* jobs (app/repositories/job.py), and the worker that sends them          *)
(* (app/workers/owner_message_campaign.py), with the recovery of the jobs  *)
(* whose worker stopped reporting.                                         *)
(*                                                                         *)
(* The worker shares the loop of the LIVE worker and catches nothing but   *)
(* the answers of Telegram: whatever raises leaves the job RUNNING, and    *)
(* while a job is RUNNING no campaign is claimed.  A campaign has one job, *)
(* so a job is named by its campaign.                                      *)
(***************************************************************************)
EXTENDS JobRows, Integers, FiniteSets

CONSTANTS
  Campaigns, Workers,
  N,            \* clients have the ids 1 .. N
  PageSize,     \* recipients per page, 100 in the code
  MaxAttempts,  \* RetryPolicy.max_attempts of the job
  Limit,        \* how many faults of each kind a behaviour has
  MaxFaults,    \* and how many of all kinds together
  None          \* "holds no job"

\* A worker dies; a live worker goes 300 s without a heartbeat; the owner presses
\* retry on a job; the answer to a message that arrives is lost; a client is
\* suspended, made ACTIVE again, registers, or has blocked the bot.
Faults == {"crash", "stall", "retry", "lost", "suspend", "reactivate", "join", "block"}

ASSUME NType == N \in Nat
ASSUME PageSizePositive == PageSize \in Nat \ {0}
ASSUME MaxAttemptsPositive == MaxAttempts \in Nat \ {0}
ASSUME LimitType == Limit \in [Faults -> Nat]
ASSUME MaxFaultsType == MaxFaults \in Nat
ASSUME NoneNotCampaign == None \notin Campaigns

Clients == 1 .. N

VARIABLES
  client,   \* clients.status
  row,      \* the campaign's row in message_campaigns
  receipt,  \* the status in campaign_client_deliveries, or "NONE"
  sends,    \* messages each client has received
  job,      \* its row in background_jobs
  pc,       \* where each worker is
  hold,     \* the campaign it works on
  copy,     \* the campaign's row as the worker's session last wrote it
  cursor,   \* the id of the last recipient it dealt with
  todo,     \* the recipients of its page, or the failed receipts, still to do
  prior,    \* the receipt it found for each recipient of its page
  result,   \* what Telegram answered for them
  scan,     \* attempts of the stale jobs the maintenance cycle has read
  pressed,  \* jobs an owner's retry has read as retryable
  faults,
  steady,   \* history: clients of the campaign ACTIVE since it was created
  handed    \* history: campaigns whose job was recovered, or queued again by
            \* the owner's retry, while a worker was at work on it

work == <<pc, hold, copy, cursor, todo, prior, result>>
vars == <<client, row, receipt, sends, job, work, scan, pressed, faults,
          steady, handed>>

Outcomes == {"SENT", "FAILED", "BLOCKED"}
Over == {"COMPLETED", "PARTIAL"}

Row == [status : {"ABSENT", "PENDING", "RUNNING"} \cup Over,
        last : Nat, max : Nat, total : Int, sent : Int, failed : Int, blocked : Int]

NoRow == [status |-> "ABSENT", last |-> 0, max |-> 0, total |-> 0,
          sent |-> 0, failed |-> 0, blocked |-> 0]

\* "ready": between two pages; "paging": in a page; "checked": it has looked for
\* the receipt of the next recipient; "retrying": it goes through the failed
\* receipts; "resent": it has sent to one of them again.
PCs == {"idle", "claimed", "ready", "paging", "checked", "retrying", "resent"}

Answers == [Clients -> Outcomes \cup {"NONE"}]
NoAnswer == [v \in Clients |-> "NONE"]

TypeOK ==
  /\ client \in [Clients -> {"ABSENT", "ACTIVE", "SUSPENDED"}]
  /\ row \in [Campaigns -> Row]
  /\ receipt \in [Campaigns -> Answers]
  /\ sends \in [Campaigns -> [Clients -> Nat]]
  /\ job \in [Campaigns -> Job]
  /\ pc \in [Workers -> PCs]
  /\ hold \in [Workers -> Campaigns \cup {None}]
  /\ copy \in [Workers -> Row]
  /\ cursor \in [Workers -> Nat]
  /\ todo \in [Workers -> SUBSET Clients]
  /\ prior \in [Workers -> Answers]
  /\ result \in [Workers -> Answers]
  /\ scan \in [Campaigns -> Nat]
  /\ pressed \subseteq Campaigns
  /\ faults \in [Faults -> Nat]
  /\ steady \in [Campaigns -> SUBSET Clients]
  /\ handed \subseteq Campaigns

Init ==
  /\ client \in [Clients -> {"ABSENT", "ACTIVE", "SUSPENDED"}]
  /\ row = [c \in Campaigns |-> NoRow]
  /\ receipt = [c \in Campaigns |-> NoAnswer]
  /\ sends = [c \in Campaigns |-> [v \in Clients |-> 0]]
  /\ job = [c \in Campaigns |-> NoJob]
  /\ pc = [w \in Workers |-> "idle"]
  /\ hold = [w \in Workers |-> None]
  /\ copy = [w \in Workers |-> NoRow]
  /\ cursor = [w \in Workers |-> 0]
  /\ todo = [w \in Workers |-> {}]
  /\ prior = [w \in Workers |-> NoAnswer]
  /\ result = [w \in Workers |-> NoAnswer]
  /\ scan = [c \in Campaigns |-> 0]
  /\ pressed = {}
  /\ faults = [k \in Faults |-> 0]
  /\ steady = [c \in Campaigns |-> {}]
  /\ handed = {}

Spend(k) ==
  /\ faults[k] < Limit[k]
  /\ faults["crash"] + faults["stall"] + faults["retry"] + faults["lost"] + faults["suspend"]
       + faults["reactivate"] + faults["join"] + faults["block"] < MaxFaults
  /\ faults' = [faults EXCEPT ![k] = @ + 1]

Active == {v \in Clients : client[v] = "ACTIVE"}
With(f, s) == {v \in Clients : f[v] = s}
Held(c) == \E w \in Workers : hold[w] = c

----------------------------------------------------------------------------
(* Clients and the creation of campaigns.                                   *)

ClientJoins(v) ==
  /\ client[v] = "ABSENT" /\ Spend("join")
  /\ client' = [client EXCEPT ![v] = "ACTIVE"]
  /\ UNCHANGED <<row, receipt, sends, job, work, scan, pressed, steady, handed>>

suspend_client(v) ==
  /\ client[v] = "ACTIVE" /\ Spend("suspend")
  /\ client' = [client EXCEPT ![v] = "SUSPENDED"]
  /\ steady' = [c \in Campaigns |-> steady[c] \ {v}]
  /\ UNCHANGED <<row, receipt, sends, job, work, scan, pressed, handed>>

reactivate_client(v) ==
  /\ client[v] = "SUSPENDED" /\ Spend("reactivate")
  /\ client' = [client EXCEPT ![v] = "ACTIVE"]
  /\ UNCHANGED <<row, receipt, sends, job, work, scan, pressed, steady, handed>>

\* The greatest id of an ACTIVE client, or 0.
MaxActive == IF Active = {} THEN 0
             ELSE CHOOSE m \in Active : \A v \in Active : v <= m

create(c) ==
  /\ row[c].status = "ABSENT"
  /\ row' = [row EXCEPT ![c] = [NoRow EXCEPT !.status = "PENDING", !.max = MaxActive,
                                             !.total = Cardinality(Active)]]
  /\ job' = [job EXCEPT ![c] = create_job]
  /\ steady' = [steady EXCEPT ![c] = Active]
  /\ UNCHANGED <<client, receipt, sends, work, scan, pressed, faults, handed>>

----------------------------------------------------------------------------
(* The claim, and the beginning of a run.                                   *)

\* All campaigns use one bot token: one at a time.
NoneRunning == \A c \in Campaigns : job[c].status # "RUNNING"

\* The lock of the platform owner's row makes the claim atomic.
claim_owner_campaign_job(w, c) ==
  /\ pc[w] = "idle"
  /\ NoneRunning
  /\ IsClaimable(job[c])
  /\ job' = [job EXCEPT ![c] = mark_running(@)]
  /\ pc' = [pc EXCEPT ![w] = "claimed"]
  /\ hold' = [hold EXCEPT ![w] = c]
  /\ UNCHANGED <<client, row, receipt, sends, copy, cursor, todo, prior, result,
                 scan, pressed, faults, steady, handed>>

\* The campaign is loaded and made RUNNING, a finished one too.
StartRun(w) ==
  /\ pc[w] = "claimed"
  /\ LET new == [row[hold[w]] EXCEPT !.status = "RUNNING"]
     IN /\ row' = [row EXCEPT ![hold[w]] = new]
        /\ copy' = [copy EXCEPT ![w] = new]
        /\ cursor' = [cursor EXCEPT ![w] = new.last]
  /\ pc' = [pc EXCEPT ![w] = "ready"]
  /\ UNCHANGED <<client, receipt, sends, job, hold, todo, prior, result, scan, pressed,
                 faults, steady, handed>>

----------------------------------------------------------------------------
(* A page of recipients.                                                    *)

Ahead(w) == {v \in Active : cursor[w] < v /\ v <= copy[w].max}

\* Mutant: the page is not ordered by id.
FetchAnyPage(w) ==
  /\ pc[w] = "ready"
  /\ \E p \in SUBSET Ahead(w) \ {{}} :
       /\ Cardinality(p) <= PageSize
       /\ todo' = [todo EXCEPT ![w] = p]
  /\ pc' = [pc EXCEPT ![w] = "paging"]
  /\ UNCHANGED <<client, row, receipt, sends, job, hold, copy, cursor, prior,
                 result, scan, pressed, faults, steady, handed>>

FetchPage(w) ==
  /\ pc[w] = "ready"
  /\ \E p \in SUBSET Ahead(w) \ {{}} :
       /\ Cardinality(p) <= PageSize
       /\ p # Ahead(w) => Cardinality(p) = PageSize
       /\ \A v \in p, u \in Ahead(w) \ p : v < u
       /\ todo' = [todo EXCEPT ![w] = p]
  /\ pc' = [pc EXCEPT ![w] = "paging"]
  /\ UNCHANGED <<client, row, receipt, sends, job, hold, copy, cursor, prior,
                 result, scan, pressed, faults, steady, handed>>

IsNext(w, v) == v \in todo[w] /\ \A u \in todo[w] : v <= u

\* A recipient with a SENT receipt is passed over, and not counted.
CheckReceipt(w) ==
  /\ pc[w] = "paging"
  /\ \E v \in Clients :
       /\ IsNext(w, v)
       /\ IF receipt[hold[w]][v] = "SENT"
            THEN /\ cursor' = [cursor EXCEPT ![w] = v]
                 /\ todo' = [todo EXCEPT ![w] = @ \ {v}]
                 /\ UNCHANGED <<pc, prior>>
            ELSE /\ prior' = [prior EXCEPT ![w][v] = receipt[hold[w]][v]]
                 /\ pc' = [pc EXCEPT ![w] = "checked"]
                 /\ UNCHANGED <<cursor, todo>>
  /\ UNCHANGED <<client, row, receipt, sends, job, hold, copy, result, scan, pressed,
                 faults, steady, handed>>

Result(w, v, o) == result' = [result EXCEPT ![w][v] = o]
Arrives(w, v) == sends' = [sends EXCEPT ![hold[w]][v] = @ + 1]

\* What comes of an attempt to send to client v; in the last case the message
\* arrives and the answer does not.
Answer(w, v) ==
  \/ Result(w, v, "SENT") /\ Arrives(w, v) /\ UNCHANGED faults
  \/ Result(w, v, "FAILED") /\ UNCHANGED <<sends, faults>>
  \/ Result(w, v, "BLOCKED") /\ Spend("block") /\ UNCHANGED sends
  \/ Result(w, v, "FAILED") /\ Spend("lost") /\ Arrives(w, v)

Send(w) ==
  /\ pc[w] = "checked"
  /\ \E v \in Clients :
       /\ IsNext(w, v)
       /\ Answer(w, v)
       /\ cursor' = [cursor EXCEPT ![w] = v]
       /\ todo' = [todo EXCEPT ![w] = @ \ {v}]
  /\ pc' = [pc EXCEPT ![w] = "paging"]
  /\ UNCHANGED <<client, row, receipt, job, hold, copy, prior, scan, pressed, steady, handed>>

----------------------------------------------------------------------------
(* Commits.                                                                 *)

\* The columns whose value differs in the copy from what it had are written.
Flushed(w, new) ==
  [row EXCEPT ![hold[w]] =
     [k \in DOMAIN new |-> IF new[k] = copy[w][k] THEN @[k] ELSE new[k]]]

Flush(w, new) == row' = Flushed(w, new) /\ copy' = [copy EXCEPT ![w] = new]

\* A receipt is written if it is new or its status has changed.
Writes(w, v) == result[w][v] # "NONE" /\ result[w][v] # prior[w][v]
Store(w) ==
  receipt' = [receipt EXCEPT ![hold[w]] =
                [v \in Clients |-> IF Writes(w, v) THEN result[w][v] ELSE @[v]]]

\* A receipt to be inserted is there by now: the unique key is violated.
Conflict(w) ==
  \E v \in Clients : Writes(w, v) /\ prior[w][v] = "NONE" /\ receipt[hold[w]][v] # "NONE"

\* The job's copy in the session still says RUNNING.
Heartbeat(w) == job' = [job EXCEPT ![hold[w]] = update_heartbeat(@)]

Forget(w) ==
  /\ prior' = [prior EXCEPT ![w] = NoAnswer]
  /\ result' = [result EXCEPT ![w] = NoAnswer]

Counted(w, o) == Cardinality(With(result[w], o))

CommitPage(w) ==
  /\ pc[w] = "paging" /\ todo[w] = {}
  /\ ~Conflict(w)
  /\ Flush(w, [copy[w] EXCEPT !.sent = @ + Counted(w, "SENT"),
                              !.failed = @ + Counted(w, "FAILED"),
                              !.blocked = @ + Counted(w, "BLOCKED"),
                              !.last = cursor[w]])
  /\ Store(w)
  /\ Heartbeat(w)
  /\ Forget(w)
  /\ pc' = [pc EXCEPT ![w] = "ready"]
  /\ UNCHANGED <<client, sends, hold, cursor, todo, scan, pressed, faults, steady, handed>>

\* Mutant: receipts that are not FAILED are tried again too.
AllReceipts(c) == Clients \ With(receipt[c], "NONE")

FailedReceipts(c) == With(receipt[c], "FAILED")

\* Nobody is left ahead: the failed receipts are read.
StartRetries(w) ==
  /\ pc[w] = "ready"
  /\ Ahead(w) = {}
  /\ todo' = [todo EXCEPT ![w] = FailedReceipts(hold[w])]
  /\ pc' = [pc EXCEPT ![w] = "retrying"]
  /\ UNCHANGED <<client, row, receipt, sends, job, hold, copy, cursor, prior,
                 result, scan, pressed, faults, steady, handed>>

SkipInactive(w) ==
  /\ pc[w] = "retrying"
  /\ \E v \in todo[w] \ Active : todo' = [todo EXCEPT ![w] = @ \ {v}]
  /\ UNCHANGED <<client, row, receipt, sends, job, pc, hold, copy, cursor, prior,
                 result, scan, pressed, faults, steady, handed>>

Resend(w) ==
  /\ pc[w] = "retrying"
  /\ \E v \in todo[w] \cap Active :
       /\ Answer(w, v)
       /\ prior' = [prior EXCEPT ![w][v] = "FAILED"]
       /\ todo' = [todo EXCEPT ![w] = @ \ {v}]
  /\ pc' = [pc EXCEPT ![w] = "resent"]
  /\ UNCHANGED <<client, row, receipt, job, hold, copy, cursor, scan, pressed, steady, handed>>

\* Each of these is committed by itself; a second failure changes nothing.
CommitResend(w) ==
  /\ pc[w] = "resent"
  /\ Flush(w, [copy[w] EXCEPT !.sent = @ + Counted(w, "SENT"),
                              !.blocked = @ + Counted(w, "BLOCKED"),
                              !.failed = @ - Counted(w, "SENT") - Counted(w, "BLOCKED")])
  /\ Store(w)
  /\ Heartbeat(w)
  /\ Forget(w)
  /\ pc' = [pc EXCEPT ![w] = "retrying"]
  /\ UNCHANGED <<client, sends, hold, cursor, todo, scan, pressed, faults, steady, handed>>

----------------------------------------------------------------------------
(* The end of a run.                                                        *)

\* The loop starts over with a new session.
Release(w) ==
  /\ pc' = [pc EXCEPT ![w] = "idle"]
  /\ hold' = [hold EXCEPT ![w] = None]
  /\ copy' = [copy EXCEPT ![w] = NoRow]
  /\ cursor' = [cursor EXCEPT ![w] = 0]
  /\ todo' = [todo EXCEPT ![w] = {}]
  /\ Forget(w)

\* Mutant: a campaign that reached nobody is FAILED.
FinalStatusOrFailed(r) ==
  IF r.failed = 0 THEN "COMPLETED" ELSE IF r.sent = 0 THEN "FAILED" ELSE "PARTIAL"

FinalStatus(r) == IF r.failed = 0 THEN "COMPLETED" ELSE "PARTIAL"

EndRun(w) ==
  /\ pc[w] = "retrying" /\ todo[w] = {}
  /\ row' = Flushed(w, [copy[w] EXCEPT
              !.total = copy[w].sent + copy[w].failed + copy[w].blocked,
              !.status = FinalStatus(copy[w])])
  /\ job' = [job EXCEPT ![hold[w]] = mark_completed(@)]
  /\ Release(w)
  /\ UNCHANGED <<client, receipt, sends, scan, pressed, faults, steady, handed>>

\* The commit of the page raises: nothing of it is stored, the job stays RUNNING.
RunRaises(w) ==
  /\ pc[w] = "paging" /\ todo[w] = {}
  /\ Conflict(w)
  /\ Release(w)
  /\ UNCHANGED <<client, row, receipt, sends, job, scan, pressed, faults, steady, handed>>

Crash(w) ==
  /\ pc[w] # "idle" /\ Spend("crash")
  /\ Release(w)
  /\ UNCHANGED <<client, row, receipt, sends, job, scan, pressed, steady, handed>>

----------------------------------------------------------------------------
(* Time, recovery and the retry button, as in BroadcastQueue.               *)

HeartbeatAges(c) ==
  /\ job[c].status = "RUNNING" /\ ~job[c].stale
  /\ job' = [job EXCEPT ![c].stale = TRUE]
  /\ IF Held(c) THEN Spend("stall") ELSE UNCHANGED faults
  /\ UNCHANGED <<client, row, receipt, sends, work, scan, pressed, steady, handed>>

BackoffElapses(c) ==
  /\ job[c].status = "RETRYING" /\ ~job[c].due
  /\ job' = [job EXCEPT ![c].due = TRUE]
  /\ UNCHANGED <<client, row, receipt, sends, work, scan, pressed, faults, steady, handed>>

get_stale_running_jobs ==
  /\ scan = [c \in Campaigns |-> 0]
  /\ \E c \in Campaigns : IsStaleRunning(job[c])
  /\ scan' = [c \in Campaigns |->
                IF IsStaleRunning(job[c]) THEN job[c].attempts ELSE 0]
  /\ UNCHANGED <<client, row, receipt, sends, job, work, pressed, faults, steady, handed>>

Scanned == {c \in Campaigns : scan[c] > 0}

recover_stale_running_jobs ==
  /\ Scanned # {}
  /\ job' = [c \in Campaigns |->
               IF c \in Scanned THEN recover_stale(job[c], scan[c], MaxAttempts)
                                ELSE job[c]]
  /\ handed' = handed \cup {c \in Scanned : Held(c)}
  /\ scan' = [c \in Campaigns |-> 0]
  /\ UNCHANGED <<client, row, receipt, sends, work, pressed, faults, steady>>

\* The owner's retry button reads the job without a lock, then writes it.
RetryReads(c) ==
  /\ CanRetry(job[c])
  /\ c \notin pressed
  /\ Spend("retry")
  /\ pressed' = pressed \cup {c}
  /\ UNCHANGED <<client, row, receipt, sends, job, work, scan, steady, handed>>

RetryWrites(c) ==
  /\ c \in pressed
  /\ job' = [job EXCEPT ![c] = retry_job(@)]
  /\ pressed' = pressed \ {c}
  /\ handed' = IF Held(c) THEN handed \cup {c} ELSE handed
  /\ UNCHANGED <<client, row, receipt, sends, work, scan, faults, steady>>

----------------------------------------------------------------------------
Step(w) ==
  \/ StartRun(w) \/ FetchPage(w) \/ CheckReceipt(w) \/ Send(w) \/ CommitPage(w)
  \/ StartRetries(w) \/ SkipInactive(w) \/ Resend(w) \/ CommitResend(w)
  \/ EndRun(w) \/ RunRaises(w)

Next ==
  \/ \E v \in Clients : ClientJoins(v) \/ suspend_client(v) \/ reactivate_client(v)
  \/ \E c \in Campaigns :
       \/ create(c) \/ HeartbeatAges(c) \/ BackoffElapses(c)
       \/ RetryReads(c) \/ RetryWrites(c)
  \/ \E w \in Workers, c \in Campaigns : claim_owner_campaign_job(w, c)
  \/ \E w \in Workers : Step(w) \/ Crash(w)
  \/ get_stale_running_jobs
  \/ recover_stale_running_jobs

Spec == Init /\ [][Next]_vars

(* The loop of the LIVE worker asks for an owner campaign first, each time; *)
(* a run goes on; time passes and the maintenance cycle comes every 30 s.   *)
Fairness ==
  /\ \A w \in Workers : WF_vars(Step(w))
  /\ WF_vars(\E w \in Workers, c \in Campaigns : claim_owner_campaign_job(w, c))
  /\ \A c \in Campaigns :
       WF_vars(~Held(c) /\ HeartbeatAges(c)) /\ WF_vars(BackoffElapses(c))
  /\ WF_vars(get_stale_running_jobs)
  /\ WF_vars(recover_stale_running_jobs)

FairSpec == Spec /\ Fairness

----------------------------------------------------------------------------
(* Properties.                                                              *)

\* A client gets a campaign twice only for a run that was lost or for an answer
\* that was, and once more at most for each: unless its job was made claimable
\* under a worker, when two runs send it beside each other.
ResentOnlyAfterFault ==
  \A c \in Campaigns \ handed, v \in Clients :
    sends[c][v] <= 1 + faults["crash"] + faults["lost"]

\* Every campaign ends, although one that is RUNNING keeps all others waiting:
\* over a crash, a conflict of two workers, or a takeover.  Not over a crash
\* after a takeover: see EveryBroadcastSettles of BroadcastQueue.
EveryCampaignEnds ==
  \A c \in Campaigns :
    row[c].status = "PENDING" ~>
      row[c].status \in Over \/ (faults["crash"] > 0 /\ handed # {})

\* A campaign keeps the promise of an announcement: it is over only when every
\* client it was made for, and who has been ACTIVE since, has a receipt.
Stage(c) ==
  CASE row[c].status = "ABSENT"  -> "none"
    [] row[c].status = "PENDING" -> "waiting"
    [] row[c].status = "RUNNING" -> "going"
    [] row[c].status \in Over    -> "over"

Promise ==
  INSTANCE Announcement WITH
    Messages <- Campaigns,
    People <- Clients,
    stage <- [c \in Campaigns |-> Stage(c)],
    audience <- steady,
    dealt <- [c \in Campaigns |-> Clients \ With(receipt[c], "NONE")]

KeepsPromise == Promise!Spec
=============================================================================
