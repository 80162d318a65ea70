--------------------------- MODULE BroadcastRun ---------------------------
(***************************************************************************)
(* What a run of one LIVE broadcast sends to whom, and what it leaves in   *)
(* the database if it is cut short: run_broadcast in app/services/         *)
(* broadcast_service.py, send_preview_to_viewer in app/services/           *)
(* broadcast_delivery_service.py and the repositories they use.            *)
(*                                                                         *)
(* Viewers are named by their ids, which the pagination goes by.  A worker *)
(* works on the copy of the broadcast its session loaded; a page's         *)
(* deliveries, counts and cursor are committed together, and a commit      *)
(* writes the columns whose value in the copy has changed.  Which worker   *)
(* may claim the job is the subject of BroadcastQueue; here a second       *)
(* worker takes over as a counted fault.                                   *)
(*                                                                         *)
(* A FAILED delivery stands for every answer of Telegram that is not a     *)
(* message sent: errors, timeouts, 429.                                    *)
(***************************************************************************)
EXTENDS Naturals, FiniteSets

CONSTANTS
  N,         \* viewer ids are 1..N
  Workers,
  PageSize,  \* BROADCAST_BATCH_SIZE
  Limit      \* how many faults of each kind a behaviour has

\* A worker dies; a second worker takes the job over from a live one; viewers
\* leave, come back, or become visible (their /start commits) during the run.
Faults == {"crash", "takeover", "leave", "return", "join"}

ASSUME NType == N \in Nat
ASSUME PageSizePositive == PageSize \in Nat \ {0}
ASSUME RunLimitType == Limit \in [Faults -> Nat]

Viewers == 1 .. N

VARIABLES
  viewer,   \* viewers.status, "ABSENT" before the first /start commits
  row,      \* the broadcast's row
  record,   \* the committed status in broadcast_deliveries, or "NONE"
  sends,    \* messages each viewer has received
  pc,       \* where each worker is
  copy,     \* the row as the worker's session knows it
  todo,     \* the viewers of its page still to be dealt with
  cursor,   \* the id of the last viewer it dealt with
  found,    \* the delivery record it found for the next viewer
  outcome,  \* what Telegram answered for the next viewer
  result,   \* what it has counted for the viewers of its page
  wrote,    \* viewers whose delivery record its open transaction writes
  faults,
  steady    \* history: viewers ACTIVE without a break since the snapshot

run == <<pc, copy, todo, cursor, found, outcome, result, wrote>>
vars == <<viewer, row, record, sends, faults, steady, run>>

Outcomes == {"SENT", "FAILED", "BLOCKED"}
RowStatuses == {"PENDING", "RUNNING", "COMPLETED", "PARTIAL"}

\* max = 0 is a snapshot not taken (or, of a COMPLETED row, an empty one).
Row == [status : RowStatuses, max : Nat, total : Nat, cursor : Nat,
        sent : Nat, failed : Nat, blocked : Nat]

NewRow == [status |-> "PENDING", max |-> 0, total |-> 0, cursor |-> 0,
           sent |-> 0, failed |-> 0, blocked |-> 0]

PCs == {"idle", "claimed", "loaded", "ready", "paging", "checked", "sent", "inserting"}

TypeOK ==
  /\ viewer \in [Viewers -> {"ABSENT", "ACTIVE", "BLOCKED"}]
  /\ row \in Row
  /\ record \in [Viewers -> Outcomes \cup {"NONE"}]
  /\ sends \in [Viewers -> Nat]
  /\ pc \in [Workers -> PCs]
  /\ copy \in [Workers -> Row]
  /\ todo \in [Workers -> SUBSET Viewers]
  /\ cursor \in [Workers -> Nat]
  /\ found \in [Workers -> Outcomes \cup {"NONE"}]
  /\ outcome \in [Workers -> Outcomes \cup {"NONE"}]
  /\ result \in [Workers -> [Viewers -> Outcomes \cup {"NONE"}]]
  /\ wrote \in [Workers -> SUBSET Viewers]
  /\ faults \in [Faults -> Nat]
  /\ steady \subseteq Viewers

NoResult == [v \in Viewers |-> "NONE"]

Init ==
  /\ viewer \in [Viewers -> {"ABSENT", "ACTIVE", "BLOCKED"}]
  /\ row = NewRow
  /\ record = NoResult
  /\ sends = [v \in Viewers |-> 0]
  /\ pc = [w \in Workers |-> "idle"]
  /\ copy = [w \in Workers |-> NewRow]
  /\ todo = [w \in Workers |-> {}]
  /\ cursor = [w \in Workers |-> 0]
  /\ found = [w \in Workers |-> "NONE"]
  /\ outcome = [w \in Workers |-> "NONE"]
  /\ result = [w \in Workers |-> NoResult]
  /\ wrote = [w \in Workers |-> {}]
  /\ faults = [k \in Faults |-> 0]
  /\ steady = {}

Spend(k) == faults[k] < Limit[k] /\ faults' = [faults EXCEPT ![k] = @ + 1]

Active == {v \in Viewers : viewer[v] = "ACTIVE"}
Sent   == {v \in Viewers : record[v] = "SENT"}

----------------------------------------------------------------------------
(* The viewers.                                                             *)
ViewerJoins(v) ==
  /\ viewer[v] = "ABSENT" /\ Spend("join")
  /\ viewer' = [viewer EXCEPT ![v] = "ACTIVE"]
  /\ UNCHANGED <<row, record, sends, steady, run>>

\* Another delivery (a collection, a campaign) found the bot blocked.
ViewerLeaves(v) ==
  /\ viewer[v] = "ACTIVE" /\ Spend("leave")
  /\ viewer' = [viewer EXCEPT ![v] = "BLOCKED"]
  /\ steady' = steady \ {v}
  /\ UNCHANGED <<row, record, sends, run>>

\* get_or_create_viewer: a BLOCKED viewer who sends /start is ACTIVE again.
ViewerReturns(v) ==
  /\ viewer[v] = "BLOCKED" /\ Spend("return")
  /\ viewer' = [viewer EXCEPT ![v] = "ACTIVE"]
  /\ UNCHANGED <<row, record, sends, steady, run>>

----------------------------------------------------------------------------
(* The beginning of a run.                                                  *)

\* The job is claimed, or taken over from a worker that is still at work.
Claim(w) ==
  /\ pc[w] = "idle"
  /\ row.status \in {"PENDING", "RUNNING"}
  /\ IF \A u \in Workers : pc[u] = "idle" THEN UNCHANGED faults ELSE Spend("takeover")
  /\ row' = [row EXCEPT !.status = "RUNNING"]
  /\ pc' = [pc EXCEPT ![w] = "claimed"]
  /\ UNCHANGED <<viewer, record, sends, steady, copy, todo, cursor, found,
                 outcome, result, wrote>>

LoadBroadcast(w) ==
  /\ pc[w] = "claimed"
  /\ IF row.status = "COMPLETED"
       THEN pc' = [pc EXCEPT ![w] = "idle"] /\ UNCHANGED copy
       ELSE /\ pc' = [pc EXCEPT ![w] = "loaded"]
            /\ copy' = [copy EXCEPT ![w] = row]
  /\ UNCHANGED <<viewer, row, record, sends, faults, steady, todo, cursor,
                 found, outcome, result, wrote>>

\* What a commit makes of the row: the columns that differ between the copy
\* as loaded and the copy as changed are written.
Flush(old, new) ==
  LET Column(r, o, n) == IF n = o THEN r ELSE n
  IN [status  |-> Column(row.status, old.status, new.status),
      max     |-> Column(row.max, old.max, new.max),
      total   |-> Column(row.total, old.total, new.total),
      cursor  |-> Column(row.cursor, old.cursor, new.cursor),
      sent    |-> Column(row.sent, old.sent, new.sent),
      failed  |-> Column(row.failed, old.failed, new.failed),
      blocked |-> Column(row.blocked, old.blocked, new.blocked)]

\* capture_audience_snapshot, unless it was taken: the greatest id of an ACTIVE
\* viewer, and how many ACTIVE viewers there are up to it (its two queries are
\* taken as one).
Snapshots(c) ==
  IF c.max # 0
    THEN {c}
    ELSE {[c EXCEPT !.max = m, !.total = Cardinality(Active)] :
            m \in {m \in Active : \A v \in Active : v <= m}}

StartRun(w) ==
  /\ pc[w] = "loaded"
  /\ \E c \in Snapshots(copy[w]) :
       LET new == [c EXCEPT !.status = "RUNNING"]
       IN /\ row' = Flush(copy[w], new)
          /\ copy' = [copy EXCEPT ![w] = new]
  /\ cursor' = [cursor EXCEPT ![w] = copy[w].cursor]
  /\ steady' = IF row.max = 0 THEN Active ELSE steady
  /\ pc' = [pc EXCEPT ![w] = "ready"]
  /\ UNCHANGED <<viewer, record, sends, faults, todo, found, outcome, result,
                 wrote>>

EmptyAudience(w) ==
  /\ pc[w] = "loaded"
  /\ copy[w].max = 0 /\ Active = {}
  /\ row' = [row EXCEPT !.status = "COMPLETED"]
  /\ pc' = [pc EXCEPT ![w] = "idle"]
  /\ UNCHANGED <<viewer, record, sends, faults, steady, copy, todo, cursor,
                 found, outcome, result, wrote>>

----------------------------------------------------------------------------
(* A page of viewers.                                                       *)

\* list_active_viewers_keyset, without its limit.
Ahead(w) == {v \in Active : cursor[w] < v /\ v <= copy[w].max}

\* Mutant: the page is not ordered by id.
FetchAnyPage(w) ==
  /\ pc[w] = "ready"
  /\ \E p \in SUBSET Ahead(w) \ {{}} :
       /\ Cardinality(p) <= PageSize
       /\ p # Ahead(w) => Cardinality(p) = PageSize
       /\ todo' = [todo EXCEPT ![w] = p]
  /\ pc' = [pc EXCEPT ![w] = "paging"]
  /\ UNCHANGED <<viewer, row, record, sends, faults, steady, copy, cursor,
                 found, outcome, result, wrote>>

\* The first PageSize viewers ahead of the cursor, in the order of their ids.
FetchPage(w) ==
  /\ pc[w] = "ready"
  /\ \E p \in SUBSET Ahead(w) \ {{}} :
       /\ Cardinality(p) <= PageSize
       /\ p # Ahead(w) => Cardinality(p) = PageSize
       /\ \A v \in p, u \in Ahead(w) \ p : v < u
       /\ todo' = [todo EXCEPT ![w] = p]
  /\ pc' = [pc EXCEPT ![w] = "paging"]
  /\ UNCHANGED <<viewer, row, record, sends, faults, steady, copy, cursor,
                 found, outcome, result, wrote>>

\* The viewer the worker deals with now.
IsNext(w, v) == v \in todo[w] /\ \A u \in todo[w] : v <= u

\* The viewer is dealt with: counted, and the cursor is moved on.
Pass(w, v, o) ==
  /\ result' = [result EXCEPT ![w][v] = o]
  /\ todo' = [todo EXCEPT ![w] = @ \ {v}]
  /\ cursor' = [cursor EXCEPT ![w] = v]
  /\ pc' = [pc EXCEPT ![w] = "paging"]

\* A viewer with a SENT record is counted as sent and not sent to.
CheckDelivery(w) ==
  /\ pc[w] = "paging"
  /\ \E v \in Viewers :
       /\ IsNext(w, v)
       /\ IF record[v] = "SENT"
            THEN Pass(w, v, "SENT") /\ UNCHANGED found
            ELSE /\ found' = [found EXCEPT ![w] = record[v]]
                 /\ pc' = [pc EXCEPT ![w] = "checked"]
                 /\ UNCHANGED <<todo, cursor, result>>
  /\ UNCHANGED <<viewer, row, record, sends, faults, steady, copy, outcome,
                 wrote>>

\* Mutant: a send whose answer does not come is tried again at once.
SendRetried(w) ==
  /\ pc[w] = "checked"
  /\ \E v \in Viewers, o \in Outcomes, again \in BOOLEAN :
       /\ IsNext(w, v)
       /\ outcome' = [outcome EXCEPT ![w] = o]
       /\ sends' = IF o = "SENT" THEN [sends EXCEPT ![v] = @ + 1] ELSE sends
       /\ pc' = [pc EXCEPT ![w] = IF again THEN "checked" ELSE "sent"]
  /\ UNCHANGED <<viewer, row, record, faults, steady, copy, todo, cursor, found,
                 result, wrote>>

\* The rate limiter lets the worker go on, and Telegram answers.
Send(w) ==
  /\ pc[w] = "checked"
  /\ \E v \in Viewers, o \in Outcomes :
       /\ IsNext(w, v)
       /\ outcome' = [outcome EXCEPT ![w] = o]
       /\ sends' = IF o = "SENT" THEN [sends EXCEPT ![v] = @ + 1] ELSE sends
  /\ pc' = [pc EXCEPT ![w] = "sent"]
  /\ UNCHANGED <<viewer, row, record, faults, steady, copy, todo, cursor, found,
                 result, wrote>>

\* Another worker's open transaction holds the viewer's delivery record.
WrittenByOther(w, v) == \E u \in Workers \ {w} : v \in wrote[u]

\* record_delivery: the record is inserted or updated, which waits for another
\* writer of it to be done; a status that is there already is not written.
RecordDelivery(w) ==
  /\ pc[w] = "sent"
  /\ \E v \in Viewers :
       LET existing == IF found[w] = "NONE" THEN record[v] ELSE found[w]
       IN /\ IsNext(w, v)
          /\ ~WrittenByOther(w, v)
          /\ \/ existing = outcome[w] /\ UNCHANGED wrote
             \/ existing # outcome[w] /\ wrote' = [wrote EXCEPT ![w] = @ \cup {v}]
          /\ Pass(w, v, outcome[w])
  /\ UNCHANGED <<viewer, row, record, sends, faults, steady, copy, found,
                 outcome>>

\* There is no record yet, but another transaction is about to commit one: the
\* insert waits on the unique key.
InsertWaits(w) ==
  /\ pc[w] = "sent"
  /\ \E v \in Viewers :
       /\ IsNext(w, v)
       /\ found[w] = "NONE" /\ record[v] = "NONE" /\ WrittenByOther(w, v)
  /\ pc' = [pc EXCEPT ![w] = "inserting"]
  /\ UNCHANGED <<viewer, row, record, sends, faults, steady, copy, todo, cursor,
                 found, outcome, result, wrote>>

\* The other transaction was rolled back: the insert goes through.
InsertGoesThrough(w) ==
  /\ pc[w] = "inserting"
  /\ \E v \in Viewers :
       /\ IsNext(w, v)
       /\ ~WrittenByOther(w, v) /\ record[v] = "NONE"
       /\ wrote' = [wrote EXCEPT ![w] = @ \cup {v}]
       /\ Pass(w, v, outcome[w])
  /\ UNCHANGED <<viewer, row, record, sends, faults, steady, copy, found,
                 outcome>>

\* The session is gone, and with it what was not committed.
Abandon(w) ==
  /\ pc' = [pc EXCEPT ![w] = "idle"]
  /\ todo' = [todo EXCEPT ![w] = {}]
  /\ result' = [result EXCEPT ![w] = NoResult]
  /\ wrote' = [wrote EXCEPT ![w] = {}]
  /\ UNCHANGED <<copy, cursor, found, outcome>>

\* The other transaction was committed: the unique key is violated, and every
\* further statement of the session fails, the failing of the job included.
InsertConflicts(w) ==
  /\ pc[w] = "inserting"
  /\ \E v \in Viewers : IsNext(w, v) /\ record[v] # "NONE"
  /\ Abandon(w)
  /\ UNCHANGED <<viewer, row, record, sends, faults, steady>>

Crash(w) ==
  /\ pc[w] # "idle"
  /\ Spend("crash")
  /\ Abandon(w)
  /\ UNCHANGED <<viewer, row, record, sends, steady>>

----------------------------------------------------------------------------
(* The commit of a page, and the end of the run.                            *)

Counted(w, o) == Cardinality({v \in Viewers : result[w][v] = o})

\* Mutant: a broadcast that reached nobody is FAILED.
FinalStatusOrFailed(c) ==
  IF c.failed = 0 THEN "COMPLETED" ELSE IF c.sent = 0 THEN "FAILED" ELSE "PARTIAL"

FinalStatus(c) == IF c.failed = 0 THEN "COMPLETED" ELSE "PARTIAL"

\* Mutant: the sent count is set, not added to.
Restart(c, sent, failed, blocked, last) ==
  [c EXCEPT !.sent = sent, !.failed = @ + failed, !.blocked = @ + blocked,
            !.cursor = last]

\* update_progress_and_cursor, up to its check of the counts.
Advance(c, sent, failed, blocked, last) ==
  [c EXCEPT !.sent = @ + sent, !.failed = @ + failed, !.blocked = @ + blocked,
            !.cursor = last]

\* Mutant: a broadcast is complete one viewer early.
CheckCountsEarly(c) ==
  IF c.sent + c.failed + c.blocked + 1 >= c.total /\ c.total > 0
    THEN [c EXCEPT !.status = FinalStatus(c)] ELSE c

\* The check: as many viewers as the snapshot counted have been processed.
CheckCounts(c) ==
  IF c.sent + c.failed + c.blocked >= c.total /\ c.total > 0
    THEN [c EXCEPT !.status = FinalStatus(c)] ELSE c

\* The viewers that mark_blocked wrote in the open transaction.
FoundBlocked(w) == {v \in Viewers : result[w][v] = "BLOCKED"}

CommitPage(w) ==
  /\ pc[w] = "paging" /\ todo[w] = {}
  /\ LET new == CheckCounts(Advance(copy[w], Counted(w, "SENT"), Counted(w, "FAILED"),
                                    Counted(w, "BLOCKED"), cursor[w]))
     IN row' = Flush(copy[w], new) /\ copy' = [copy EXCEPT ![w] = new]
  /\ record' = [v \in Viewers |-> IF v \in wrote[w] THEN result[w][v] ELSE record[v]]
  /\ viewer' = [v \in Viewers |-> IF v \in FoundBlocked(w) THEN "BLOCKED" ELSE viewer[v]]
  /\ steady' = steady \ FoundBlocked(w)
  /\ result' = [result EXCEPT ![w] = NoResult]
  /\ wrote' = [wrote EXCEPT ![w] = {}]
  /\ pc' = [pc EXCEPT ![w] = "ready"]
  /\ UNCHANGED <<sends, faults, todo, cursor, found, outcome>>

EndRun(w) ==
  /\ pc[w] = "ready"
  /\ Ahead(w) = {}
  /\ row' = IF copy[w].status = "RUNNING"
              THEN [row EXCEPT !.status = FinalStatus(copy[w])] ELSE row
  /\ pc' = [pc EXCEPT ![w] = "idle"]
  /\ UNCHANGED <<viewer, record, sends, faults, steady, copy, todo, cursor,
                 found, outcome, result, wrote>>

----------------------------------------------------------------------------
Step(w) ==
  \/ LoadBroadcast(w) \/ StartRun(w) \/ EmptyAudience(w) \/ FetchPage(w)
  \/ CheckDelivery(w) \/ Send(w) \/ RecordDelivery(w) \/ InsertWaits(w)
  \/ InsertGoesThrough(w) \/ InsertConflicts(w) \/ CommitPage(w) \/ EndRun(w)

Next ==
  \/ \E w \in Workers : Claim(w) \/ Step(w) \/ Crash(w)
  \/ \E v \in Viewers : ViewerJoins(v) \/ ViewerLeaves(v) \/ ViewerReturns(v)

Spec == Init /\ [][Next]_vars

(* A worker goes on with its run, and while the broadcast is RUNNING some   *)
(* worker comes to claim its job: the queue sees to that when a worker is   *)
(* lost.                                                                    *)
Fairness ==
  /\ \A w \in Workers : WF_vars(Step(w))
  /\ WF_vars(\E w \in Workers : (\A u \in Workers : pc[u] = "idle") /\ Claim(w))

FairSpec == Spec /\ Fairness

----------------------------------------------------------------------------
(* Properties.                                                              *)

\* The committed cursor never passes over a viewer: whoever has been ACTIVE
\* since the snapshot and has an id up to the cursor has a delivery record,
\* however many workers wrote the row from old copies of it.
CursorCoversSteady ==
  \A v \in steady : v <= row.cursor => record[v] # "NONE"

\* The counts on the row are those of the records, over any crashes, if no
\* worker works on the broadcast of another.
CountsMatchRecords ==
  faults["takeover"] = 0 =>
    /\ row.sent = Cardinality(Sent)
    /\ row.failed = Cardinality({v \in Viewers : record[v] = "FAILED"})
    /\ row.blocked = Cardinality({v \in Viewers : record[v] = "BLOCKED"})

\* A viewer is sent the broadcast again only for a run that was lost or taken
\* over: the records of a page are committed with the page, so a crash forgets
\* the messages of its page, but those alone.
ResentOnlyAfterFault ==
  \A v \in Viewers : sends[v] <= 1 + faults["crash"] + faults["takeover"]

Over == row.status \in {"COMPLETED", "PARTIAL"} /\ \A w \in Workers : pc[w] = "idle"

\* Has a viewer become ACTIVE below the last id of the snapshot?  (A viewer's id
\* may be drawn before the snapshot and committed after it.)
CameIn == faults["return"] + faults["join"] > 0

\* When a broadcast is over and nobody works on it, every viewer of the
\* snapshot who is still there has been dealt with, unless others came in or a
\* worker worked on the broadcast of another: it may take the snapshot again,
\* without the viewers that the first has found to be BLOCKED, but counts them.
OverMeansReached ==
  Over /\ ~CameIn /\ faults["takeover"] = 0 => \A v \in steady : record[v] # "NONE"

\* Every viewer of the snapshot is dealt with in the end, or leaves, unless
\* others came in.
EveryTargetReached ==
  \A v \in Viewers : v \in steady ~> record[v] # "NONE" \/ v \notin steady \/ CameIn
=============================================================================
