------------------------------ MODULE JobRows ------------------------------
(***************************************************************************)
(* The rows of the background_jobs table and what the functions of         *)
(* app/repositories/job.py and app/jobs/recovery.py do to one row.         *)
(*                                                                         *)
(* Time is abstracted to the two comparisons the code makes with it: "due" *)
(* is available_at <= now, and "stale" is a heartbeat (or a start) older   *)
(* than the recovery threshold.  Error texts and timestamps are left out.  *)
(***************************************************************************)
EXTENDS Naturals

JobStatuses == {"ABSENT", "PENDING", "RUNNING", "COMPLETED", "FAILED", "RETRYING"}

Job == [status : JobStatuses, attempts : Nat, due : BOOLEAN, stale : BOOLEAN]

NoJob == [status |-> "ABSENT", attempts |-> 0, due |-> FALSE, stale |-> FALSE]

\* create_job: PENDING, available at once, never attempted.
create_job == [status |-> "PENDING", attempts |-> 0, due |-> TRUE, stale |-> FALSE]

\* Mutant: the claim takes over jobs that are RUNNING.
IsClaimableOrRunning(row) == row.status \in {"PENDING", "RETRYING", "RUNNING"} /\ row.due

\* Mutant: a job to be tried again is not claimed.
IsClaimableOnce(row) == row.status = "PENDING" /\ row.due

\* What every claiming query asks of a row.
IsClaimable(row) == row.status \in {"PENDING", "RETRYING"} /\ row.due

\* The row counts as work in progress for the queries that avoid second jobs.
IsActive(row) == row.status \in {"PENDING", "RUNNING", "RETRYING"}

\* The claims and mark_running: one more attempt, a fresh heartbeat.
mark_running(row) ==
  [row EXCEPT !.status = "RUNNING", !.attempts = @ + 1, !.stale = FALSE]

\* mark_completed and mark_failed write the status whatever it was.
mark_completed(row) == [row EXCEPT !.status = "COMPLETED"]
mark_failed(row) == [row EXCEPT !.status = "FAILED"]

update_heartbeat(row) == [row EXCEPT !.stale = FALSE]

\* get_stale_running_jobs.
IsStaleRunning(row) == row.status = "RUNNING" /\ row.stale

\* Mutant: a job that is out of attempts is marked STALE, which nothing handles.
recover_as_stale(row, attempts, maxAttempts) ==
  IF attempts >= maxAttempts
    THEN [row EXCEPT !.status = "STALE"]
    ELSE [row EXCEPT !.status = "RETRYING", !.due = FALSE]

\* recover_stale_running_jobs: a row selected when it had made "attempts"
\* attempts is failed for good once the policy's attempts are used up, and
\* becomes claimable again after a delay before that.
recover_stale(row, attempts, maxAttempts) ==
  IF attempts >= maxAttempts
    THEN [row EXCEPT !.status = "FAILED"]
    ELSE [row EXCEPT !.status = "RETRYING", !.due = FALSE]

\* retry_job, the owner's button: refused while the row says RUNNING; the
\* number of attempts is not reset.
CanRetry(row) == row.status \in {"FAILED", "RETRYING"}
retry_job(row) == [row EXCEPT !.status = "PENDING", !.due = TRUE]
=============================================================================
