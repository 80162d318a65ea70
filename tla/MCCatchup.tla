----------------------------- MODULE MCCatchup -----------------------------
(* Instances of Catchup for TLC: how many faults of each kind.              *)
EXTENDS Catchup, TLC

Faulty(crash, raise, stall, error, lost, block, starts, stop, retry) ==
  ("crash" :> crash) @@ ("raise" :> raise) @@ ("stall" :> stall) @@ ("error" :> error)
    @@ ("lost" :> lost) @@ ("block" :> block) @@ ("start" :> starts) @@ ("stop" :> stop)
    @@ ("retry" :> retry)

Each == Faulty(1, 1, 1, 1, 1, 1, 2, 1, 1)

\* A second /start or a retry, not both.
StartOrRetry == faults["start"] + faults["retry"] <= 2
=============================================================================
