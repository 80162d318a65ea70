-------------------------- MODULE MCOwnerCampaign --------------------------
(* Instances of OwnerCampaign for TLC: how many faults of each kind.        *)
EXTENDS OwnerCampaign, TLC

CONSTANTS c1, c2, w1, w2

Faulty(crash, stall, retry, lost, suspend, reactivate, join, block) ==
  ("crash" :> crash) @@ ("stall" :> stall) @@ ("retry" :> retry) @@ ("lost" :> lost)
    @@ ("suspend" :> suspend) @@ ("reactivate" :> reactivate) @@ ("join" :> join) @@ ("block" :> block)

\* Each kind once: MaxFaults says how many of them together.
Each == Faulty(1, 1, 1, 1, 1, 1, 1, 1)

\* Two clients or two campaigns: the second campaign comes after the first, and
\* only where client 1 stays and there is no client 2.
TwoOfOne ==
  row[c2].status # "ABSENT" =>
    row[c1].status # "ABSENT" /\ client[1] = "ACTIVE" /\ client[2] = "ABSENT"
=============================================================================
