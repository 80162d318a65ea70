-------------------------- MODULE MCBroadcastRun --------------------------
(* Instances of BroadcastRun for TLC: how many faults of each kind.         *)
EXTENDS BroadcastRun, TLC

CONSTANTS w1, w2

Faulty(crash, takeover, leave, return, join) ==
  ("crash" :> crash) @@ ("takeover" :> takeover) @@ ("leave" :> leave)
    @@ ("return" :> return) @@ ("join" :> join)

Takeover    == Faulty(2, 1, 0, 0, 0)
CrashVisits == Faulty(1, 0, 1, 1, 1)

\* Workers are alike.
AnyWorker == Permutations(Workers)
=============================================================================
