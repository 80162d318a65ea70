------------------------- MODULE MCBroadcastQueue -------------------------
(* Instances of BroadcastQueue for TLC: which faults a run has, and how     *)
(* many of each.                                                            *)
EXTENDS BroadcastQueue, TLC

CONSTANTS a, b1, b2, w1, w2

OneBot == (b1 :> a) @@ (b2 :> a)

Faulty(crash, stall, raise, retry) ==
  ("crash" :> crash) @@ ("stall" :> stall) @@ ("raise" :> raise) @@ ("retry" :> retry)

AllFaults     == Faulty(1, 1, 1, 1)
OneRaise      == Faulty(0, 0, 1, 0)

\* At most three of the four faults in one behaviour.
ThreeFaults == faults["crash"] + faults["stall"] + faults["raise"] + faults["retry"] <= 3
=============================================================================
