-------------------------- MODULE MCVideoPipeline --------------------------
(* Instances of VideoPipeline for TLC: kinds of videos and faults.          *)
EXTENDS VideoPipeline, TLC

CONSTANTS p, l, w1, w2, c1

Kind == [v \in Videos |-> IF v = l THEN "link" ELSE "video"]

Faulty(crash, error, handover) ==
  ("crash" :> crash) @@ ("error" :> error) @@ ("handover" :> handover)

TwoCrashes == Faulty(2, 1, 1)
NoFault    == Faulty(0, 0, 0)
=============================================================================
