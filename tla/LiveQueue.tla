----------------------------- MODULE LiveQueue -----------------------------
(***************************************************************************)
(* What the queue of LIVE broadcasts promises: a broadcast waits, goes and  *)
(* is over; a worker has one at a time, nobody takes one that another has   *)
(* or while one of the same bot goes, and only who has it ends it.  A       *)
(* broadcast that was loosened, made free to take under a worker, may be    *)
(* taken by a second one, and revived by either when it was over.           *)
(* BroadcastQueue implements this.                                          *)
(***************************************************************************)
CONSTANTS Broadcasts, Workers, BotOf, None

VARIABLES
  stage,  \* "none", "waiting", "going" or "over"
  at,     \* the broadcast each worker has
  loose   \* broadcasts that were loosened

vars == <<stage, at, loose>>

Init ==
  /\ stage = [b \in Broadcasts |-> "none"]
  /\ at = [w \in Workers |-> None]
  /\ loose = {}

Announce(b) ==
  /\ stage[b] = "none"
  /\ stage' = [stage EXCEPT ![b] = "waiting"]
  /\ UNCHANGED <<at, loose>>

\* A broadcast that goes and that nobody has was lost by its worker.
Take(w, b) ==
  /\ at[w] = None
  /\ stage[b] \in {"waiting", "going"}
  /\ b \in loose \/ \A v \in Workers : at[v] # b
  /\ \A c \in Broadcasts \ {b} : BotOf[c] = BotOf[b] => stage[c] # "going"
  /\ stage' = [stage EXCEPT ![b] = "going"]
  /\ at' = [at EXCEPT ![w] = b]
  /\ UNCHANGED loose

End(w) ==
  /\ at[w] # None
  /\ stage[at[w]] = "going"
  /\ stage' = [stage EXCEPT ![at[w]] = "over"]
  /\ UNCHANGED <<at, loose>>

Revive(w) ==
  /\ at[w] \in loose
  /\ stage[at[w]] = "over"
  /\ stage' = [stage EXCEPT ![at[w]] = "going"]
  /\ UNCHANGED <<at, loose>>

\* With the broadcast over, or because the worker was lost.
LetGo(w) ==
  /\ at[w] # None
  /\ at' = [at EXCEPT ![w] = None]
  /\ UNCHANGED <<stage, loose>>

Loosen ==
  /\ \E s \in SUBSET {b \in Broadcasts : \E w \in Workers : at[w] = b} :
       loose' = loose \cup s
  /\ UNCHANGED <<stage, at>>

Next ==
  \/ \E b \in Broadcasts : Announce(b)
  \/ \E w \in Workers, b \in Broadcasts : Take(w, b)
  \/ \E w \in Workers : End(w) \/ Revive(w) \/ LetGo(w)
  \/ Loosen

Spec == Init /\ [][Next]_vars
=============================================================================
