---------------------------- MODULE Announcement ----------------------------
(***************************************************************************)
(* What mass messages promise, whatever sends them: a message has an       *)
(* audience, fixed when it is announced; people are dealt with (sent to,   *)
(* found to have blocked the bot, failed) and stay dealt with; and it is   *)
(* over only when everybody of its audience who is still there has been    *)
(* dealt with.  OwnerCampaign implements this.                             *)
(***************************************************************************)
CONSTANTS Messages, People

VARIABLES
  stage,     \* "none", "waiting", "going" or "over"
  audience,  \* the people a message is for and who have not left
  dealt      \* the people who have been dealt with

vars == <<stage, audience, dealt>>

Init ==
  /\ stage = [m \in Messages |-> "none"]
  /\ audience = [m \in Messages |-> {}]
  /\ dealt = [m \in Messages |-> {}]

Announce(m) ==
  /\ stage[m] = "none"
  /\ stage' = [stage EXCEPT ![m] = "waiting"]
  /\ \E s \in SUBSET People : audience' = [audience EXCEPT ![m] = s]
  /\ UNCHANGED dealt

\* A message that is over may be taken up again: nobody is lost by that.
Begin(m) ==
  /\ stage[m] \in {"waiting", "over"}
  /\ stage' = [stage EXCEPT ![m] = "going"]
  /\ UNCHANGED <<audience, dealt>>

Deal(m) ==
  /\ stage[m] \in {"going", "over"}
  /\ \E s \in SUBSET People : dealt' = [dealt EXCEPT ![m] = @ \cup s]
  /\ UNCHANGED <<stage, audience>>

Finish(m) ==
  /\ stage[m] = "going"
  /\ audience[m] \subseteq dealt[m]
  /\ stage' = [stage EXCEPT ![m] = "over"]
  /\ UNCHANGED <<audience, dealt>>

Leave(p) ==
  /\ audience' = [m \in Messages |-> audience[m] \ {p}]
  /\ UNCHANGED <<stage, dealt>>

Next ==
  \/ \E m \in Messages : Announce(m) \/ Begin(m) \/ Deal(m) \/ Finish(m)
  \/ \E p \in People : Leave(p)

Spec == Init /\ [][Next]_vars
=============================================================================
