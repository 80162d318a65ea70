------------------------------- MODULE MCChats -------------------------------
(***************************************************************************)
(* Two messages, two updates served at once, one fault, one of the columns; *)
(* two rows on a page; a client with a bot and one who registers.           *)
(***************************************************************************)
EXTENDS Chats, TLC

CONSTANTS m1, m2, r1, r2, start_message, owner, other, registered

OneClient == <<[user |-> registered, status |-> "ACTIVE"]>>
OneBot1   == <<[client |-> 1, status |-> "ACTIVE"]>>
FourJobs  == <<"RUNNING", "RUNNING", "RUNNING", "RUNNING">>
OneBroadcast == <<"RUNNING">>

\* Messages and requests are alike.
Alike == Permutations({m1, m2}) \cup Permutations({r1, r2})
=============================================================================
