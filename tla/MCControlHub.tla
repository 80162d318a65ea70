---------------------------- MODULE MCControlHub ----------------------------
(* One Telegram bot and its token, two API processes.                       *)
EXTENDS ControlHub, TLC

CONSTANTS c1, c2, b1, p1, p2, r1, r2, d1, d2

\* Handlers, processes and temporary ids are alike.
Alike == Permutations(Requests) \cup Permutations(Processes) \cup Permutations(Tickets)
           \cup Permutations(Clients)

\* A process that remembers PREPARING_TO_CONNECT_BOT treats every message as
\* one that remembers nothing does: get_onboarding_state tells them apart in
\* Redis alone.
Told == [p \in Processes |-> [c \in Clients |->
           IF IsWaiting(memory[p][c]) THEN memory[p][c] ELSE Quiet]]
Relevant == <<client, bot, hook, redis, Told, ticket, req, faults, asked, endedBy, unheard,
              torn>>
=============================================================================
