------------------------------ MODULE MCUpload ------------------------------
(* Two videos and two commands, served by two handlers.                     *)
EXTENDS Upload, TLC

CONSTANTS c1, c2, h1, h2

Alike == Permutations(Commands) \cup Permutations(Handlers)

\* What an answered command was, and whether an answered update has its key, is not
\* read any more.
Unread(u) == wire[u] # "due" /\ ~Served(u)
Relevant == <<wire, [c \in Commands |-> IF Unread(c) THEN "start" ELSE kind[c]],
              {u \in dedup : wire[u] = "due"}, data, sponsor, at, mishaps, opened,
              refused, cutOff>>
=============================================================================
