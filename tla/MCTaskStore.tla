---------------------------- MODULE MCTaskStore ----------------------------
(* Small instances of the task store. *)
EXTENDS TaskStore, TLC

Symmetry == Permutations(TaskIds) \union Permutations(Workspaces)

Request(s, r, l, c) == [status |-> s, result |-> r, log |-> l, confirm |-> c]

\* Every status, a completion that was not confirmed and one that declares nothing,
\* every rewrite of the result alone, and both kinds of log entry.
AllRequests ==
  {Request(s, "none", "none", TRUE) : s \in Statuses}
    \union {Request("completed", "declared", "none", c) : c \in BOOLEAN}
    \union {Request("none", r, "none", FALSE) : r \in Results}
    \union {Request("none", "none", l, FALSE) : l \in {"fresh", "repeat"}}
=============================================================================
