---------------------------- MODULE MCTaskTools ----------------------------
(* A small instance of the task tools: two tasks, one agent and the operator. *)
EXTENDS TaskTools, TLC

Symmetry == Permutations(TaskIds)

Plain(s, r, l, c) == [status |-> s, result |-> r, log |-> l, confirm |-> c]

\* Taking a task up, finishing it, putting it back, and a note.
FewRequests == {Plain("in_progress", "none", "none", FALSE), Plain("completed", "declared", "none", TRUE),
                Plain("pending", "none", "none", FALSE), Plain("none", "bare", "none", FALSE)}
=============================================================================
