--------------------------- MODULE MCTaskDispatch ---------------------------
(* A small instance of the handlers. *)
EXTENDS TaskDispatch

Update1(s, r, l, c) == [status |-> s, result |-> r, log |-> l, confirm |-> c]

\* Taking a task up, giving it up, finishing it, and a note on it.
FewRequests == {Update1("in_progress", "none", "none", FALSE), Update1("blocked", "none", "none", FALSE),
                Update1("completed", "declared", "none", TRUE), Update1("none", "none", "fresh", FALSE)}
=============================================================================
