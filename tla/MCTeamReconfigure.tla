------------------------- MODULE MCTeamReconfigure -------------------------
(* A small instance of the team controller. *)
EXTENDS TeamReconfigure, TLC

Symmetry == Permutations(Clients)

\* Every single change, and one change after another to the same name.
FewRequests ==
  {<<ch>> : ch \in Changes}
    \union {<<[op |-> "remove", name |-> n], [op |-> "add", name |-> n]>> : n \in Names}
=============================================================================
