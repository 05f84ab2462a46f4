------------------------------- MODULE MCTui -------------------------------
EXTENDS TuiLoop
CONSTANTS a, b

\* No two names end alike: see the README on the rows without a config.
OrderValue == <<a, b>>
LastPartValue == [w \in {a, b} |-> w]
TreesValue == {NoTree, <<Header, a>>, <<Header, b, a>>}

Given(id, status, w, n) == [id |-> id, status |-> status, version |-> 1, updated |-> n, assignee |-> w]
NoTasks == [t \in TaskIds |-> NoTask]
Tasks1 == [NoTasks EXCEPT ![1] = Given(1, "running", a, 1)]
Tasks2 == [Tasks1 EXCEPT ![2] = Given(2, "pending", b, 2)]

\* n changes and k requests less than the bounds.
WorldOf(d, h, u, n, k, s) ==
  [tree |-> <<Header, b, a>>, sessions |-> {a}, disk |-> d, history |-> h, usage |-> u,
   changes |-> n, asks |-> k, scene |-> s]
WorldsValue ==
  {WorldOf(NoTasks, 0, 0, 0, 1, {"tree", "sessions", "menu", "agents", "stream"}),
   WorldOf(Tasks2, 0, 0, 2, 0, {"task_menu", "tasks"}),
   WorldOf(Tasks1, 2, 0, 1, 0, {"sessions", "forms", "tasks", "help"}),
   WorldOf(Tasks2, 2, 2, 1, 2, {"board", "log", "usage", "focus", "filter", "tasks", "messages", "tokens"}),
   WorldOf(Tasks2, 0, 0, 1, 1, {"board", "task_menu", "tasks"})}
=============================================================================
