---------------------------- MODULE MCDaemonLink ----------------------------
(* An agent with its MCP server, a second agent, and a command-line client that  *)
(* registers under the first one's name; a third agent has written and is gone.  *)
EXTENDS DaemonLink, TLC

CONSTANTS lead, dev, ops, m1, m2, s1

Names == (m1 :> lead) @@ (m2 :> dev) @@ (s1 :> lead)
Use == (m1 :> {<<"request_message", dev>>})
         @@ (m2 :> {<<"read_messages", dev>>, <<"send_message", lead>>})
         @@ (s1 :> {<<"send_message", lead>>, <<"status_reporter", lead>>})

Earlier == {[by |-> 0, from |-> ops, to |-> lead, re |-> 0]}

\* The orchestrator, an agent that looks after it, and `ax send'.
SendUse == (m1 :> {}) @@ (m2 :> {<<"inspect_agent", lead>>}) @@ (s1 :> {<<"send_message", dev>>})
=============================================================================
