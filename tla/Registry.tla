------------------------------ MODULE Registry ------------------------------
(***************************************************************************)
(* Who is reachable under which workspace name: the daemon's registry      *)
(* (registry.rs) and the connection loop that uses it (server.rs).  The    *)
(* registry maps a name to the generation of its registration and to the   *)
(* channel on which pushes for that name are sent; the connection loop     *)
(* keeps its own idea of its name and generation, drains one channel and   *)
(* cleans up when its socket closes.  These are the steps; DaemonLink says *)
(* which clients take them and when.  No client sends the explicit         *)
(* unregister request, so its handler is left out.                         *)
(*                                                                         *)
(* A channel is identified with the generation it was created with; status *)
(* texts, metrics and activity times are left out.                         *)
(***************************************************************************)
EXTENDS Integers, FiniteSets

CONSTANTS
  Connections,  \* sockets; a closed one stands for the next that is accepted
  Workspaces,   \* names
  Unnamed,      \* a connection that is not registered
  Nobody,       \* a name nobody claims
  MaxId         \* bound: registrations

ASSUME RegistryAssumption ==
  MaxId \in Nat /\ Unnamed \notin Workspaces /\ Nobody \notin Connections

VARIABLES
  entries,  \* per name: the generation registered, 0 for none
  next_id,
  conn,     \* per connection: [open, workspace, id, channel]
  granted,  \* per connection: the generations it was given since it was accepted
  claim     \* per name: who registered it last, until it leaves

vars == <<entries, next_id, conn, granted, claim>>

Closed   == [open |-> FALSE, workspace |-> Unnamed, id |-> 0, channel |-> 0]
Accepted == [open |-> TRUE, workspace |-> Unnamed, id |-> 0, channel |-> 0]

-----------------------------------------------------------------------------

Accept(c) ==
  /\ ~conn[c].open
  /\ conn' = [conn EXCEPT ![c] = Accepted]
  /\ UNCHANGED <<entries, next_id, granted, claim>>

\* Mutant of Register: the counter is not stored, so the generation is reused.
RegisterUncounted(c, w) ==
  /\ conn[c].open
  /\ entries' = [entries EXCEPT ![w] = next_id + 1]
  /\ conn' = [conn EXCEPT ![c] = [open |-> TRUE, workspace |-> w, id |-> next_id + 1,
                                  channel |-> next_id + 1]]
  /\ granted' = [granted EXCEPT ![c] = @ \union {next_id + 1}]
  /\ claim' = [claim EXCEPT ![w] = c]
  /\ UNCHANGED next_id

\* Mutant of Register: the number of entries serves as the generation.
RegisterByCount(c, w) ==
  LET id == Cardinality({v \in Workspaces : entries[v] # 0}) + 1
  IN  /\ conn[c].open
      /\ next_id < MaxId
      /\ next_id' = next_id + 1
      /\ entries' = [entries EXCEPT ![w] = id]
      /\ conn' = [conn EXCEPT ![c] = [open |-> TRUE, workspace |-> w, id |-> id, channel |-> id]]
      /\ granted' = [granted EXCEPT ![c] = @ \union {id}]
      /\ claim' = [claim EXCEPT ![w] = c]

\* register_with_idle evicts whoever had the name; the connection forgets the name
\* it had before and drains the new channel only.
Register(c, w) ==
  /\ conn[c].open
  /\ next_id < MaxId
  /\ next_id' = next_id + 1
  /\ entries' = [entries EXCEPT ![w] = next_id']
  /\ conn' = [conn EXCEPT ![c] = [open |-> TRUE, workspace |-> w, id |-> next_id', channel |-> next_id']]
  /\ granted' = [granted EXCEPT ![c] = @ \union {next_id'}]
  /\ claim' = [claim EXCEPT ![w] = c]

\* Mutant of UnregisterIf: the generation is not compared.
UnregisterName(w, id) == IF w = Unnamed THEN entries ELSE [entries EXCEPT ![w] = 0]

\* The registry after unregister_if.
UnregisterIf(w, id) ==
  [v \in Workspaces |-> IF v = w /\ entries[v] = id THEN 0 ELSE entries[v]]

\* The socket closes; the forwarder is aborted and its channel closes.
Disconnect(c) ==
  /\ conn[c].open
  /\ entries' = UnregisterIf(conn[c].workspace, conn[c].id)
  /\ conn' = [conn EXCEPT ![c] = Closed]
  /\ granted' = [granted EXCEPT ![c] = {}]
  /\ claim' = [w \in Workspaces |-> IF claim[w] = c THEN Nobody ELSE claim[w]]
  /\ UNCHANGED next_id

-----------------------------------------------------------------------------
(* Properties *)

\* Every connection, entry and generation is well formed.
TypeOK ==
  /\ next_id \in 0..MaxId
  /\ entries \in [Workspaces -> 0..next_id]
  /\ conn \in [Connections -> [open : BOOLEAN, workspace : Workspaces \union {Unnamed},
                               id : 0..next_id, channel : 0..next_id]]
  /\ granted \in [Connections -> SUBSET (1..next_id)]
  /\ claim \in [Workspaces -> Connections \union {Nobody}]

\* The connection that registered a name last, and has not taken another name or
\* left, is the one that pushes for the name reach: in particular the late disconnect
\* of a connection it replaced takes nothing away.
LastOneIsReachable ==
  \A w \in Workspaces, c \in Connections :
    claim[w] = c /\ conn[c].workspace = w
      => conn[c].open /\ entries[w] = conn[c].id /\ conn[c].channel = entries[w]

\* A push for a name reaches a connection to which that very registration was
\* granted, never one that registered another name or an older generation of it.
PushesDoNotStray ==
  \A w \in Workspaces, c \in Connections :
    entries[w] # 0 /\ conn[c].channel = entries[w]
      => entries[w] \in granted[c] /\ conn[c].workspace = w

\* The registry keeps its names: the last to register one is reachable under it, and
\* what is pushed to the name goes nowhere else.
NamesAreHeld == LastOneIsReachable /\ PushesDoNotStray
=============================================================================
