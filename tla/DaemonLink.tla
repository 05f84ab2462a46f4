----------------------------- MODULE DaemonLink -----------------------------
(***************************************************************************)
(* The daemon seen from its clients: requests, answers and pushes on the   *)
(* Unix socket, on top of the registry.  Clients are of two kinds:         *)
(*                                                                         *)
(*   an MCP server (ax-mcp-server: daemon_client.rs, server.rs) runs tool  *)
(*   calls side by side; one reader task hands every answer to the call    *)
(*   that waits for its id and drops the others;                           *)
(*   a blocking client (ax-cli/daemon_client.rs, ax-tui/daemon.rs, the     *)
(*   launcher's status reporter in ax-agent/status.rs) makes one request   *)
(*   at a time and reads the socket only while it waits.                   *)
(*                                                                         *)
(* All of them register a workspace name when they connect, often the same *)
(* one: the status reporter and the MCP server of an agent share a name,   *)
(* and `ax send' registers as the orchestrator.                            *)
(*                                                                         *)
(* A tool call is a program of requests, and a request is named by its     *)
(* call and its place in that program.  Of the daemon's state only the     *)
(* registry and the inboxes with their file are kept: the order of an      *)
(* inbox and the limit of a read are MessageQueue's, so over the cap any   *)
(* of the messages that were there may be the oldest; status texts and     *)
(* metrics are shown and never acted on, and the activity record that      *)
(* follows a tool call touches none of this and is left out.               *)
(***************************************************************************)
EXTENDS Registry, Sequences

CONSTANTS
  Name,       \* per client: the workspace it registers
  Mcp,        \* the clients that are MCP servers; the others block
  Uses,       \* per client: <<tool, workspace>>, the tools it calls and about whom
  Present,    \* the clients that have registered before, under different names
  Waiting,    \* messages in the inboxes from before
  NoReply,    \* nothing to write
  Push,       \* a push_message envelope
  Capacity,   \* OUTBOX_CAPACITY, of a push channel and of a writer
  QueueCap,   \* the messages an inbox holds
  MaxCalls,   \* bound: calls, the registration of a new client included
  MaxRunning, \* bound: calls at the same time
  MaxAsking,  \* bound: polling tools at the same time
  MaxPolls,   \* bound: times a polling tool reads again before its deadline
  MaxFaults   \* bound: timeouts, failed dispatches, crashes

Tools   == {"send_message", "read_messages", "status_reporter", "request_message", "inspect_agent"}
Message == [by : Nat, from : Workspaces, to : Workspaces, re : Nat]
Answer  == [call : Nat, seq : Nat, ok : BOOLEAN, got : SUBSET Message, found : BOOLEAN]

ASSUME DaemonLinkAssumption ==
  /\ Name \in [Connections -> Workspaces] /\ Mcp \subseteq Connections
  /\ Present \subseteq Connections /\ \A c, d \in Present : Name[c] = Name[d] => c = d
  /\ IsFiniteSet(Present) /\ Cardinality(Present) <= MaxId
  /\ Uses \in [Connections -> SUBSET (Tools \X Workspaces)]
  /\ Waiting \subseteq [by : {0}, from : Workspaces, to : Workspaces, re : {0}]
  /\ NoReply # Push /\ NoReply \notin Answer /\ Push \notin Answer
  /\ Capacity \in Nat \ {0} /\ QueueCap \in Nat \ {0}
  /\ MaxCalls \in Nat /\ MaxRunning \in Nat /\ MaxAsking \in Nat /\ MaxPolls \in Nat /\ MaxFaults \in Nat

VARIABLES
  process,   \* per client: "off", "dialing", "up", or "cut" when its socket is dead
  calls,     \* the calls so far, in the order they began
  toServer,  \* per connection: requests not read yet
  reply,     \* per connection: what its loop hands to the writer, or NoReply
  outgoing,  \* per connection: answers and pushes on their way to the client
  outbox,    \* per connection: pushes in the channel it drains
  inbox,     \* per workspace: the unread messages
  saved,     \* per workspace: the messages in the queue's file
  missing,   \* history: unread messages that the cap dropped, or a restart before they were saved
  again,     \* history: messages that a restart brought back
  dropped,   \* history: messages that were taken for a call and did not get there
  faults

file == <<saved, missing, again>>
link == <<process, calls, toServer, reply, outgoing, outbox, inbox, file, dropped, faults>>
lvars == <<vars, link>>

Polling == {"request_message", "inspect_agent"}
Readers == Polling \union {"read_messages"}
Ended   == {"ok", "error", "gone"}

Running(c) == {n \in DOMAIN calls : calls[n].conn = c /\ calls[n].at \notin Ended}
MayStart == /\ Len(calls) < MaxCalls
            /\ Cardinality({n \in DOMAIN calls : calls[n].at \notin Ended}) < MaxRunning
MayAsk == Cardinality({n \in DOMAIN calls : calls[n].tool \in Polling /\ calls[n].at \notin Ended}) < MaxAsking
Fault == faults < MaxFaults /\ faults' = faults + 1

\* The messages of an answer that nobody will read.
Cargo(e) == IF e \in {NoReply, Push} THEN {} ELSE {[msg |-> m, call |-> e.call] : m \in e.got}
CargoOf(q) == UNION {Cargo(q[i]) : i \in DOMAIN q}

-----------------------------------------------------------------------------
(* Calls *)

First(tool) ==
  CASE tool = "connect" -> "register"
    [] tool = "send_message" -> "send"
    [] tool = "read_messages" -> "read"
    [] tool = "status_reporter" -> "metrics"
    [] tool = "request_message" -> "send"
    [] tool = "inspect_agent" -> "list"

\* What a tool does with an answer: the next request, "sleep" before it polls again,
\* or the end.  inspect_agent asks only an agent that is listed; request_message looks
\* up the target's last activity before it reports that it waited in vain.  Both ask
\* for the effective config first, and go on without it when the daemon does not tell.
AfterRead(ok, got, failed) == IF ~ok THEN failed ELSE IF got = {} THEN "sleep" ELSE "ok"

InspectAgent(kind, ok, got, found) ==
  CASE kind = "list" -> IF ok /\ found THEN "send" ELSE "error"
    [] kind = "send" -> IF ok THEN "read" ELSE "error"
    [] kind = "read" -> AfterRead(ok, got, "error")

RequestMessage(kind, ok, got) ==
  CASE kind = "send" -> IF ok THEN "read" ELSE "error"
    [] kind = "read" -> AfterRead(ok, got, "list")
    [] kind = "list" -> "error"

Follow(tool, kind, ok, got, found) ==
  CASE tool = "inspect_agent" -> InspectAgent(kind, ok, got, found)
    [] tool = "request_message" -> RequestMessage(kind, ok, got)
    [] OTHER -> IF ok THEN "ok" ELSE "error"

Request(n, call) ==
  [call |-> n, seq |-> call.seq, kind |-> call.kind, to |-> call.to, re |-> call.re]

\* A call at its end; where it was does not matter any more.
Finished(call, how) == [call EXCEPT !.at = how, !.kind = "none", !.seq = 0, !.polls = 0]

\* Call n goes on to `next'.  A request on a dead socket fails, and so does all that
\* would follow it.
Proceed(n, next, got) ==
  LET c == calls[n].conn
      asks == next \notin Ended \union {"sleep"} /\ process[c] # "cut"
      call == [calls[n] EXCEPT !.got = @ \union got]
  IN  /\ calls' = [calls EXCEPT ![n] =
           IF asks THEN [call EXCEPT !.at = "wait", !.kind = next, !.seq = @ + 1,
                                     !.polls = IF call.at = "sleep" THEN @ + 1 ELSE @]
           ELSE IF next = "sleep" THEN [call EXCEPT !.at = "sleep"]
           ELSE Finished(call, IF next \in Ended THEN next ELSE "error")]
      /\ toServer' = IF asks THEN [toServer EXCEPT ![c] = Append(@, Request(n, calls'[n]))]
                     ELSE toServer

\* connect: without an answer to its registration a client gives up.
Settled(n, ok) ==
  IF calls[n].tool # "connect" THEN process
  ELSE [process EXCEPT ![calls[n].conn] = IF ok THEN "up" ELSE "off"]

Resume(n, ok, got, found) ==
  /\ Proceed(n, Follow(calls[n].tool, calls[n].kind, ok, got, found), got)
  /\ process' = Settled(n, ok)

\* The target has sent the caller nothing that still waits: what comes next from the
\* target is the answer, or something nobody asked for (Unasked).
Undisturbed(w, to) == \A m \in inbox[w] : m.from # to

NewCall(c, tool, to, re) ==
  [conn |-> c, tool |-> tool, to |-> to, re |-> re, at |-> "wait", kind |-> First(tool), seq |-> 1,
   polls |-> 0, got |-> {}, clean |-> tool \in Polling /\ Undisturbed(Name[c], to)]

Dial(c) ==
  LET n == Len(calls) + 1
      call == NewCall(c, "connect", Name[c], 0)
  IN  /\ process[c] = "off" /\ MayStart
      /\ Accept(c)
      /\ process' = [process EXCEPT ![c] = "dialing"]
      /\ calls' = Append(calls, call)
      /\ toServer' = [toServer EXCEPT ![c] = <<Request(n, call)>>]
      /\ outgoing' = [outgoing EXCEPT ![c] = <<>>]
      /\ UNCHANGED <<reply, outbox, inbox, file, dropped, faults>>

\* The messages from `to' that reached somebody of workspace w: what it can reply to.
Received(w, to) ==
  {0} \union {m.by : m \in {x \in UNION {calls[n].got : n \in DOMAIN calls} : x.to = w /\ x.from = to}}

\* An MCP server takes the calls as they come, a blocking client one by one.
Free(c) == c \in Mcp \/ Running(c) = {}

StartCall(c, tool, to, re) ==
  LET n == Len(calls) + 1
      call == NewCall(c, tool, to, re)
  IN  /\ process[c] \in {"up", "cut"} /\ MayStart /\ (tool \in Polling => MayAsk)
      /\ Free(c)
      /\ IF process[c] = "cut"
         THEN /\ calls' = Append(calls, Finished(call, "error"))
              /\ UNCHANGED toServer
         ELSE /\ calls' = Append(calls, call)
              /\ toServer' = [toServer EXCEPT ![c] = Append(@, Request(n, call))]
      /\ UNCHANGED <<vars, process, reply, outgoing, outbox, inbox, file, dropped, faults>>

\* poll_for_reply: three seconds later, before or after the deadline.
Poll(n) ==
  /\ calls[n].at = "sleep" /\ calls[n].polls < MaxPolls
  /\ Proceed(n, "read", {})
  /\ UNCHANGED <<vars, process, reply, outgoing, outbox, inbox, file, dropped, faults>>

Deadline(n) ==
  /\ calls[n].at = "sleep"
  /\ Proceed(n, IF calls[n].tool = "request_message" THEN "list" ELSE "error", {})
  /\ UNCHANGED <<vars, process, reply, outgoing, outbox, inbox, file, dropped, faults>>

\* The call takes itself out of `pending'; its request stays with the daemon.
Timeout(n) ==
  /\ calls[n].at = "wait" /\ Fault
  /\ Resume(n, FALSE, {}, FALSE)
  /\ UNCHANGED <<vars, reply, outgoing, outbox, inbox, file, dropped>>

-----------------------------------------------------------------------------
(* The connection loop *)

\* Where a push for workspace w goes out.
Holders(w) == {d \in Connections : entries[w] # 0 /\ conn[d].channel = entries[w]}

Room(c) == Len(outgoing[c]) < Capacity

\* The answer to request r, and a push on each of the connections ds.  The answer waits
\* when the writer's channel is full; a push waits in the channel of the registration,
\* and when that is full too (try_send) it is lost.
Respond(c, r, ok, got, found, ds) ==
  LET e == [call |-> r.call, seq |-> r.seq, ok |-> ok, got |-> got, found |-> found]
  IN  /\ toServer' = [toServer EXCEPT ![c] = Tail(@)]
      /\ reply' = [reply EXCEPT ![c] = IF Room(c) THEN NoReply ELSE e]
      /\ outgoing' = [d \in Connections |->
            IF d = c /\ Room(c) THEN Append(outgoing[c], e)
            ELSE IF d \in ds /\ Room(d) THEN Append(outgoing[d], Push)
            ELSE outgoing[d]]
      /\ outbox' = [d \in Connections |->
            IF d \in ds /\ ~Room(d) /\ outbox[d] < Capacity THEN outbox[d] + 1 ELSE outbox[d]]

\* A message to a caller that waits for another one.
Unasked(from, re, to) ==
  [n \in DOMAIN calls |->
     IF calls[n].to = from /\ Name[calls[n].conn] = to /\ re # n
     THEN [calls[n] EXCEPT !.clean = FALSE] ELSE calls[n]]

HandleRegister(c, r) ==
  /\ r.kind = "register"
  /\ Register(c, Name[c])
  /\ Respond(c, r, TRUE, {}, FALSE, {})
  /\ UNCHANGED <<inbox, missing, calls, faults>>

\* queue.enqueue: over the cap an older message goes.
Enqueue(w, m) ==
  \E old \in SUBSET inbox[w] :
    /\ Cardinality(old) = IF Cardinality(inbox[w]) < QueueCap THEN 0 ELSE 1
    /\ inbox' = [inbox EXCEPT ![w] = (@ \ old) \union {m}]
    /\ missing' = missing \union old

\* plan_send_message: not to oneself.  The message is queued and pushed, then the
\* target is dispatched, which may fail.
HandleSend(c, r) ==
  LET w == conn[c].workspace
  IN  /\ r.kind = "send"
      /\ IF r.to = w
         THEN Respond(c, r, FALSE, {}, FALSE, {}) /\ UNCHANGED <<inbox, missing, calls, faults>>
         ELSE /\ Enqueue(r.to, [by |-> r.call, from |-> w, to |-> r.to, re |-> r.re])
              /\ calls' = Unasked(w, r.re, r.to)
              /\ \/ Respond(c, r, TRUE, {}, FALSE, Holders(r.to)) /\ UNCHANGED faults
                 \/ Respond(c, r, FALSE, {}, FALSE, Holders(r.to)) /\ Fault
      /\ UNCHANGED vars

\* Mutant of Wanted: the sender is not looked at.
WantedFromAnyone(w, r) == inbox[w]

\* A polling tool asks for the messages of its target only.
Wanted(w, r) ==
  {m \in inbox[w] : calls[r.call].tool \in Polling => m.from = r.to}

HandleRead(c, r) ==
  LET w == conn[c].workspace
  IN  /\ r.kind = "read"
      /\ Respond(c, r, TRUE, Wanted(w, r), FALSE, {})
      /\ inbox' = [inbox EXCEPT ![w] = @ \ Wanted(w, r)]
      /\ UNCHANGED <<vars, missing, calls, faults>>

HandleList(c, r) ==
  /\ r.kind = "list"
  /\ Respond(c, r, TRUE, {}, entries[r.to] # 0, {})
  /\ UNCHANGED <<vars, inbox, missing, calls, faults>>

\* The metrics are refused when the name is not registered any more.
HandleMetrics(c, r) ==
  /\ r.kind = "metrics"
  /\ Respond(c, r, entries[conn[c].workspace] # 0, {}, FALSE, {})
  /\ UNCHANGED <<vars, inbox, missing, calls, faults>>

\* handle_envelope: one request at a time, and only once the last answer is out.  The
\* registration is a client's first request, so require_registered never fails.
Handle(c) ==
  /\ conn[c].open /\ reply[c] = NoReply /\ toServer[c] # <<>>
  /\ LET r == Head(toServer[c])
     IN  \/ HandleRegister(c, r) \/ HandleSend(c, r)
         \/ HandleRead(c, r) \/ HandleList(c, r) \/ HandleMetrics(c, r)
  /\ UNCHANGED <<process, saved, again, dropped>>

PutReply(c) ==
  /\ conn[c].open /\ reply[c] # NoReply /\ Len(outgoing[c]) < Capacity
  /\ outgoing' = [outgoing EXCEPT ![c] = Append(@, reply[c])]
  /\ reply' = [reply EXCEPT ![c] = NoReply]
  /\ UNCHANGED <<vars, process, calls, toServer, outbox, inbox, file, dropped, faults>>

ForwardPush(c) ==
  /\ conn[c].open /\ outbox[c] > 0 /\ Len(outgoing[c]) < Capacity
  /\ outgoing' = [outgoing EXCEPT ![c] = Append(@, Push)]
  /\ outbox' = [outbox EXCEPT ![c] = @ - 1]
  /\ UNCHANGED <<vars, process, calls, toServer, reply, inbox, file, dropped, faults>>

\* The client is gone: the loop ends when it has read everything, or when an answer
\* cannot be written.
Hangup(c) ==
  /\ conn[c].open /\ process[c] = "off"
  /\ toServer[c] = <<>> \/ reply[c] # NoReply
  /\ Disconnect(c)
  /\ toServer' = [toServer EXCEPT ![c] = <<>>]
  /\ reply' = [reply EXCEPT ![c] = NoReply]
  /\ outgoing' = [outgoing EXCEPT ![c] = <<>>]
  /\ outbox' = [outbox EXCEPT ![c] = 0]
  /\ dropped' = dropped \union Cargo(reply[c]) \union CargoOf(outgoing[c])
  /\ UNCHANGED <<process, calls, inbox, file, faults>>

\* The flusher writes the inboxes to their file, some time after they changed.  (After
\* the last fault of the bound nobody reads the file any more.)
FlushQueue ==
  /\ saved # inbox /\ faults < MaxFaults
  /\ saved' = inbox
  /\ UNCHANGED <<vars, process, calls, toServer, reply, outgoing, outbox, inbox, missing, again, dropped, faults>>

\* The daemon goes down and comes back: the registry is empty, the inboxes are those of
\* the last flush, the sockets are dead; what the kernel already had can still be read,
\* by a client that is there.
DaemonRestarts ==
  /\ Fault
  /\ inbox' = saved /\ UNCHANGED saved
  /\ missing' = missing \union UNION {inbox[w] \ saved[w] : w \in Workspaces}
  /\ again' = again \union UNION {saved[w] \ inbox[w] : w \in Workspaces}
  /\ entries' = [w \in Workspaces |-> 0] /\ next_id' = 0
  /\ conn' = [c \in Connections |-> Closed]
  /\ granted' = [c \in Connections |-> {}] /\ claim' = [w \in Workspaces |-> Nobody]
  /\ toServer' = [c \in Connections |-> <<>>] /\ reply' = [c \in Connections |-> NoReply]
  /\ outbox' = [c \in Connections |-> 0]
  /\ outgoing' = [c \in Connections |-> IF process[c] = "off" THEN <<>> ELSE outgoing[c]]
  /\ dropped' = UNION ({dropped} \union {Cargo(reply[c]) : c \in Connections}
                         \union {CargoOf(outgoing[c]) : c \in {d \in Connections : process[d] = "off"}})
  /\ UNCHANGED <<process, calls>>

-----------------------------------------------------------------------------
(* The reading side of a client *)

\* Mutant of Awaited: any call that waits will do.
AwaitedByAny(c, e) == {n \in Running(c) : calls[n].at = "wait"}

\* The call that waits for this very answer.
Awaited(c, e) == {n \in Running(c) : n = e.call /\ calls[n].at = "wait" /\ calls[n].seq = e.seq}

\* The reader task of an MCP server never stops; a blocking client reads during a
\* request.  Both skip what is not the answer they wait for.
Listening(c) == c \in Mcp \/ \E n \in Running(c) : calls[n].at = "wait"

Receive(c) ==
  /\ process[c] \in {"dialing", "up"} /\ outgoing[c] # <<>>
  /\ Listening(c)
  /\ outgoing' = [outgoing EXCEPT ![c] = Tail(@)]
  /\ LET e == Head(outgoing[c])
     IN  IF e # Push /\ Awaited(c, e) # {}
         THEN LET n == CHOOSE x \in Awaited(c, e) : TRUE
              IN  Resume(n, e.ok, e.got, e.found) /\ UNCHANGED dropped
         ELSE /\ dropped' = dropped \union Cargo(e)
              /\ UNCHANGED <<process, calls, toServer>>
  /\ UNCHANGED <<vars, reply, outbox, inbox, file, faults>>

\* Mutant of ReaderEnds: `pending' is not drained.
ReaderEndsQuietly(c) ==
  /\ process[c] \in {"dialing", "up"} /\ ~conn[c].open /\ outgoing[c] = <<>>
  /\ process' = [process EXCEPT ![c] = "cut"]
  /\ UNCHANGED <<vars, calls, toServer, reply, outgoing, outbox, inbox, file, dropped, faults>>

\* End of file: every call that waits fails, and there is no second connection.
ReaderEnds(c) ==
  /\ process[c] \in {"dialing", "up"} /\ ~conn[c].open /\ outgoing[c] = <<>>
  /\ c \in Mcp \/ Running(c) # {}
  /\ process' = [process EXCEPT ![c] = IF @ = "dialing" THEN "off" ELSE "cut"]
  /\ calls' = [n \in DOMAIN calls |->
                 IF n \in Running(c) /\ calls[n].at = "wait" THEN Finished(calls[n], "error")
                 ELSE calls[n]]
  /\ UNCHANGED <<vars, toServer, reply, outgoing, outbox, inbox, file, dropped, faults>>

\* A blocking client exits when it is done; any process may be killed in the middle
\* of whatever it does.
Exit(c) ==
  /\ process[c] # "off"
  /\ IF c \notin Mcp /\ Running(c) = {} THEN UNCHANGED faults ELSE Fault
  /\ process' = [process EXCEPT ![c] = "off"]
  /\ calls' = [n \in DOMAIN calls |->
                 IF n \in Running(c) THEN Finished(calls[n], "gone") ELSE calls[n]]
  /\ IF conn[c].open THEN UNCHANGED <<outgoing, dropped>>
     ELSE /\ outgoing' = [outgoing EXCEPT ![c] = <<>>]
          /\ dropped' = dropped \union CargoOf(outgoing[c])
  /\ UNCHANGED <<vars, toServer, reply, outbox, inbox, file>>

-----------------------------------------------------------------------------

\* The daemon has been up for a while: some clients have registered, one after another.
LInit ==
  /\ LET id == CHOOSE g \in [Present -> 1..Cardinality(Present)] :
                 \A c, d \in Present : g[c] = g[d] => c = d
     IN  /\ entries = [w \in Workspaces |->
                          IF \E c \in Present : Name[c] = w
                          THEN id[CHOOSE c \in Present : Name[c] = w] ELSE 0]
         /\ conn = [c \in Connections |->
                       IF c \in Present
                       THEN [open |-> TRUE, workspace |-> Name[c], id |-> id[c], channel |-> id[c]]
                       ELSE Closed]
         /\ granted = [c \in Connections |-> IF c \in Present THEN {id[c]} ELSE {}]
  /\ next_id = Cardinality(Present)
  /\ claim = [w \in Workspaces |-> IF \E c \in Present : Name[c] = w
                                   THEN CHOOSE c \in Present : Name[c] = w ELSE Nobody]
  /\ process = [c \in Connections |-> IF c \in Present THEN "up" ELSE "off"]
  /\ calls = <<>>
  /\ toServer = [c \in Connections |-> <<>>] /\ reply = [c \in Connections |-> NoReply]
  /\ outgoing = [c \in Connections |-> <<>>] /\ outbox = [c \in Connections |-> 0]
  /\ inbox = [w \in Workspaces |-> {m \in Waiting : m.to = w}]
  /\ saved = inbox /\ missing = {} /\ again = {} /\ dropped = {} /\ faults = 0

Serve(c) == Handle(c) \/ PutReply(c) \/ ForwardPush(c) \/ Hangup(c)
Listen(c) == Receive(c) \/ ReaderEnds(c)

LNext ==
  \/ \E c \in Connections :
       \/ Dial(c) \/ Exit(c) \/ Serve(c) \/ Listen(c)
       \/ \E use \in Uses[c] : \E re \in Received(Name[c], use[2]) : StartCall(c, use[1], use[2], re)
  \/ \E n \in DOMAIN calls : Poll(n) \/ Deadline(n) \/ Timeout(n)
  \/ FlushQueue \/ DaemonRestarts

\* The daemon's tasks, the readers of the clients and their clocks do not all stand
\* still.  Nothing is assumed of the request timeouts: while the daemon lives or its
\* sockets are closed, they are not needed.
Progress ==
  \/ \E c \in Connections : Serve(c) \/ Listen(c)
  \/ \E n \in DOMAIN calls : Deadline(n)

Fairness == WF_lvars(Progress)

LSpec == LInit /\ [][LNext]_lvars /\ Fairness

-----------------------------------------------------------------------------
(* Properties *)

\* Calls, channels and inboxes are well formed, and a blocking client has one call at
\* most.
LTypeOK ==
  /\ TypeOK
  /\ \A c \in Connections :
       /\ process[c] \in {"off", "dialing", "up", "cut"}
       /\ Len(outgoing[c]) <= Capacity /\ outbox[c] \in 0..Capacity
       /\ c \notin Mcp => Cardinality(Running(c)) <= 1
  /\ \A n \in DOMAIN calls : calls[n].at \in {"wait", "sleep"} \union Ended
  /\ \A w \in Workspaces : \A m \in inbox[w] \union saved[w] : m.to = w
  /\ faults \in 0..MaxFaults

Sent(m) == \/ m \in inbox[m.to]
           \/ \E n \in DOMAIN calls : m \in calls[n].got
           \/ \E d \in dropped : d.msg = m

InTransit(m) ==
  \E c \in Connections : \E x \in Cargo(reply[c]) \union CargoOf(outgoing[c]) : x.msg = m

\* A call that returned "ok" has what it asked for, whatever timed out, crashed or
\* overlapped on the way: a message whose send succeeded is in an inbox, with a
\* reader, on its way to one, or was lost with a call that did not succeed; no
\* message is handed to two calls.  A late answer is dropped and its messages with it.
\* The exceptions are the queue's: the cap drops a message, a restart goes back to the
\* last flush, and so loses what was sent after it and hands out again what was read.
NothingLostQuietly ==
  /\ \A n \in DOMAIN calls :
       calls[n].tool = "send_message" /\ calls[n].at = "ok" =>
         \E m \in [by : {n}, from : {Name[calls[n].conn]}, to : {calls[n].to}, re : {calls[n].re}] :
            Sent(m) \/ InTransit(m) \/ m \in missing
  /\ \A d \in dropped : /\ d.msg \notin calls[d.call].got \/ d.msg \in again
                        /\ calls[d.call].at = "ok" => calls[d.call].tool \in Polling
  /\ \A n, k \in DOMAIN calls : n # k => calls[n].got \intersect calls[k].got \subseteq again

\* request_message and inspect_agent return the reply to their own question if
\* nothing else from the target comes between, whoever else reads the inbox.
RepliesAreToTheQuestion ==
  \A n \in DOMAIN calls :
    calls[n].tool \in Polling /\ calls[n].at = "ok" /\ calls[n].clean =>
      /\ calls[n].got # {}
      /\ \A m \in calls[n].got : m.re = n /\ m.from = calls[n].to

\* An agent that is connected and has registered is active, and so listed (and
\* pushed to, and in reach of a broadcast).
ActiveIsListed ==
  \A c \in Connections :
    process[c] = "up" /\ conn[c].open => entries[conn[c].workspace] # 0

\* Every call comes to an end without the help of a timeout: with channels full of
\* pushes nobody reads, a peer that never replies, and a daemon that goes away.
EveryCallEnds == <>[](\A n \in DOMAIN calls : calls[n].at \in Ended)

\* Messages and answers go where they belong, over time-outs, overlapping calls, late
\* answers and restarts: none is lost without an error except by the queue itself, its
\* cap and what was not flushed, and a reply answers its question.
AnswersAreKept == LTypeOK /\ NothingLostQuietly /\ RepliesAreToTheQuestion
=============================================================================
