---------------------------- MODULE TaskDispatch ----------------------------
(***************************************************************************)
(* The daemon's message and task handlers (handlers.rs), each composed     *)
(* from calls on the task store (module TaskStore), the message queue, the *)
(* wake scheduler and tmux.  Every call takes its own store's lock and     *)
(* releases it, so a handler is a program of calls, `prog', and the other  *)
(* connections, the wake loop and the reconciler act between any two.      *)
(*                                                                         *)
(* A message is known by the task id it carries (in its field, or in a     *)
(* "Task ID:" line of its text), NoTask for none; an inbox counts them.    *)
(* The order of messages is MessageQueue's subject, the retries of a wake  *)
(* WakeDelivery's.  The history file, the pushes to connected clients and  *)
(* the activity times, which no guard here reads, are left out.            *)
(***************************************************************************)
EXTENDS TaskStore, Sequences, FiniteSetsExt

CONSTANTS
  Waker,        \* the wake scheduler's loop
  Reconciler,   \* the stranded-task reconciler
  NudgeCap,     \* SILENT_TASK_NUDGE_CAP
  Assignees,    \* the workspaces that are given tasks
  Senders,      \* who sends plain messages
  MaxRequests,  \* bound: requests of the connections
  QueueCap,     \* the messages an inbox holds
  MaxFaults     \* bound: sessions that end, dispatches and writes that fail

ASSUME DispatchAssumption ==
  /\ {Waker, Reconciler} \cap Callers = {} /\ Waker # Reconciler
  /\ IsFiniteSet(Workspaces) /\ Assignees \subseteq Workspaces /\ Senders \subseteq Callers
  /\ NudgeCap \in Nat /\ QueueCap \in Nat \ {0} /\ MaxRequests \in Nat /\ MaxFaults \in Nat

VARIABLES
  order,     \* per task: [body, config], what start_task stored for its dispatch
  inbox,     \* per workspace: unread messages by the task id they carry
  wake,      \* the workspaces with a pending wake
  session,   \* the workspaces with a tmux session
  prog,      \* per thread: the calls it has still to make
  spawned,   \* the targets of spawn_background_task_wake threads
  requests, faults,
  \* History, of a task's messages in its assignee's inbox.
  read,      \* the tasks with one that was read, or reported on, since the last was queued
  lost,      \* the tasks whose message a late follow-up purged or the cap dropped, or a
             \* retry that could not be saved never queued
  late,      \* the tasks with one that was queued after the end
  overlap,   \* the tasks that two threads are or were filling at once
  asked,     \* per task: how many were queued on request
  told,      \* per task: the statuses its creator was told
  cut        \* the tasks that ended in memory while the write failed: no follow-up ran

calls == <<order, inbox, wake, session, prog, spawned>>
note  == <<read, lost, late, overlap, asked, told, cut>>
dvars == <<tasks, calls, requests, faults, note>>

Threads == Callers \union {Waker, Reconciler}
Carried == TaskIds \union {NoTask}

\* The statuses plan_task_state_followup cleans up after.
Closed == Terminal \union {"blocked"}

Call(op, w, t)     == [op |-> op, ws |-> w, task |-> t, info |-> "none"]
Tell(op, w, t, i)  == [op |-> op, ws |-> w, task |-> t, info |-> i]
Empty(w)           == \A m \in Carried : inbox[w][m] = 0
Inbox(t)           == inbox[tasks[t].assignee][t]

At(p, op) == prog[p] # <<>> /\ Head(prog[p]).op = op
Now(p)    == Head(prog[p])

\* The threads that found no message for t and are about to queue one.
Filling(t) ==
  {p \in Threads : At(p, "put") /\ Now(p) = Tell("put", tasks[t].assignee, t, "checked")}

\* The scheduler's mutex is held while its refill hook runs.
SchedulerLocked == \E op \in {"find", "put", "record"} : At(Waker, op)

\* The orders in which a set can be listed.
Orders(set) ==
  {f \in [1..Cardinality(set) -> set] : \A i, j \in DOMAIN f : f[i] = f[j] => i = j}

-----------------------------------------------------------------------------
(* Programs *)

EnqueueTaskMessage(w, t, info) == <<Tell("put", w, t, info), Call("record", w, t)>>

Ensure(t) == IF order[t].config THEN <<Call("ensure", tasks[t].assignee, t)>> ELSE <<>>

\* The successful plans of plan_send_message.
PlanSendMessage(to, m, config) ==
  <<Tell("put", to, m, "asked"), Call("schedule", to, NoTask)>>
    \o IF config THEN <<Call("ensure", to, NoTask)>> ELSE <<>>

\* The Queue plan of plan_task_start_dispatch: the task is new, and its body is never empty.
PlanTaskStart(t, a, config) ==
  EnqueueTaskMessage(a, t, "asked") \o <<Call("schedule", a, t)>>
    \o IF config THEN <<Call("ensure", a, t)>> ELSE <<>>

\* plan_task_wake is not SessionMissing.
PlanTaskWake(t) == order[t].config \/ tasks[t].assignee \in session

\* A session that went away between the two probes is left out.
DispatchTaskWake(t) ==
  LET a == tasks[t].assignee
  IN  IF a \in session THEN <<>>
      ELSE <<Call("find", a, t), Call("schedule", a, t), Call("spawn", a, t)>>

\* Mutant of FollowUp: the creator's inbox is purged instead of the assignee's.
FollowUpWrongInbox(t, task) ==
  IF task.status \notin Closed THEN <<>>
  ELSE <<Tell("purge", task.created_by, t, task.status), Call("settle", task.assignee, t)>>
         \o (IF task.created_by = task.assignee THEN <<>>
             ELSE <<Tell("notice", task.created_by, t, task.status), Call("schedule", task.created_by, t)>>)

\* Mutant of FollowUp: a cancelled task's creator is not told.
FollowUpUntold(t, task) ==
  IF task.status \notin Closed THEN <<>>
  ELSE <<Tell("purge", task.assignee, t, task.status), Call("settle", task.assignee, t)>>
         \o (IF task.created_by = task.assignee \/ task.status = "cancelled" THEN <<>>
             ELSE <<Tell("notice", task.created_by, t, task.status), Call("schedule", task.created_by, t)>>)

\* apply_task_state_followup on the task an update or a cancel answered with.
FollowUp(t, task) ==
  IF task.status \notin Closed THEN <<>>
  ELSE <<Tell("purge", task.assignee, t, task.status), Call("settle", task.assignee, t)>>
         \o (IF task.created_by = task.assignee THEN <<>>
             ELSE <<Tell("notice", task.created_by, t, task.status), Call("schedule", task.created_by, t)>>)

-----------------------------------------------------------------------------
(* Requests.  A connection serves one at a time. *)

\* The first call is made at once; `program' is what remains.
Request(c, program) ==
  /\ prog[c] = <<>>
  /\ requests < MaxRequests
  /\ requests' = requests + 1
  /\ prog' = [prog EXCEPT ![c] = program]

\* A request whose first call changes the store: the handler goes on with `program', or
\* persist_locked fails, and it answers the error with the change left in memory.
SavedThen(c, program) == Request(c, program) /\ UNCHANGED faults
WriteFails(c)         == Request(c, <<>>) /\ faults < MaxFaults /\ faults' = faults + 1

\* plan_send_message rejects a message to oneself.  m is the task the text mentions.
SendMessage(c, to, m, config) ==
  /\ to # c
  /\ m # NoTask => Exists(tasks, m)
  /\ Request(c, PlanSendMessage(to, m, config))
  /\ UNCHANGED <<tasks, order, inbox, wake, session, spawned, faults, note>>

\* `recipients': the other registered workspaces.  The dispatches follow all the
\* messages, and the first that fails ends them.
Broadcast(c, recipients, config) ==
  /\ c \notin recipients
  /\ \E to \in Orders(recipients) :
       Request(c, [i \in 1..2 * Len(to) |-> IF i % 2 = 1 THEN Tell("put", to[(i + 1) \div 2], NoTask, "asked")
                                            ELSE Call("schedule", to[i \div 2], NoTask)]
                    \o IF config THEN [i \in DOMAIN to |-> Call("ensure", to[i], NoTask)] ELSE <<>>)
  /\ UNCHANGED <<tasks, order, inbox, wake, session, spawned, faults, note>>

ReadMessages(c) ==
  /\ Request(c, (IF Empty(c) THEN <<Call("peek", c, NoTask)>> ELSE <<>>)
                  \o <<Call("dequeue", c, NoTask), Call("settle", c, NoTask)>>)
  /\ UNCHANGED <<tasks, order, inbox, wake, session, spawned, faults, note>>

\* start_task always has a body, normalize_task_dispatch_body sees to that.
StartTask(c, t, a, config) ==
  /\ Create(t, c, a, NoTask)
  /\ order' = [order EXCEPT ![t] = [body |-> TRUE, config |-> config]]
  /\ SavedThen(c, PlanTaskStart(t, a, config)) \/ WriteFails(c)
  /\ UNCHANGED <<inbox, wake, session, spawned, note>>

\* should_dispatch_operator_created_task
HandleCreateTask(c, t, a) ==
  /\ Create(t, c, a, NoTask)
  /\ SavedThen(c, IF c = Operator THEN PlanTaskStart(t, a, FALSE) ELSE <<>>) \/ WriteFails(c)
  /\ UNCHANGED <<order, inbox, wake, session, spawned, note>>

\* The follow-up of t runs, or the failed write cut it off.
FollowedUp(c, t) ==
  \/ SavedThen(c, FollowUp(t, tasks'[t])) /\ cut' = IF tasks'[t].status \in Closed THEN cut \ {t} ELSE cut
  \/ /\ tasks' # tasks /\ WriteFails(c)
     /\ cut' = IF tasks'[t].status \in Closed \ {tasks[t].status} THEN cut \union {t} ELSE cut

HandleUpdateTask(c, t, u) ==
  /\ Update(t, c, u, FALSE)
  /\ FollowedUp(c, t)
  /\ read' = IF c = tasks[t].assignee THEN read \union {t} ELSE read
  /\ UNCHANGED <<order, inbox, wake, session, spawned, lost, late, overlap, asked, told>>

\* A completion refused for its missing evidence or confirmation: the reminder,
\* and no wake.
RefuseCompletion(c, t) ==
  /\ Live(tasks, t)
  /\ tasks[t].assignee = c /\ IsAllowedTransition(tasks[t].status, "completed")
  /\ tasks[t].status # "completed"
  /\ Request(c, <<Tell("put", c, t, "asked")>>)
  /\ UNCHANGED <<tasks, order, inbox, wake, session, spawned, faults, note>>

CancelTask(c, t, expected) ==
  /\ Cancel(t, c, expected)
  /\ FollowedUp(c, t)
  /\ UNCHANGED <<order, inbox, wake, session, spawned, read, lost, late, overlap, asked, told>>

RemoveTask(c, t, expected) ==
  /\ Remove(t, c, expected, TRUE)
  /\ \/ SavedThen(c, <<Call("purge", tasks[t].assignee, t), Call("settle", tasks[t].assignee, t)>>)
     \/ WriteFails(c)
  /\ UNCHANGED <<order, inbox, wake, session, spawned, note>>

\* get_for_intervention; `expected' is checked again by the retry itself.
InterveneTask(c, t, action, expected) ==
  /\ Exists(tasks, t)
  /\ ValidateTaskControl(tasks[t], c, expected, TRUE)
  /\ tasks[t].status \in Open
  /\ action = "wake" => PlanTaskWake(t)
  /\ Request(c, IF action = "wake" THEN DispatchTaskWake(t)
                ELSE <<[op |-> "retry", ws |-> c, task |-> t, info |-> expected]>>)
  /\ UNCHANGED <<tasks, order, inbox, wake, session, spawned, faults, note>>

\* record_mcp_tool_activity with a task id.  Here, in record_dispatch and in the recovery
\* pass a failed write is ignored.
RecordToolActivity(c, t) ==
  /\ MarkToolActivity(t, c)
  /\ Request(c, <<>>)
  /\ UNCHANGED <<order, inbox, wake, session, spawned, faults, note>>

-----------------------------------------------------------------------------
(* Calls *)

\* The thread goes on with `first' and then with the rest of its program.
Continue(p, first) == prog' = [prog EXCEPT ![p] = first \o Tail(@)]

\* The messages of the tasks `gone' have left their assignees' inboxes: the count starts
\* again.
CountAgain(gone) ==
  /\ asked' = [t \in TaskIds |-> IF t \in gone THEN 0 ELSE asked[t]]
  /\ overlap' = {t \in TaskIds : IF t \in gone THEN \E p, q \in Filling(t) : p # q ELSE t \in overlap}

\* Somebody who found no message for t is about to queue one.
StartFilling(t) ==
  /\ overlap' = IF Filling(t) = {} THEN overlap ELSE overlap \union {t}
  /\ UNCHANGED <<read, lost, late, asked, told, cut>>

\* queue.enqueue: over the cap the oldest message goes.  The order of an inbox is not kept
\* here, so it is any of those that were there.
Push(w, m) ==
  LET pushed == [inbox[w] EXCEPT ![m] = @ + 1]
  IN  IF MapThenSumSet(LAMBDA x : inbox[w][x], Carried) < QueueCap
      THEN inbox' = [inbox EXCEPT ![w] = pushed]
      ELSE \E oldest \in {x \in Carried : inbox[w][x] > 0} :
             inbox' = [inbox EXCEPT ![w] = [pushed EXCEPT ![oldest] = @ - 1]]

\* The tasks whose last message the cap dropped.
Dropped(w) == {t \in TaskIds : tasks[t].assignee = w /\ inbox[w][t] > 0 /\ inbox'[w][t] = 0}

Enqueue(p) ==
  LET w == Now(p).ws
      t == Now(p).task
  IN  /\ At(p, "put")
      /\ Push(w, t)
      /\ IF t = NoTask \/ tasks[t].assignee # w
         THEN lost' = lost \union Dropped(w) /\ UNCHANGED <<read, late, asked>>
         ELSE /\ read' = read \ {t} /\ lost' = (lost \ {t}) \union Dropped(w)
              /\ late' = IF tasks[t].status \in Closed THEN late \union {t} ELSE late
              /\ asked' = IF Now(p).info = "asked" THEN [asked EXCEPT ![t] = @ + 1] ELSE asked
      /\ UNCHANGED <<overlap, told, cut>>
      /\ Continue(p, <<>>)
      /\ UNCHANGED <<tasks, order, wake, session, spawned, requests, faults>>

\* notify_creator_of_terminal_status
Notify(p) ==
  LET t == Now(p).task
  IN  /\ At(p, "notice")
      /\ Push(Now(p).ws, t)
      /\ told' = [told EXCEPT ![t] = @ \union {Now(p).info}]
      /\ lost' = lost \union Dropped(Now(p).ws)
      /\ Continue(p, <<>>)
      /\ UNCHANGED <<tasks, order, wake, session, spawned, requests, faults, read, late, overlap, asked, cut>>

Record(p) ==
  /\ At(p, "record")
  /\ RecordDispatch(Now(p).task, Now(p).ws) \/ (tasks[Now(p).task].removed /\ UNCHANGED tasks)
  /\ Continue(p, <<>>)
  /\ UNCHANGED <<order, inbox, wake, session, spawned, requests, faults, note>>

Schedule(p) ==
  /\ At(p, "schedule") /\ ~SchedulerLocked
  /\ wake' = wake \union {Now(p).ws}
  /\ Continue(p, <<>>)
  /\ UNCHANGED <<tasks, order, inbox, session, spawned, requests, faults, note>>

\* Mutant of PurgeMessages: one message is taken for granted.
PurgeOneMessage(w, t) == [inbox EXCEPT ![w][t] = @ - 1]

PurgeMessages(w, t) == [inbox EXCEPT ![w][t] = 0]

\* remove_task_messages.  By now the task may be open again.
Purge(p) ==
  LET w == Now(p).ws
      t == Now(p).task
  IN  /\ At(p, "purge")
      /\ inbox' = PurgeMessages(w, t)
      /\ IF w # tasks[t].assignee THEN UNCHANGED note
         ELSE /\ CountAgain({t}) /\ late' = late \ {t}
              /\ lost' = IF Now(p).info \in Closed /\ tasks[t].status \notin Closed
                          THEN lost \union {t} ELSE lost
              /\ UNCHANGED <<read, told, cut>>
      /\ Continue(p, <<>>)
      /\ UNCHANGED <<tasks, order, wake, session, spawned, requests, faults>>

\* pending_count, and the wake goes when nothing is left.
Settle(p) ==
  /\ At(p, "settle")
  /\ Continue(p, IF Empty(Now(p).ws) THEN <<Call("cancel", Now(p).ws, NoTask)>> ELSE <<>>)
  /\ UNCHANGED <<tasks, order, inbox, wake, session, spawned, requests, faults, note>>

CancelWake(p) ==
  /\ At(p, "cancel") /\ ~SchedulerLocked
  /\ wake' = wake \ {Now(p).ws}
  /\ Continue(p, <<>>)
  /\ UNCHANGED <<tasks, order, inbox, session, spawned, requests, faults, note>>

\* dispatch_runnable_work: an error ends the handler.
EnsureRunnable(p) ==
  LET w == Now(p).ws
  IN  /\ At(p, "ensure")
      /\ \/ /\ session' = session \union {w}
            /\ Continue(p, <<>>)
            /\ UNCHANGED faults
         \/ /\ faults < MaxFaults /\ faults' = faults + 1
            /\ prog' = [prog EXCEPT ![p] = <<>>]
            /\ UNCHANGED session
      /\ UNCHANGED <<tasks, order, inbox, wake, spawned, requests, note>>

Spawn(p) ==
  /\ At(p, "spawn")
  /\ spawned' = spawned \union {Now(p).ws}
  /\ Continue(p, <<>>)
  /\ UNCHANGED <<tasks, order, inbox, wake, session, requests, faults, note>>

\* The background thread; a failure is only logged.
BackgroundWake(w) ==
  /\ w \in spawned
  /\ spawned' = spawned \ {w}
  /\ \/ session' = session \union {w} /\ UNCHANGED faults
     \/ faults < MaxFaults /\ faults' = faults + 1 /\ UNCHANGED session
  /\ UNCHANGED <<tasks, order, inbox, wake, prog, requests, note>>

\* The limit and the sender filter leave any part of the inbox behind.
Dequeue(p, rest) ==
  LET w    == Now(p).ws
      mine == {t \in TaskIds : tasks[t].assignee = w /\ rest[t] < inbox[w][t]}
      gone == {t \in mine : rest[t] = 0}
  IN  /\ At(p, "dequeue")
      /\ \A m \in Carried : rest[m] <= inbox[w][m]
      /\ inbox' = [inbox EXCEPT ![w] = rest]
      /\ read' = read \union mine /\ late' = late \ gone
      /\ CountAgain(gone) /\ UNCHANGED <<lost, told, cut>>
      /\ Continue(p, <<>>)
      /\ UNCHANGED <<tasks, order, wake, session, spawned, requests, faults>>

\* An empty inbox under a pending wake is refilled before the read.
Peek(p) ==
  /\ At(p, "peek") /\ ~SchedulerLocked
  /\ Continue(p, IF Now(p).ws \in wake THEN <<Call("refill", Now(p).ws, NoTask)>> ELSE <<>>)
  /\ UNCHANGED <<tasks, order, inbox, wake, session, spawned, requests, faults, note>>

\* refill_runnable_task_messages lists the runnable tasks once.
Refill(p) ==
  LET w == Now(p).ws
  IN  /\ At(p, "refill")
      /\ \E due \in Orders({t \in TaskIds : Runnable(t) /\ tasks[t].assignee = w}) :
           Continue(p, [i \in DOMAIN due |-> Call("find", w, due[i])])
      /\ UNCHANGED <<tasks, order, inbox, wake, session, spawned, requests, faults, note>>

\* Mutant of HasTaskMessage: nobody looks.
HasTaskMessageNever(w, t) == FALSE

HasTaskMessage(w, t) == inbox[w][t] > 0

Find(p) ==
  LET w == Now(p).ws
      t == Now(p).task
  IN  /\ At(p, "find")
      /\ IF HasTaskMessage(w, t) THEN Continue(p, <<>>) /\ UNCHANGED note
         ELSE /\ Continue(p, EnqueueTaskMessage(w, t, "checked"))
              /\ StartFilling(t)
      /\ UNCHANGED <<tasks, order, inbox, wake, session, spawned, requests, faults>>

\* Mutant of RetryProgram: what is queued for the task goes after the new reminder.
RetryProgramPurgesLast(t, a) ==
  EnqueueTaskMessage(a, t, "asked") \o <<Call("purge", a, t), Call("schedule", a, t)>> \o Ensure(t)

RetryProgram(t, a) ==
  <<Call("purge", a, t)>> \o EnqueueTaskMessage(a, t, "asked")
    \o <<Call("schedule", a, t)>> \o Ensure(t)

\* task_store.retry: a version that moved on, or a task that closed, is an error.  So is a
\* failed write, with the task pending in memory and no message queued.
RetryTask(p) ==
  LET t == Now(p).task
  IN  /\ At(p, "retry")
      /\ \/ /\ Retry(t, Now(p).ws, Now(p).info)
            /\ Continue(p, RetryProgram(t, tasks[t].assignee))
            /\ read' = read \ {t} /\ UNCHANGED <<faults, lost, late, overlap, asked, told, cut>>
         \/ /\ Retry(t, Now(p).ws, Now(p).info)
            /\ faults < MaxFaults /\ faults' = faults + 1
            /\ prog' = [prog EXCEPT ![p] = <<>>]
            /\ lost' = lost \union {t} /\ UNCHANGED <<read, late, overlap, asked, told, cut>>
         \/ /\ ~(ValidateTaskControl(tasks[t], Now(p).ws, Now(p).info, TRUE) /\ tasks[t].status \in Open)
            /\ prog' = [prog EXCEPT ![p] = <<>>]
            /\ UNCHANGED <<tasks, faults, note>>
      /\ UNCHANGED <<order, inbox, wake, session, spawned, requests>>

-----------------------------------------------------------------------------
(* The loops *)

\* A due wake: an empty inbox is refilled, or the wake dropped.
WakeTick(w) ==
  /\ prog[Waker] = <<>> /\ w \in wake /\ Empty(w)
  /\ prog' = [prog EXCEPT ![Waker] = <<Call("refill", w, NoTask), Call("settle", w, NoTask)>>]
  /\ UNCHANGED <<tasks, order, inbox, wake, session, spawned, requests, faults, note>>

\* WAKE_MAX_ATTEMPTS, a failed prompt, or no session and nothing to ensure it with.
WakeGivesUp(w) ==
  /\ prog[Waker] = <<>> /\ w \in wake /\ ~Empty(w)
  /\ wake' = wake \ {w}
  /\ UNCHANGED <<tasks, order, inbox, session, prog, spawned, requests, faults, note>>

\* ensure_pending_wake_target
WakeEnsures(w) ==
  /\ prog[Waker] = <<>> /\ w \in wake \ session /\ ~Empty(w)
  /\ \E t \in TaskIds : tasks[t].assignee = w /\ Runnable(t) /\ order[t].config
  /\ session' = session \union {w}
  /\ UNCHANGED <<tasks, order, inbox, wake, prog, spawned, requests, faults, note>>

\* reconcile_once: the recovery pass, then a nudge for a silent task.
Recover ==
  /\ prog[Reconciler] = <<>>
  /\ RecoverStale(session)
  /\ UNCHANGED <<calls, requests, faults, note>>

Nudge(t) ==
  LET a == tasks[t].assignee
  IN  /\ prog[Reconciler] = <<>>
      /\ Live(tasks, t) /\ tasks[t].status = "in_progress" /\ tasks[t].dispatch_count < NudgeCap
      /\ a \in session /\ Empty(a)
      /\ prog' = [prog EXCEPT ![Reconciler] = EnqueueTaskMessage(a, t, "checked")
                                                \o <<Call("schedule", a, t)>>]
      /\ StartFilling(t)
      /\ UNCHANGED <<tasks, order, inbox, wake, session, spawned, requests, faults>>

\* Sessions end by themselves or are stopped.
SessionEnds(w) ==
  /\ w \in session
  /\ faults < MaxFaults /\ faults' = faults + 1
  /\ session' = session \ {w}
  /\ UNCHANGED <<tasks, order, inbox, wake, prog, spawned, requests, note>>

-----------------------------------------------------------------------------

DInit ==
  /\ Init
  /\ order = [t \in TaskIds |-> [body |-> FALSE, config |-> FALSE]]
  /\ inbox = [w \in Callers |-> [m \in Carried |-> 0]]
  /\ wake = {}
  /\ session = Workspaces
  /\ prog = [p \in Threads |-> <<>>]
  /\ spawned = {}
  /\ requests = 0 /\ faults = 0
  /\ read = {} /\ lost = {} /\ late = {} /\ overlap = {} /\ cut = {}
  /\ asked = [t \in TaskIds |-> 0] /\ told = [t \in TaskIds |-> {}]

\* Only an assignee's inbox, wake and session decide anything below, so the plain
\* messages, reads, wake retries and lost sessions are those of assignees.
Serve(c) ==
  \/ c \in Assignees /\ ReadMessages(c)
  \/ /\ c \in Senders
     /\ \E config \in BOOLEAN :
          \/ Broadcast(c, Workspaces \ {c}, config)
          \/ \E to \in Assignees, m \in Carried : SendMessage(c, to, m, config)
  \/ \E t \in TaskIds :
       \/ \E a \in Assignees : HandleCreateTask(c, t, a) \/ \E config \in BOOLEAN : StartTask(c, t, a, config)
       \/ \E u \in Requests : HandleUpdateTask(c, t, u)
       \/ RefuseCompletion(c, t) \/ RecordToolActivity(c, t)
       \/ CancelTask(c, t, tasks[t].version) \/ RemoveTask(c, t, tasks[t].version)
       \/ \E action \in {"wake", "retry"} : InterveneTask(c, t, action, tasks[t].version)

Proceed(p) ==
  \/ Enqueue(p) \/ Notify(p) \/ Record(p) \/ Schedule(p) \/ Purge(p) \/ Settle(p) \/ CancelWake(p)
  \/ EnsureRunnable(p) \/ Spawn(p) \/ Peek(p) \/ Refill(p) \/ Find(p) \/ RetryTask(p)
  \/ At(p, "dequeue") /\ \E rest \in [Carried -> 0..QueueCap] : Dequeue(p, rest)

DNext ==
  \/ \E c \in Callers : Serve(c)
  \/ \E p \in Threads : Proceed(p)
  \/ \E w \in Assignees : WakeTick(w) \/ WakeGivesUp(w) \/ WakeEnsures(w) \/ BackgroundWake(w) \/ SessionEnds(w)
  \/ Recover \/ \E t \in TaskIds : Nudge(t)

DSpec == DInit /\ [][DNext]_dvars

-----------------------------------------------------------------------------
(* Properties *)

\* Nobody is in the middle of a handler.
Quiet == \A p \in Threads : prog[p] = <<>>

\* Every store holds what its type says.
DTypeOK ==
  /\ TypeOK
  /\ inbox \in [Callers -> [Carried -> Nat]]
  /\ wake \subseteq Callers /\ session \subseteq Callers /\ spawned \subseteq Callers
  /\ \A p \in Threads : \A i \in DOMAIN prog[p] : prog[p][i].ws \in Callers /\ prog[p][i].task \in Carried

\* A task that was handed out and not taken up has a message in its assignee's
\* inbox, or the agent has read one or reported on the task since.  There are three
\* exceptions: the follow-up of an update to blocked that a retry overtook purges the
\* retry's own message, a retry whose write failed queues none, and the cap drops one
\* among the oldest of a full inbox.
HandedOutIsDelivered ==
  Quiet => \A t \in TaskIds : Runnable(t) => Inbox(t) > 0 \/ t \in read \union lost

\* When a task ends, nothing that was queued for it stays in its assignee's inbox,
\* whoever ended it and whatever else was being queued: only a message that was
\* queued after the end, by a handler that had looked before it, is left, or the
\* messages of a task whose end could not be saved.
EndedLeavesNothing ==
  Quiet => \A t \in TaskIds : tasks[t].status \in Terminal => Inbox(t) = 0 \/ t \in late \union cut

\* The creator of a task that ended has been told how, however the follow-ups of
\* blocking, cancelling, retrying and finishing it interleaved, unless the write of
\* the end itself failed: then the handler is left before its follow-up.
CreatorIsTold ==
  Quiet => \A t \in TaskIds :
    tasks[t].status \in Terminal /\ tasks[t].created_by # tasks[t].assignee
      => tasks[t].status \in told[t] \/ t \in cut

\* Refills, wake requests and nudges do not pile up copies of a task's message:
\* next to what was queued on request there is at most one, unless two of them had
\* both looked before either had queued its own.
CopiesNeedARace ==
  \A t \in TaskIds : Exists(tasks, t) => Inbox(t) <= asked[t] + 1 \/ t \in overlap

\* A queued task message is one that somebody wants: none of an ended task's, and no
\* pile of copies.
QueuedIsWanted == DTypeOK /\ EndedLeavesNothing /\ CopiesNeedARace
=============================================================================
