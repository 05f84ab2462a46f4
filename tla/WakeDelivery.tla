---------------------------- MODULE WakeDelivery ----------------------------
(***************************************************************************)
(* How one workspace's agent gets to see what lies in its inbox.  Handlers *)
(* run in parallel on a multi-threaded runtime and take the queue's, the   *)
(* task store's and the wake scheduler's locks one after the other, so a   *)
(* step below is one call on one of these stores (or one tmux call), and   *)
(* between any two steps the others may act:                               *)
(*   - other workspaces send messages or start a task (pc);                *)
(*   - the reconciler nudges a silent task (pc[Reconciler]);               *)
(*   - the agent's own connection reads and updates its task (reader);     *)
(*   - the wake scheduler's loop prompts the idle agent (waker);           *)
(*   - the idle-sleep loop stops the idle session (sleeper).               *)
(*                                                                         *)
(* Stores are keyed by workspace, so one workspace is enough; it has at    *)
(* most one task.  The order of messages is MessageQueue's subject: here   *)
(* the inbox is the number of plain messages and of messages for the task. *)
(***************************************************************************)
EXTENDS Integers

CONSTANTS
  Senders,      \* connections of other workspaces
  Reconciler,   \* the stranded-task reconciler
  MaxAttempts,  \* WAKE_MAX_ATTEMPTS
  NudgeCap,     \* SILENT_TASK_NUDGE_CAP
  MaxSends,     \* bound: messages sent and tasks started, and one reminder
  MaxFaults     \* bound: tmux failures, lost sessions, daemon restarts

ASSUME WakeAssumption ==
  /\ Reconciler \notin Senders
  /\ MaxAttempts \in Nat \ {0} /\ NudgeCap \in Nat \ {0}
  /\ MaxSends \in Nat /\ MaxFaults \in Nat

VARIABLES
  inbox,    \* unread messages: [note, task]
  task,     \* [status, dispatches, config]; dispatches counts up to NudgeCap
  wake,     \* the scheduler's entry, or NoWake
  session,  \* the tmux session: "none", "idle", or "busy" in a turn
  pc, reader, waker, sleeper,
  sends, faults,
  prompts,  \* prompts the scheduler sent since the wake was last scheduled
  excused   \* one of the events of UnreadIsCovered hit the unread messages

stores == <<inbox, task, wake, session>>
vars == <<inbox, task, wake, session, pc, reader, waker, sleeper, sends, faults, prompts, excused>>

NoWake    == [attempts |-> -1, due |-> FALSE]
FreshWake == [attempts |-> 0, due |-> FALSE]
WakeOn    == wake # NoWake
Empty     == inbox.note = 0 /\ inbox.task = 0
Open      == task.status \in {"pending", "in_progress"}

\* The task is one runnable_by_assignee returns.
Owed == task.status = "pending" /\ task.dispatches > 0

\* The scheduler's lock is held while its hooks run.
WakeLocked == waker \in {"refill", "ensure"}

\* Some thread saw an empty inbox and is about to drop the entry.
Cancelling == reader = "cancel" \/ waker = "cancel"

Count(n) == IF n < NudgeCap THEN n + 1 ELSE n

\* queue.enqueue.  `followed': the caller goes on to schedule a wake.
Put(kind, followed) ==
  /\ inbox' = [inbox EXCEPT ![kind] = @ + 1]
  /\ excused' = (excused \/ Cancelling \/ (~followed /\ ~WakeOn))

Schedule ==
  /\ ~WakeLocked
  /\ wake' = FreshWake
  /\ prompts' = 0
  /\ excused' = (excused /\ Cancelling)

Cancel == ~WakeLocked /\ wake' = NoWake

Fault == faults < MaxFaults /\ faults' = faults + 1

-----------------------------------------------------------------------------
(* Senders: send_message, broadcast, start_task; the reconciler's nudge *)

SendEnqueue(s) ==
  /\ pc[s] = "ready" /\ sends < MaxSends
  /\ sends' = sends + 1
  /\ Put("note", TRUE)
  /\ pc' = [pc EXCEPT ![s] = "schedule"]
  /\ UNCHANGED <<task, wake, session, reader, waker, sleeper, faults, prompts>>

\* start_task; the task gets the sender's own config path, if it registered one.
StartCreate(s, config) ==
  /\ pc[s] = "ready" /\ sends < MaxSends /\ task.status = "none"
  /\ sends' = sends + 1
  /\ task' = [status |-> "pending", dispatches |-> 0, config |-> config]
  /\ pc' = [pc EXCEPT ![s] = "enqueue"]
  /\ UNCHANGED <<inbox, wake, session, reader, waker, sleeper, faults, prompts, excused>>

\* reconcile_once's second pass, from its checks to the enqueue.
Nudge ==
  /\ pc[Reconciler] = "ready"
  /\ task.status = "in_progress" /\ task.dispatches < NudgeCap
  /\ session = "idle"
  /\ Empty
  /\ pc' = [pc EXCEPT ![Reconciler] = "enqueue"]
  /\ UNCHANGED <<stores, reader, waker, sleeper, sends, faults, prompts, excused>>

\* enqueue_task_message: the message, then record_dispatch.
TaskEnqueue(s) ==
  /\ pc[s] = "enqueue"
  /\ Put("task", TRUE)
  /\ pc' = [pc EXCEPT ![s] = "record"]
  /\ UNCHANGED <<task, wake, session, reader, waker, sleeper, sends, faults, prompts>>

TaskRecord(s) ==
  /\ pc[s] = "record"
  /\ task' = [task EXCEPT !.dispatches = Count(@)]
  /\ pc' = [pc EXCEPT ![s] = "schedule"]
  /\ UNCHANGED <<inbox, wake, session, reader, waker, sleeper, sends, faults, prompts, excused>>

\* The wake; then ensure_runnable, when the sender or the task names a config.
SendSchedule(s, ensure) ==
  /\ pc[s] = "schedule"
  /\ s = Reconciler => ~ensure
  /\ Schedule
  /\ pc' = [pc EXCEPT ![s] = IF ensure THEN "dispatch" ELSE "ready"]
  /\ UNCHANGED <<inbox, task, session, reader, waker, sleeper, sends, faults>>

\* dispatch_runnable_work creates a missing session and types the prompt; when
\* it fails the caller gets an error and the message stays queued.
SendDispatch(s) ==
  /\ pc[s] = "dispatch"
  /\ \/ session' = "busy" /\ UNCHANGED faults
     \/ Fault /\ UNCHANGED session
  /\ pc' = [pc EXCEPT ![s] = "ready"]
  /\ UNCHANGED <<inbox, task, wake, reader, waker, sleeper, sends, prompts, excused>>

Sending == \E s \in Senders \union {Reconciler} :
             \/ TaskEnqueue(s) \/ TaskRecord(s) \/ SendDispatch(s)
             \/ \E ensure \in BOOLEAN : SendSchedule(s, ensure)

-----------------------------------------------------------------------------
(* The agent's connection *)

\* read_messages finds an empty inbox under a pending wake, and a runnable task
\* without a message: it will queue one.
ReadBegin ==
  /\ reader = "ready" /\ session = "busy"
  /\ Empty => ~WakeLocked
  /\ reader' = IF Empty /\ WakeOn /\ Owed THEN "refill" ELSE "dequeue"
  /\ UNCHANGED <<stores, pc, waker, sleeper, sends, faults, prompts, excused>>

ReadRefill ==
  /\ reader = "refill"
  /\ Put("task", FALSE)
  /\ task' = [task EXCEPT !.dispatches = Count(@)]
  /\ reader' = "dequeue"
  /\ UNCHANGED <<wake, session, pc, waker, sleeper, sends, faults, prompts>>

\* The limit and the filter on the sender leave any part of the inbox behind.
ReadDequeue(notes, tasks) ==
  /\ reader = "dequeue"
  /\ inbox' = [note |-> notes, task |-> tasks]
  /\ excused' = (excused /\ ~(notes = 0 /\ tasks = 0))
  /\ reader' = "settle"
  /\ UNCHANGED <<task, wake, session, pc, waker, sleeper, sends, faults, prompts>>

\* Mutant of ReadSettle: the wake goes with every read.
ReadSettleAlways ==
  /\ reader = "settle"
  /\ reader' = "cancel"
  /\ UNCHANGED <<stores, pc, waker, sleeper, sends, faults, prompts, excused>>

\* After a read or a purge: is anything left?
ReadSettle ==
  /\ reader = "settle"
  /\ reader' = IF Empty THEN "cancel" ELSE "ready"
  /\ UNCHANGED <<stores, pc, waker, sleeper, sends, faults, prompts, excused>>

ReadCancel ==
  /\ reader = "cancel"
  /\ Cancel
  /\ reader' = "ready"
  /\ UNCHANGED <<inbox, task, session, pc, waker, sleeper, sends, faults, prompts, excused>>

\* update_task to in_progress: no follow-up.
Claim ==
  /\ reader = "ready" /\ session = "busy" /\ task.status = "pending"
  /\ task' = [task EXCEPT !.status = "in_progress"]
  /\ UNCHANGED <<inbox, wake, session, pc, reader, waker, sleeper, sends, faults, prompts, excused>>

\* update_task to a final status; apply_task_state_followup starts with the purge.
Close ==
  /\ reader = "ready" /\ session = "busy" /\ Open
  /\ task' = [task EXCEPT !.status = "closed"]
  /\ reader' = "purge"
  /\ UNCHANGED <<inbox, wake, session, pc, waker, sleeper, sends, faults, prompts, excused>>

Purge ==
  /\ reader = "purge"
  /\ inbox' = [inbox EXCEPT !.task = 0]
  /\ excused' = (excused /\ inbox.note # 0)
  /\ reader' = "settle"
  /\ UNCHANGED <<task, wake, session, pc, waker, sleeper, sends, faults, prompts>>

\* A rejected completion: a reminder in the agent's own inbox, and no wake.
Remind ==
  /\ reader = "ready" /\ session = "busy" /\ Open
  /\ sends <= MaxSends  \* bound: one after the last
  /\ sends' = sends + 1
  /\ Put("task", FALSE)
  /\ UNCHANGED <<task, wake, session, pc, reader, waker, sleeper, faults, prompts>>

Reading == ReadRefill \/ ReadSettle \/ ReadCancel \/ Purge
             \/ \E n \in 0..inbox.note, t \in 0..inbox.task : ReadDequeue(n, t)

EndTurn ==
  /\ session = "busy" /\ reader = "ready"
  /\ session' = "idle"
  /\ UNCHANGED <<inbox, task, wake, pc, reader, waker, sleeper, sends, faults, prompts, excused>>

-----------------------------------------------------------------------------
(* The wake scheduler's loop *)

\* next_retry passes.
Due ==
  /\ WakeOn /\ ~wake.due
  /\ wake' = [wake EXCEPT !.due = TRUE]
  /\ UNCHANGED <<inbox, task, session, pc, reader, waker, sleeper, sends, faults, prompts, excused>>

WakeGoto(next) ==
  /\ waker' = next
  /\ UNCHANGED <<stores, pc, reader, sleeper, sends, faults, prompts, excused>>

\* process clones the due entries and then works without the lock.
WakeTick == waker = "ready" /\ WakeOn /\ wake.due /\ WakeGoto("check")

WakeCheck == waker = "check" /\ WakeGoto(IF Empty /\ Owed THEN "refill" ELSE "recheck")

WakeRefill ==
  /\ waker = "refill"
  /\ Put("task", FALSE)
  /\ task' = [task EXCEPT !.dispatches = Count(@)]
  /\ waker' = "recheck"
  /\ UNCHANGED <<wake, session, pc, reader, sleeper, sends, faults, prompts>>

WakeRecheck == waker = "recheck" /\ WakeGoto(IF Empty THEN "cancel" ELSE "session")

WakeCancel ==
  /\ waker = "cancel"
  /\ Cancel
  /\ waker' = "ready"
  /\ UNCHANGED <<inbox, task, session, pc, reader, sleeper, sends, faults, prompts, excused>>

WakeSession == waker = "session" /\ WakeGoto(IF session = "none" THEN "ensure" ELSE "probe")

\* ensure_pending_wake_target: only a runnable task with a config path brings a
\* session back; otherwise the wake is dropped and the messages stay.
WakeEnsure ==
  /\ waker = "ensure"
  /\ \/ /\ session # "none" \/ (Owed /\ task.config)
        /\ session' = IF session = "none" THEN "busy" ELSE session
        /\ waker' = "ensured"
        /\ UNCHANGED <<faults, excused>>
     \/ /\ session = "none"
        /\ \/ ~(Owed /\ task.config) /\ UNCHANGED faults
           \/ Owed /\ task.config /\ Fault
        /\ waker' = "cancel"
        /\ excused' = ~Empty
        /\ UNCHANGED session
  /\ UNCHANGED <<inbox, task, wake, pc, reader, sleeper, sends, prompts>>

\* Mutant of WakeProbe: a retry is put off whether the agent is idle or not.
WakeProbePutsOff ==
  /\ waker = "probe"
  /\ waker' = "ready"
  /\ wake' = IF WakeOn THEN [wake EXCEPT !.due = FALSE] ELSE wake
  /\ UNCHANGED <<inbox, task, session, pc, reader, sleeper, sends, faults, prompts, excused>>

\* is_idle; a busy agent puts the retry off without counting an attempt.
WakeProbe ==
  /\ waker = "probe"
  /\ \/ /\ session = "idle"
        /\ waker' = "send"
        /\ UNCHANGED wake
     \/ /\ session # "idle"
        /\ waker' = "ready"
        /\ wake' = IF WakeOn THEN [wake EXCEPT !.due = FALSE] ELSE wake
  /\ UNCHANGED <<inbox, task, session, pc, reader, sleeper, sends, faults, prompts, excused>>

\* wake_workspace types the prompt into whatever the session is by now.
WakeSend ==
  /\ waker = "send"
  /\ \/ /\ session # "none"
        /\ session' = "busy"
        /\ prompts' = prompts + 1
        /\ waker' = "sent"
        /\ UNCHANGED faults
     \/ /\ \/ session = "none" /\ UNCHANGED faults
           \/ session # "none" /\ Fault
        /\ waker' = "failed"
        /\ UNCHANGED <<session, prompts>>
  /\ UNCHANGED <<inbox, task, wake, pc, reader, sleeper, sends, excused>>

\* Mutant of WakeAdvance: one attempt too many.
WakeAdvanceLate ==
  LET tried == wake.attempts + 1
      over  == waker = "failed" \/ tried > MaxAttempts
  IN  /\ waker \in {"ensured", "sent", "failed"}
      /\ waker' = "ready"
      /\ wake' = IF WakeOn /\ ~over THEN [attempts |-> tried, due |-> FALSE] ELSE NoWake
      /\ excused' = (excused \/ (WakeOn /\ over /\ ~Empty))
      /\ UNCHANGED <<inbox, task, session, pc, reader, sleeper, sends, faults, prompts>>

\* Mutant of WakeAdvance: a prompt that was typed is not counted.
WakeAdvanceUncounted ==
  LET over == waker = "failed"
  IN  /\ waker \in {"ensured", "sent", "failed"}
      /\ waker' = "ready"
      /\ wake' = IF WakeOn /\ ~over THEN [wake EXCEPT !.due = FALSE] ELSE NoWake
      /\ prompts' = 0
      /\ excused' = (excused \/ (WakeOn /\ over /\ ~Empty))
      /\ UNCHANGED <<inbox, task, session, pc, reader, sleeper, sends, faults>>

\* advance_attempt, on the entry as it is by now.
WakeAdvance ==
  LET tried == wake.attempts + 1
      over  == waker = "failed" \/ tried >= MaxAttempts
  IN  /\ waker \in {"ensured", "sent", "failed"}
      /\ waker' = "ready"
      /\ wake' = IF WakeOn /\ ~over THEN [attempts |-> tried, due |-> FALSE] ELSE NoWake
      /\ excused' = (excused \/ (WakeOn /\ over /\ ~Empty))
      /\ UNCHANGED <<inbox, task, session, pc, reader, sleeper, sends, faults, prompts>>

Waking == \/ WakeTick \/ WakeCheck \/ WakeRefill \/ WakeRecheck \/ WakeCancel
          \/ WakeSession \/ WakeEnsure \/ WakeProbe \/ WakeSend \/ WakeAdvance

-----------------------------------------------------------------------------
(* The idle-sleep loop, the reconciler's recovery pass, and faults *)

SleepGoto(next) ==
  /\ sleeper' = next
  /\ UNCHANGED <<stores, pc, reader, waker, sends, faults, prompts, excused>>

\* should_sleep reads tmux, the queue, the scheduler and the task store in turn.
SleepProbe == sleeper = "ready" /\ session = "idle" /\ SleepGoto("inbox")
SleepInbox == sleeper = "inbox" /\ SleepGoto(IF Empty THEN "wake" ELSE "ready")
SleepWake  == sleeper = "wake" /\ ~WakeLocked /\ SleepGoto(IF WakeOn THEN "ready" ELSE "tasks")
SleepTasks == sleeper = "tasks" /\ SleepGoto(IF Open THEN "ready" ELSE "stop")

SleepStop ==
  /\ sleeper = "stop"
  /\ session' = "none"
  /\ sleeper' = "ready"
  /\ UNCHANGED <<inbox, task, wake, pc, reader, waker, sends, faults, prompts, excused>>

\* recover_stale_in_progress.
Recover ==
  /\ task.status = "in_progress" /\ session = "none"
  /\ task' = [task EXCEPT !.status = "pending"]
  /\ UNCHANGED <<inbox, wake, session, pc, reader, waker, sleeper, sends, faults, prompts, excused>>

\* The agent's session goes away by itself.
SessionDies ==
  /\ session # "none" /\ Fault
  /\ session' = "none"
  /\ UNCHANGED <<inbox, task, wake, pc, reader, waker, sleeper, sends, prompts, excused>>

\* A restarted daemon has the queue and the tasks, and an empty wake map.
Restart ==
  /\ Fault
  /\ wake' = NoWake
  /\ pc' = [s \in Senders \union {Reconciler} |-> "ready"]
  /\ reader' = "ready" /\ waker' = "ready" /\ sleeper' = "ready"
  /\ prompts' = 0
  /\ excused' = ~Empty
  /\ UNCHANGED <<inbox, task, session, sends>>

-----------------------------------------------------------------------------

Init ==
  /\ inbox = [note |-> 0, task |-> 0]
  /\ task = [status |-> "none", dispatches |-> 0, config |-> FALSE]
  /\ wake = NoWake
  /\ session = "idle"
  /\ pc = [s \in Senders \union {Reconciler} |-> "ready"]
  /\ reader = "ready" /\ waker = "ready" /\ sleeper = "ready"
  /\ sends = 0 /\ faults = 0 /\ prompts = 0
  /\ excused = FALSE

Next ==
  \/ \E s \in Senders : SendEnqueue(s) \/ \E config \in BOOLEAN : StartCreate(s, config)
  \/ Nudge \/ Sending
  \/ ReadBegin \/ Reading \/ Claim \/ Close \/ Remind \/ EndTurn
  \/ Due \/ Waking
  \/ SleepProbe \/ SleepInbox \/ SleepWake \/ SleepTasks \/ SleepStop
  \/ Recover \/ SessionDies \/ Restart

\* A handler that was begun runs to its end, the scheduler's interval keeps
\* ticking, time passes, and an agent's turn ends, however often it reads first.
Fairness ==
  /\ WF_vars(Sending) /\ WF_vars(Reading)
  /\ WF_vars(Waking) /\ WF_vars(Due) /\ SF_vars(EndTurn)

Spec == Init /\ [][Next]_vars /\ Fairness

-----------------------------------------------------------------------------
(* Properties *)

\* Every store and every thread holds a value of its type.
TypeOK ==
  /\ inbox \in [note : Nat, task : Nat]
  /\ task \in [status : {"none", "pending", "in_progress", "closed"},
               dispatches : 0..NudgeCap, config : BOOLEAN]
  /\ wake = NoWake \/ wake \in [attempts : 0..MaxAttempts - 1, due : BOOLEAN]
  /\ session \in {"none", "idle", "busy"}
  /\ pc \in [Senders \union {Reconciler} -> {"ready", "enqueue", "record", "schedule", "dispatch"}]
  /\ excused \in BOOLEAN

\* Unread messages have a pending wake once their sender is through, unless one of
\* these happened: they came while a thread that had seen an empty inbox was about
\* to drop the entry; they were queued by a refill whose wake was dropped, or by a
\* rejected completion; the retries ran out, failed or were refused; the daemon
\* restarted.  No other order of the handlers' steps leaves a message without one.
UnreadIsCovered ==
  ~Empty /\ (\A s \in DOMAIN pc : pc[s] \notin {"record", "schedule"}) => WakeOn \/ excused

\* One scheduling buys at most WAKE_MAX_ATTEMPTS prompts, although the loop works
\* on a copy of the entry that may have been dropped or replaced meanwhile.
PromptsAreBounded == prompts <= MaxAttempts

\* Every pending wake ends: retries do not go on for ever.
EveryWakeEnds == []<>~WakeOn

\* An idle agent with unread messages and a pending wake gets its prompt.
IdleIsPrompted == (session = "idle" /\ ~Empty /\ WakeOn) ~> (session # "idle" \/ Empty \/ excused)

\* As long as messages are unread a wake is pending, as the developer guide has it.
UnreadIsRetried ==
  ~Empty /\ (\A s \in DOMAIN pc : pc[s] \notin {"record", "schedule"}) => WakeOn

\* A workspace put to sleep has no queued work, no pending wake and no open task.
SleepTakesNoWork == [][SleepStop => Empty /\ ~WakeOn /\ ~Open]_vars
=============================================================================
