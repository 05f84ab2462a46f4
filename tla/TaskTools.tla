------------------------------ MODULE TaskTools ------------------------------
(***************************************************************************)
(* The task tools of the MCP server (ax-mcp-server/src/server.rs) and the  *)
(* `ax tasks' command (ax-cli/src/tasks.rs) over the task store with its   *)
(* file.  Most tools are one request to the daemon.  Three are not:        *)
(* report_task_progress reads the task and then updates it by what it      *)
(* read, report_task_blocked updates it and then asks a peer for help, and *)
(* `ax tasks recover' prints commands with the version it read, which the  *)
(* operator runs later.  Anything may happen to the task in between.       *)
(*                                                                         *)
(* Notes, reasons and summaries are data; a call the server refuses for    *)
(* its arguments is no step, and neither is a request the daemon refuses,  *)
(* unless a call in flight ends with it.                                   *)
(***************************************************************************)
EXTENDS TaskPersistence, FiniteSetsExt

CONSTANT MaxTotal   \* bound: no operation starts once the versions add up to this

ASSUME TotalAssumption == MaxTotal \in Nat

VARIABLES
  call,      \* per agent: its tool call between two requests
  shown,     \* the preview on the operator's screen
  rewound,   \* a restart has set the shown task back since it was read
  loose,     \* tasks put aside by one of the events of PutAsideNeedsARace
  reported   \* tasks an agent was told are closed, when that was in the file

tvars == <<call, shown, rewound, loose, reported>>
toolVars == <<tasks, disk, acked, writeFaults, call, shown, rewound, loose, reported>>

-----------------------------------------------------------------------------

NoCall == [tool |-> "none", task |-> NoTask, seen |-> "none", undone |-> FALSE]

Calls == [tool : {"none", "progress", "help"}, task : TaskIds \union {NoTask},
          seen : Statuses \union {"none"}, undone : BOOLEAN]

NothingShown == [task |-> NoTask, version |-> 0, status |-> "none", removed |-> FALSE]

Previews == [task : TaskIds \union {NoTask}, version : Nat,
             status : Statuses \union {"none"}, removed : BOOLEAN]

\* A pending task that is claimed: runnable_by_assignee passes it over, so neither
\* the wake loop nor the reconciler hands it out again.
PutAside(ts, t) == Live(ts, t) /\ ts[t].status = "pending" /\ ts[t].claimed

\* What the step does to the calls of others and to the ghosts: a call whose task
\* goes back to pending is marked, and `strays' are put aside knowingly.
Follow(strays) ==
  loose' = {t \in loose \union strays : PutAside(tasks', t) \/ PutAside(disk', t)}

PutsBack(t) == tasks[t].status # "pending" /\ tasks'[t].status = "pending"

Marked(c) == IF c.task # NoTask /\ PutsBack(c.task) THEN [c EXCEPT !.undone = TRUE] ELSE c

MarkCalls == call' = [w \in Workspaces |-> Marked(call[w])]

\* The call of w goes on as `next'; the others are marked.
GoOn(w, next) == call' = [v \in Workspaces |-> IF v = w THEN next ELSE Marked(call[v])]

\* The answer is Ok; a write that failed makes it an error.
Answered == writeFaults' = writeFaults

\* An Ok answer that shows the task closed, and the file closed too.
Note(t) == reported' = IF Answered /\ tasks'[t].status \in Terminal /\ disk'[t] = tasks'[t]
                       THEN reported \union {t} ELSE reported

\* UpdateTask as the daemon serves it.
RequestUpdate(w, t, u) ==
  /\ Bounded(t)
  /\ Update(t, w, u, FALSE)
  /\ PersistAndReply(t) \/ ReplyUnchanged

-----------------------------------------------------------------------------
(* Tools of the agents *)

\* create_task and start_task: the record is the same, start_task's dispatch is
\* record_dispatch's business.
CreateTask ==
  /\ PCreate
  /\ MarkCalls /\ Follow({}) /\ UNCHANGED <<shown, rewound, reported>>

\* parse_update_status: blocked and cancelled have tools of their own.
UpdateStatuses == {"none", "pending", "in_progress", "completed", "failed"}

\* update_task.  Empty results and logs are dropped before they are sent.
UpdateTask ==
  \E w \in Workspaces, t \in TaskIds, u \in Requests :
    /\ u.status \in UpdateStatuses /\ u.result # "empty"
    /\ call[w].tool = "none"
    /\ RequestUpdate(w, t, u)
    /\ Follow(IF u.status \in {"none", "pending"} /\ w = tasks[t].assignee THEN {t} ELSE {})
    /\ MarkCalls /\ Note(t) /\ UNCHANGED <<shown, rewound>>

\* Mutant of ProgressGet: an id the store does not have is read like any other.
ProgressGetUnknown ==
  \E w \in Workspaces, t \in TaskIds :
    /\ call[w].tool = "none"
    /\ call' = [call EXCEPT ![w] = [tool |-> "progress", task |-> t,
                                    seen |-> tasks[t].status, undone |-> FALSE]]
    /\ UNCHANGED <<tasks, disk, acked, writeFaults, shown, rewound, loose, reported>>

\* report_task_progress, first request: get_task.
ProgressGet ==
  \E w \in Workspaces, t \in TaskIds :
    /\ call[w].tool = "none"
    /\ Exists(tasks, t)
    /\ call' = [call EXCEPT ![w] = [tool |-> "progress", task |-> t,
                                    seen |-> tasks[t].status, undone |-> FALSE]]
    /\ UNCHANGED <<tasks, disk, acked, writeFaults, shown, rewound, loose, reported>>

\* Mutant of Promotion: the note alone is sent.
PromotionNever(seen) == "none"

\* Only a task that was read as pending is promoted.
Promotion(seen) == IF seen = "pending" THEN "in_progress" ELSE "none"

\* Second request: the note, with the status the first one calls for.
ProgressUpdate ==
  \E w \in Workspaces, log \in {"fresh", "repeat"} :
    LET c == call[w]
        t == c.task
        u == [status |-> Promotion(c.seen), result |-> "none", log |-> log, confirm |-> FALSE]
    IN  /\ c.tool = "progress"
        /\ \/ /\ RequestUpdate(w, t, u)
              /\ Follow(IF c.undone THEN {t} ELSE {})
              /\ Note(t)
           \/ /\ ~ValidateTaskUpdate(tasks[t], u, w)
              /\ UNCHANGED <<tasks, disk, acked, writeFaults, loose, reported>>
        /\ GoOn(w, NoCall)
        /\ UNCHANGED <<shown, rewound>>

\* The process of an agent ends between two requests of a tool.
CallDies ==
  \E w \in Workspaces :
    /\ call[w].tool # "none"
    /\ call' = [call EXCEPT ![w] = NoCall]
    /\ UNCHANGED <<tasks, disk, acked, writeFaults, shown, rewound, loose, reported>>

\* report_task_failed, with the reason as result and log.
ReportFailed ==
  \E w \in Workspaces, t \in TaskIds, log \in {"fresh", "repeat"} :
    /\ call[w].tool = "none"
    /\ RequestUpdate(w, t, [status |-> "failed", result |-> "bare", log |-> log, confirm |-> FALSE])
    /\ MarkCalls /\ Follow({}) /\ Note(t) /\ UNCHANGED <<shown, rewound>>

\* report_task_completion builds the marker the daemon asks for, and confirms.
ReportCompletion ==
  \E w \in Workspaces, t \in TaskIds :
    /\ call[w].tool = "none"
    /\ RequestUpdate(w, t, [status |-> "completed", result |-> "declared", log |-> "none", confirm |-> TRUE])
    /\ MarkCalls /\ Follow({}) /\ Note(t) /\ UNCHANGED <<shown, rewound>>

\* report_task_blocked: when the update was answered Ok and a peer is named, the
\* help request follows.
ReportBlocked ==
  \E w \in Workspaces, t \in TaskIds, log \in {"fresh", "repeat"}, peer \in BOOLEAN :
    /\ call[w].tool = "none"
    /\ RequestUpdate(w, t, [status |-> "blocked", result |-> "none", log |-> log, confirm |-> FALSE])
    /\ GoOn(w, IF Answered /\ peer
               THEN [tool |-> "help", task |-> t, seen |-> "blocked", undone |-> FALSE]
               ELSE call[w])
    /\ Follow({}) /\ UNCHANGED <<shown, rewound, reported>>

\* The help request: the peer's inbox is WakeDelivery's; taken or refused, the
\* task stays as it is and the tool returns.
AskForHelp ==
  \E w \in Workspaces :
    /\ call[w].tool = "help"
    /\ call' = [call EXCEPT ![w] = NoCall]
    /\ UNCHANGED <<tasks, disk, acked, writeFaults, shown, rewound, loose, reported>>

\* cancel_task, remove_task and intervene_task(retry), with the current version or
\* with none.
ControlTask ==
  /\ \E w \in Workspaces, t \in TaskIds :
       /\ call[w].tool = "none"
       /\ Bounded(t)
       /\ \/ Cancel(t, w, tasks[t].version)
          \/ \E stale \in BOOLEAN : Remove(t, w, tasks[t].version, stale)
          \/ Retry(t, w, tasks[t].version)
       /\ PersistAndReply(t)
  /\ MarkCalls /\ Follow({}) /\ UNCHANGED <<shown, rewound, reported>>

-----------------------------------------------------------------------------
(* The operator's terminal *)

\* ax tasks recover: what is read is printed, with the commands to run next.
TasksRecover ==
  \E t \in TaskIds :
    /\ Exists(tasks, t)
    /\ shown' = [task |-> t, version |-> tasks[t].version, status |-> tasks[t].status,
                 removed |-> tasks[t].removed]
    /\ rewound' = FALSE
    /\ UNCHANGED <<tasks, disk, acked, writeFaults, call, loose, reported>>

\* Mutant of NextSteps: a failed task is offered for another try.
NextStepsFailed(p) ==
  IF p.removed THEN {}
  ELSE IF p.status \in {"pending", "in_progress", "failed"} THEN {"wake", "interrupt", "retry", "cancel"}
  ELSE IF p.status \in Terminal THEN {"remove"}
  ELSE {}

\* task_recovery_preview_lines: the commands, all with the version that was read.
NextSteps(p) ==
  IF p.removed THEN {}
  ELSE IF p.status \in {"pending", "in_progress"} THEN {"wake", "interrupt", "retry", "cancel"}
  ELSE IF p.status \in Terminal THEN {"remove"}
  ELSE {}

\* get_for_intervention, and the guards of cancel and remove: what the daemon takes
\* from the operator.
Takes(t, step, expected) ==
  /\ Exists(tasks, t)
  /\ ValidateTaskControl(tasks[t], Operator, expected, step # "remove")
  /\ CASE step \in {"wake", "interrupt", "retry"} -> tasks[t].status \in Open
       [] step = "cancel" -> tasks[t].status \notin Terminal
       [] OTHER           -> tasks[t].status \in Terminal

\* The request the command line sends, as the operator and with the version given.
Command(step, t, expected) ==
  \/ step = "cancel" /\ Cancel(t, Operator, expected)
  \/ step = "retry"  /\ Retry(t, Operator, expected)
  \/ step = "remove" /\ \E stale \in BOOLEAN : Remove(t, Operator, expected, stale)

\* One of the printed commands is run.  wake and interrupt leave the store alone.
RunShown ==
  /\ \E step \in NextSteps(shown) \ {"wake", "interrupt"} :
       LET t == shown.task
       IN  /\ Bounded(t)
           /\ Takes(t, step, shown.version)
           /\ Command(step, t, shown.version)
           /\ PersistAndReply(t)
  /\ MarkCalls /\ Follow({}) /\ UNCHANGED <<shown, rewound, reported>>

-----------------------------------------------------------------------------
(* The daemon *)

Background ==
  /\ PBackground
  /\ MarkCalls /\ Follow({}) /\ UNCHANGED <<shown, rewound, reported>>

\* A restart sets every task back to what the file has.
DaemonRestart ==
  /\ Restart
  /\ MarkCalls /\ Follow({})
  /\ rewound' = (rewound \/ (shown.task # NoTask /\ disk[shown.task].version < shown.version))
  /\ UNCHANGED <<shown, reported>>

ToolsInit ==
  /\ PInit
  /\ call = [w \in Workspaces |-> NoCall]
  /\ shown = NothingShown
  /\ rewound = FALSE
  /\ loose = {}
  /\ reported = {}

Room == MapThenSumSet(LAMBDA t : tasks[t].version, TaskIds) < MaxTotal

ToolsNext ==
  \/ Room /\ \/ CreateTask \/ UpdateTask \/ ProgressUpdate \/ ReportFailed
             \/ ReportCompletion \/ ReportBlocked \/ ControlTask \/ RunShown \/ Background
  \/ ProgressGet \/ CallDies \/ AskForHelp \/ TasksRecover \/ DaemonRestart

ToolsSpec == ToolsInit /\ [][ToolsNext]_toolVars

-----------------------------------------------------------------------------
(* Properties *)

\* Types of the calls, the preview and the ghosts.
ToolsTypeOK ==
  /\ call \in [Workspaces -> Calls]
  /\ shown \in Previews
  /\ rewound \in BOOLEAN
  /\ loose \subseteq TaskIds /\ reported \subseteq TaskIds

\* The progress tool alone never parks a task: a pending task that is claimed, and
\* so never handed out again, got there through its assignee's own update_task, or
\* through a progress report whose task a retry, a recovery or a restart put back
\* to pending between its two requests.
PutAsideNeedsARace == \A t \in TaskIds : PutAside(tasks, t) => t \in loose

\* --expected-version protects the operator: as long as the version is the one on
\* the screen the task has the status on the screen.  The one exception is a
\* restart that went back behind the shown version, because versions lost with a
\* failed write are handed out again.
ShownIsCurrent ==
  shown.task # NoTask /\ ~rewound /\ tasks[shown.task].version = shown.version
    => tasks[shown.task].status = shown.status /\ tasks[shown.task].removed = shown.removed

\* The command line and the daemon agree on what can be done: while the task has
\* the version on the screen, the daemon takes every command printed there.
ShownStepsAreTaken ==
  shown.task # NoTask /\ ~rewound /\ tasks[shown.task].version = shown.version
    => \A step \in NextSteps(shown) : Takes(shown.task, step, shown.version)

\* An agent that was told its task is closed, by an answer that came with the task
\* in the file, never sees it open again: not after failed writes, retries, notes
\* that arrive late, or restarts.
ReportedStaysClosed ==
  \A t \in reported : tasks[t].status \in Terminal /\ disk[t].status \in Terminal
=============================================================================
